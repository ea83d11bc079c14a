----------------------- MODULE ReminderDeliveryProofs -----------------------
(***************************************************************************)
(* What holds of ReminderDelivery for any number of reminders, workers,    *)
(* requests and crashes, any delays and any bounds: types, closed          *)
(* reminders, versions, settlement and silence; then what the providers    *)
(* accepted; last the caps of a delivery cycle, its budget and its window. *)
(***************************************************************************)
EXTENDS ReminderDelivery, FiniteSetTheorems, TLAPS

\* What a worker knows at each step of its run, beyond its type.
WorkerShape(s) ==
  /\ s.pc # "idle" => s.now \in Nat
  /\ s.pc \notin {"idle", "claim"} => s.r \in Reminders
  /\ s.pc \notin {"idle", "claim", "load", "settings", "suppress"} => s.policy \in Policy
  /\ s.pc = "commit" =>
       /\ s.verdict \in {"delivered", "retrying", "failed"}
       /\ s.verdict = "retrying" => s.retryAt \in Nat

TypeInv == TypeOK /\ \A w \in Workers : WorkerShape(wk[w])

-----------------------------------------------------------------------------
(* Typing of the operators the actions are built from.                     *)

LEMMA UnleasedType == ASSUME NEW j \in JobRow PROVE Unleased(j) \in JobRow
  BY DEF Unleased, JobRow, OptTime

LEMMA JobUpdateType ==
  ASSUME NEW j \in JobRow, NEW s \in JobStatuses, NEW t \in Nat
  PROVE  /\ [j EXCEPT !.status = s] \in JobRow
         /\ [j EXCEPT !.status = s, !.avail = t] \in JobRow
  BY DEF JobRow

LEMMA QueuedType == ASSUME NEW t \in Nat PROVE QueuedJob(t) \in JobRow
  BY DEF QueuedJob, NoJob, JobRow, JobStatuses, OptTime

LEMMA NotHoldingType ==
  ASSUME NEW pc \in {"idle", "claim"}, NEW now \in OptTime, NEW left \in Nat,
         pc = "claim" => now \in Nat
  PROVE  /\ NotHolding(pc, now, left) \in WorkerState
         /\ WorkerShape(NotHolding(pc, now, left))
  BY DEF NotHolding, WorkerState, WorkerShape, OptTime, Steps, Kinds, Verdicts, Channels

LEMMA ReconciledReminderType ==
  ASSUME NEW x \in ReminderRow, NEW now \in Nat
  PROVE  ReconciledReminder(x, now) \in ReminderRow
<1>. DEFINE d == IF x.dstate = "not_due" THEN "queued" ELSE x.dstate
<1>1. "due" \in ReminderStatuses /\ "queued" \in DeliveryStates
  BY DEF ReminderStatuses, DeliveryStates, OpenStatus
<1>2. x.version + 1 \in Nat /\ d \in DeliveryStates
  BY <1>1 DEF ReminderRow
<1>3. [x EXCEPT !.status = "due", !.version = @ + 1, !.dstate = d] \in ReminderRow
  BY <1>1, <1>2 DEF ReminderRow
<1>4. [x EXCEPT !.dstate = "queued", !.version = @ + 1] \in ReminderRow
  BY <1>1, <1>2 DEF ReminderRow
<1>. QED
  BY <1>3, <1>4 DEF ReconciledReminder

LEMMA ReconciledJobType ==
  ASSUME NEW x \in ReminderRow, NEW j \in JobRow, NEW now \in Nat
  PROVE  ReconciledJob(x, j, now) \in JobRow
<1>1. AvailableAt(x, now) \in Nat
  BY DEF AvailableAt, ReminderRow, OptTime, None
<1>2. QueuedJob(AvailableAt(x, now)) \in JobRow
  BY <1>1, QueuedType
<1>3. Unleased(j) \in JobRow
  BY UnleasedType
<1>4. TerminalJob(x, j, now) \in JobRow
  <2>. DEFINE a == IF j.status = "absent" THEN now ELSE Unleased(j).avail
  <2>1. Unleased(j).avail = j.avail
    BY DEF JobRow, Unleased
  <2>2. a \in Nat
    BY <1>3 DEF JobRow
  <2>3. JobStatusOf(x.dstate) \in JobStatuses
    BY DEF JobStatusOf, JobStatuses
  <2>4. [Unleased(j) EXCEPT !.status = JobStatusOf(x.dstate), !.avail = a] \in JobRow
    BY <1>3, <2>2, <2>3, JobUpdateType
  <2>. QED
    BY <2>4 DEF TerminalJob
<1>. DEFINE queued == [Unleased(j) EXCEPT !.status = "queued", !.avail = AvailableAt(x, now)]
<1>5. queued \in JobRow
  BY <1>1, <1>3, JobUpdateType DEF JobStatuses
<1>6. [queued EXCEPT !.window = None, !.cycle = 0] \in JobRow
  BY <1>5 DEF JobRow, OptTime
<1>. QED
  BY <1>2, <1>4, <1>5, <1>6 DEF ReconciledJob

-----------------------------------------------------------------------------
(* The type invariant is inductive.                                        *)

LEMMA WorkerUpdate ==
  ASSUME TypeInv, NEW w \in Workers, NEW s \in WorkerState, WorkerShape(s),
         wk' = [wk EXCEPT ![w] = s]
  PROVE  wk' \in [Workers -> WorkerState] /\ \A v \in Workers : WorkerShape(wk'[v])
  BY DEF TypeInv, TypeOK

LEMMA RunEnds ==
  ASSUME TypeInv, NEW w \in Workers, AbortRun(w) \/ (NextJob(w) /\ wk[w].pc # "idle")
  PROVE  wk' \in [Workers -> WorkerState] /\ \A v \in Workers : WorkerShape(wk'[v])
<1>1. wk[w].now \in OptTime /\ wk[w].left \in Nat
  BY DEF TypeInv, TypeOK, WorkerState
<1>2. CASE AbortRun(w)
  <2>1. NotHolding("idle", wk[w].now, 0) \in WorkerState /\ WorkerShape(NotHolding("idle", wk[w].now, 0))
    BY <1>1, NotHoldingType
  <2>. QED  BY <1>2, <2>1, WorkerUpdate DEF AbortRun
<1>3. CASE NextJob(w) /\ wk[w].pc # "idle"
  <2>1. wk[w].now \in Nat
    BY <1>3 DEF TypeInv, WorkerShape
  <2>2. /\ NotHolding("claim", wk[w].now, wk[w].left) \in WorkerState
        /\ WorkerShape(NotHolding("claim", wk[w].now, wk[w].left))
    BY <1>1, <2>1, NotHoldingType
  <2>. QED  BY <1>3, <2>2, WorkerUpdate DEF NextJob
<1>. QED  BY <1>2, <1>3

LEMMA RequestsKeepTypes ==
  ASSUME TypeInv, Tick \/ Request
  PROVE  TypeInv'
<1>. USE DEF TypeInv, TypeOK
<1>1. CASE Tick
  BY <1>1 DEF Tick, history
<1>2. ASSUME NEW r \in Reminders, NEW due \in Dues, CreateReminder(r, due)
      PROVE  TypeInv'
  <2>1. CreatedReminder(due) \in ReminderRow
    BY DeliveryAssumption DEF CreatedReminder, ReminderRow, ReminderStatuses,
       DeliveryStates, OpenStatus, OptTime
  <2>2. QueuedJob(due) \in JobRow
    BY DeliveryAssumption, QueuedType
  <2>. QED  BY <1>2, <2>1, <2>2 DEF CreateReminder, history
<1>3. ASSUME NEW r \in Reminders, NEW due \in Dues, ImportReminder(r, due)
      PROVE  TypeInv'
  <2>1. CreatedReminder(due) \in ReminderRow
    BY DeliveryAssumption DEF CreatedReminder, ReminderRow, ReminderStatuses,
       DeliveryStates, OpenStatus, OptTime
  <2>. QED  BY <1>3, <2>1 DEF ImportReminder, CountEdit, history
<1>4. ASSUME NEW r \in Reminders, NEW due \in Dues, PatchReminder(r, due)
      PROVE  TypeInv'
  <2>1. due \in Nat /\ rem[r].version + 1 \in Nat
    BY DeliveryAssumption DEF ReminderRow
  <2>2. [rem[r] EXCEPT !.due = due, !.version = @ + 1] \in ReminderRow
    BY <2>1 DEF ReminderRow
  <2>3. rem' = [rem EXCEPT ![r] = [rem[r] EXCEPT !.due = due, !.version = @ + 1]]
    BY <1>4 DEF PatchReminder
  <2>4. CancelledJob(job[r]) \in JobRow
    BY UnleasedType, JobUpdateType DEF CancelledJob, JobStatuses
  <2>. QED  BY <1>4, <2>2, <2>3, <2>4 DEF PatchReminder, CountEdit, history
<1>5. ASSUME NEW r \in Reminders, NEW status \in ClosedStatus, CloseReminder(r, status)
      PROVE  TypeInv'
  <2>1. status \in ReminderStatuses /\ rem[r].version + 1 \in Nat
    BY DEF ReminderRow, ReminderStatuses
  <2>2. [rem[r] EXCEPT !.status = status, !.version = @ + 1] \in ReminderRow
    BY <2>1 DEF ReminderRow
  <2>3. rem' = [rem EXCEPT ![r] = [rem[r] EXCEPT !.status = status, !.version = @ + 1]]
    BY <1>5 DEF CloseReminder
  <2>4. CancelledJob(job[r]) \in JobRow
    BY UnleasedType, JobUpdateType DEF CancelledJob, JobStatuses
  <2>. QED  BY <1>5, <2>2, <2>3, <2>4 DEF CloseReminder, CountEdit, history
<1>6. ASSUME NEW r \in Reminders, ManualRetry(r)
      PROVE  TypeInv'
  <2>1. /\ "due" \in ReminderStatuses /\ "queued" \in DeliveryStates
        /\ None \in OptTime /\ rem[r].version + 1 \in Nat
    BY DEF ReminderRow, ReminderStatuses, DeliveryStates, OpenStatus, OptTime
  <2>2. RequeuedReminder(rem[r]) \in ReminderRow
    BY <2>1 DEF ReminderRow, RequeuedReminder
  <2>3. QueuedJob(clock) \in JobRow
    BY QueuedType
  <2>. QED  BY <1>6, <2>2, <2>3 DEF ManualRetry, CountEdit, history
<1>7. ASSUME NEW r \in Reminders, MarkFired(r)
      PROVE  TypeInv'
  <2>1. "delivered" \in DeliveryStates /\ rem[r].version + 1 \in Nat
    BY DEF ReminderRow, DeliveryStates, Settled
  <2>2. [rem[r] EXCEPT !.dstate = "delivered", !.version = @ + 1] \in ReminderRow
    BY <2>1 DEF ReminderRow
  <2>3. rem' = [rem EXCEPT ![r] = [rem[r] EXCEPT !.dstate = "delivered", !.version = @ + 1]]
    BY <1>7 DEF MarkFired
  <2>. QED  BY <1>7, <2>2, <2>3 DEF MarkFired, CountEdit, history
<1>. QED
  BY <1>1, <1>2, <1>3, <1>4, <1>5, <1>6, <1>7 DEF Request

LEMMA StartRunKeepsTypes ==
  ASSUME TypeInv, NEW w \in Workers, StartRun(w)
  PROVE  TypeInv'
<1>. DEFINE open(r) == rem[r].status \in OpenStatus
            seen(r) == ReconciledReminder(rem[r], clock)
<1>1. clock \in Nat /\ \A r \in Reminders : rem[r] \in ReminderRow /\ job[r] \in JobRow
  BY DEF TypeInv, TypeOK
<1>2. \A r \in Reminders : seen(r) \in ReminderRow
  BY <1>1, ReconciledReminderType
<1>3. \A r \in Reminders : ReconciledJob(seen(r), job[r], clock) \in JobRow
  BY <1>1, <1>2, ReconciledJobType
<1>4. rem' \in [Reminders -> ReminderRow] /\ job' \in [Reminders -> JobRow]
  BY <1>1, <1>2, <1>3 DEF StartRun
<1>5. lostLeases' \in [Reminders -> Nat]
  BY DEF StartRun, TypeInv, TypeOK
<1>6. NotHolding("claim", clock, Batch) \in WorkerState /\ WorkerShape(NotHolding("claim", clock, Batch))
  BY <1>1, DeliveryAssumption, NotHoldingType DEF OptTime
<1>7. wk' \in [Workers -> WorkerState] /\ \A v \in Workers : WorkerShape(wk'[v])
  BY <1>6, WorkerUpdate DEF StartRun
<1>. QED
  BY <1>4, <1>5, <1>7 DEF StartRun, TypeInv, TypeOK

LEMMA ClaimJobKeepsTypes ==
  ASSUME TypeInv, NEW w \in Workers, NEW r \in Reminders, ClaimJob(w, r)
  PROVE  TypeInv'
<1>. DEFINE now == wk[w].now
<1>1. PICK t \in Tokens :
        /\ job' = [job EXCEPT ![r] = [@ EXCEPT !.status = "leased", !.owner = w,
                                       !.token = t, !.expires = now + Lease]]
        /\ wk' = [wk EXCEPT ![w] =
                   [NotHolding("load", now, wk[w].left - 1) EXCEPT
                      !.r = r, !.token = t, !.window = job[r].window,
                      !.cycle = job[r].cycle, !.policy = job[r].policy,
                      !.terminal = job[r].terminal]]
  BY DEF ClaimJob
<1>2. /\ now \in Nat /\ wk[w].left - 1 \in Nat /\ now + Lease \in OptTime
      /\ job[r] \in JobRow
  <2>1. wk[w].pc = "claim" /\ wk[w].left > 0
    BY DEF ClaimJob
  <2>2. now \in Nat /\ wk[w].left \in Nat /\ job[r] \in JobRow
    BY <2>1 DEF TypeInv, TypeOK, WorkerShape, WorkerState
  <2>. QED  BY <2>1, <2>2, DeliveryAssumption DEF OptTime
<1>3. [job[r] EXCEPT !.status = "leased", !.owner = w, !.token = t, !.expires = now + Lease] \in JobRow
  BY <1>2 DEF JobRow, JobStatuses
<1>. DEFINE s == [NotHolding("load", now, wk[w].left - 1) EXCEPT
                    !.r = r, !.token = t, !.window = job[r].window,
                    !.cycle = job[r].cycle, !.policy = job[r].policy,
                    !.terminal = job[r].terminal]
<1>4. s \in WorkerState /\ WorkerShape(s)
  BY <1>2 DEF NotHolding, WorkerState, WorkerShape, JobRow, OptTime, Steps, Kinds, Verdicts, Channels
<1>5. wk' \in [Workers -> WorkerState] /\ \A v \in Workers : WorkerShape(wk'[v])
  BY <1>1, <1>4, WorkerUpdate
<1>6. lostLeases' \in [Reminders -> Nat]
  BY DEF ClaimJob, TypeInv, TypeOK
<1>. QED
  BY <1>1, <1>3, <1>5, <1>6 DEF ClaimJob, TypeInv, TypeOK

LEMMA LoadReminderKeepsTypes ==
  ASSUME TypeInv, NEW w \in Workers, LoadReminder(w)
  PROVE  TypeInv'
<1>. DEFINE s == wk[w]
            x == rem[s.r]
            next == IF s.policy = NoPolicy THEN "settings" ELSE "plan"
            going == [s EXCEPT !.version = x.version, !.pc = next]
            stopping == [s EXCEPT !.pc = "suppress", !.verdict = SuppressAs(x)]
<1>1. /\ s \in WorkerState /\ s.now \in Nat /\ s.r \in Reminders /\ x \in ReminderRow
      /\ s.pc = "load"
  BY DEF LoadReminder, TypeInv, TypeOK, WorkerShape
<1>2. going \in WorkerState /\ WorkerShape(going)
  <2>1. x.version \in Nat /\ next \in Steps
    BY <1>1 DEF ReminderRow, Steps
  <2>. QED  BY <1>1, <2>1 DEF WorkerState, WorkerShape
<1>3. stopping \in WorkerState /\ WorkerShape(stopping)
  <2>1. SuppressAs(x) \in Verdicts /\ "suppress" \in Steps
    BY DEF SuppressAs, Verdicts, Settled, Steps
  <2>. QED  BY <1>1, <2>1 DEF WorkerState, WorkerShape
<1>4. wk' = [wk EXCEPT ![w] = IF DueAndActive(x, s.now) THEN going ELSE stopping]
  BY DEF LoadReminder
<1>5. wk' \in [Workers -> WorkerState] /\ \A v \in Workers : WorkerShape(wk'[v])
  BY <1>2, <1>3, <1>4, WorkerUpdate
<1>. QED
  BY <1>5 DEF LoadReminder, TypeInv, TypeOK, history

LEMMA SnapshotPolicyKeepsTypes ==
  ASSUME TypeInv, NEW w \in Workers, SnapshotPolicy(w)
  PROVE  TypeInv'
<1>. DEFINE s == wk[w]
            j == job[s.r]
<1>1. s \in WorkerState /\ s.now \in Nat /\ s.r \in Reminders /\ j \in JobRow /\ s.pc = "settings"
  BY DEF SnapshotPolicy, TypeInv, TypeOK, WorkerShape
<1>2. CASE HoldsLease(w)
  <2>. DEFINE kept(p) == IF j.policy = NoPolicy THEN p ELSE j.policy
              holding(p) == [s EXCEPT !.pc = "plan", !.policy = kept(p), !.window = j.window,
                                      !.cycle = j.cycle, !.terminal = j.terminal]
  <2>1. PICK p \in Settings :
          /\ job' = [job EXCEPT ![s.r].policy = kept(p)]
          /\ wk' = [wk EXCEPT ![w] = holding(p)]
    BY <1>2 DEF SnapshotPolicy
  <2>2. kept(p) \in Policy
    BY <1>1, DeliveryAssumption DEF JobRow
  <2>3. [j EXCEPT !.policy = kept(p)] \in JobRow
    BY <1>1, <2>2 DEF JobRow
  <2>4. holding(p) \in WorkerState /\ WorkerShape(holding(p))
    BY <1>1, <2>2 DEF JobRow, WorkerState, WorkerShape, Steps
  <2>5. wk' \in [Workers -> WorkerState] /\ \A v \in Workers : WorkerShape(wk'[v])
    BY <2>1, <2>4, WorkerUpdate
  <2>6. job' \in [Reminders -> JobRow]
    BY <1>1, <2>1, <2>3 DEF TypeInv, TypeOK
  <2>. QED  BY <2>5, <2>6 DEF SnapshotPolicy, TypeInv, TypeOK, history
<1>3. CASE ~ HoldsLease(w)
  BY <1>3, RunEnds DEF SnapshotPolicy, TypeInv, TypeOK, history
<1>. QED  BY <1>2, <1>3

LEMMA PlanChannelsKeepsTypes ==
  ASSUME TypeInv, NEW w \in Workers, PlanChannels(w)
  PROVE  TypeInv'
<1>. DEFINE s == wk[w]
            pending == {c \in RequiredChannels(s.policy) \cup OptionalChannels(s.policy) :
                          ~ Succeeded(s.r, c) /\ c \notin s.terminal}
            failing == [s EXCEPT !.pc = "commit", !.verdict = "failed"]
            looping == [s EXCEPT !.pc = "loop", !.todo = pending]
<1>1. /\ s \in WorkerState /\ s.now \in Nat /\ s.r \in Reminders /\ s.policy \in Policy
      /\ s.pc = "plan"
  BY DEF PlanChannels, TypeInv, TypeOK, WorkerShape
<1>2. pending \in SUBSET Channels
  BY <1>1 DEF RequiredChannels, OptionalChannels, Policy, Channels
<1>3. failing \in WorkerState /\ WorkerShape(failing)
  BY <1>1 DEF WorkerState, WorkerShape, Steps, Verdicts
<1>4. looping \in WorkerState /\ WorkerShape(looping)
  BY <1>1, <1>2 DEF WorkerState, WorkerShape, Steps
<1>5. wk' = [wk EXCEPT ![w] = failing] \/ wk' = [wk EXCEPT ![w] = looping]
  BY DEF PlanChannels
<1>6. wk' \in [Workers -> WorkerState] /\ \A v \in Workers : WorkerShape(wk'[v])
  BY <1>3, <1>4, <1>5, WorkerUpdate
<1>. QED
  BY <1>6 DEF PlanChannels, TypeInv, TypeOK, history

\* The numbers start_delivery_attempt gives are counts of finite sets of rows.
LEMMA CountsAreNat ==
  ASSUME TypeInv, NEW r, NEW c, NEW k
  PROVE  /\ AttemptCount(r, c, k) \in Nat
         /\ Cardinality({a \in attempts : a.rem = r /\ a.ch = c}) \in Nat
         /\ Cardinality({a.cycle : a \in {b \in attempts : b.rem = r}}) \in Nat
<1>1. IsFiniteSet(attempts)
  BY DEF TypeInv, TypeOK
<1>2. /\ IsFiniteSet({a \in attempts : a.rem = r /\ a.ch = c})
      /\ IsFiniteSet({a \in attempts : a.rem = r /\ a.ch = c /\ a.cycle = k})
      /\ IsFiniteSet({b \in attempts : b.rem = r})
  BY <1>1, FS_Subset
<1>3. IsFiniteSet({a.cycle : a \in {b \in attempts : b.rem = r}})
  <2>. DEFINE rows == {b \in attempts : b.rem = r}
              cycles == {a.cycle : a \in rows}
              f == [b \in rows |-> b.cycle]
  <2>1. f \in Surjection(rows, cycles)
    BY DEF Surjection
  <2>. QED  BY <1>2, <2>1, FS_Surjection
<1>. QED
  BY <1>2, <1>3, FS_CardinalityType DEF AttemptCount

LEMMA BeginAttemptKeepsTypes ==
  ASSUME TypeInv, NEW w \in Workers, NEW c \in Channels, BeginAttempt(w, c)
  PROVE  TypeInv'
<1>. DEFINE s == wk[w]
            rows == {a \in attempts : a.rem = s.r}
            cycle == IF job[s.r].cycle # 0 THEN job[s.r].cycle
                     ELSE Cardinality({a.cycle : a \in rows}) + 1
            num == Cardinality({a \in rows : a.ch = c}) + 1
            row == [rem |-> s.r, ch |-> c, num |-> num, cycle |-> cycle,
                    status |-> "started", at |-> s.now]
            trying == [s EXCEPT !.pc = "recheck", !.todo = s.todo \ {c}, !.ch = c, !.num = num,
                                !.ordinal[c] = AttemptCount(s.r, c, cycle) + 1]
<1>1. /\ s \in WorkerState /\ s.now \in Nat /\ s.r \in Reminders /\ s.policy \in Policy
      /\ job[s.r] \in JobRow
  BY DEF BeginAttempt, TypeInv, TypeOK, WorkerShape
<1>2. cycle \in Nat /\ num \in Nat /\ AttemptCount(s.r, c, cycle) + 1 \in Nat
  <2>1. {a \in rows : a.ch = c} = {a \in attempts : a.rem = s.r /\ a.ch = c}
    OBVIOUS
  <2>2. Cardinality({a.cycle : a \in rows}) \in Nat
    BY CountsAreNat
  <2>3. Cardinality({a \in rows : a.ch = c}) \in Nat
    BY <2>1, CountsAreNat
  <2>4. AttemptCount(s.r, c, cycle) \in Nat
    BY CountsAreNat
  <2>5. job[s.r].cycle \in Nat
    BY <1>1 DEF JobRow
  <2>. HIDE DEF rows
  <2>6. cycle \in Nat
    BY <2>2, <2>5
  <2>. HIDE DEF cycle
  <2>. QED  BY <2>3, <2>4, <2>6
<1>. HIDE DEF cycle, num
<1>3. row \in AttemptRow
  BY <1>1, <1>2 DEF AttemptRow
<1>4. trying \in WorkerState /\ WorkerShape(trying)
  <2>1. [s.ordinal EXCEPT ![c] = AttemptCount(s.r, c, cycle) + 1] \in [Channels -> Nat]
    BY <1>1, <1>2 DEF WorkerState
  <2>2. s.todo \ {c} \in SUBSET Channels
    BY <1>1 DEF WorkerState
  <2>. QED  BY <1>1, <1>2, <2>1, <2>2 DEF WorkerState, WorkerShape, Steps
<1>5. wk' = [wk EXCEPT ![w] = trying] /\ attempts' = attempts \cup {row}
  <2>1. attempts' = attempts \cup {row}
    BY DEF BeginAttempt, cycle, num
  <2>2. wk' = [wk EXCEPT ![w] = trying]
    BY DEF BeginAttempt, cycle, num
  <2>. QED  BY <2>1, <2>2
<1>6. wk' \in [Workers -> WorkerState] /\ \A v \in Workers : WorkerShape(wk'[v])
  BY <1>4, <1>5, WorkerUpdate
<1>7. attempts' \subseteq AttemptRow /\ IsFiniteSet(attempts')
  BY <1>3, <1>5, FS_AddElement DEF TypeInv, TypeOK
<1>8. job' \in [Reminders -> JobRow]
  <2>1. [job[s.r] EXCEPT !.cycle = cycle, !.window = s.now] \in JobRow
    BY <1>1, <1>2 DEF JobRow, OptTime
  <2>2. \/ job' = job
        \/ job' = [job EXCEPT ![s.r] = [job[s.r] EXCEPT !.cycle = cycle, !.window = s.now]]
    BY <1>1 DEF BeginAttempt, TypeInv, TypeOK, cycle
  <2>. QED  BY <1>1, <2>1, <2>2 DEF TypeInv, TypeOK
<1>. QED
  BY <1>6, <1>7, <1>8 DEF BeginAttempt, TypeInv, TypeOK, history

LEMMA StopInLoopKeepsTypes ==
  ASSUME TypeInv, NEW w \in Workers, StopInLoop(w)
  PROVE  TypeInv'
<1>. DEFINE s == wk[w]
            stopping == [s EXCEPT !.pc = "suppress", !.verdict = SuppressAs(rem[s.r])]
<1>1. s \in WorkerState /\ s.now \in Nat /\ s.r \in Reminders
  BY DEF StopInLoop, TypeInv, TypeOK, WorkerShape
<1>2. stopping \in WorkerState /\ WorkerShape(stopping)
  <2>1. SuppressAs(rem[s.r]) \in Verdicts /\ "suppress" \in Steps
    BY DEF SuppressAs, Verdicts, Settled, Steps
  <2>. QED  BY <1>1, <2>1 DEF WorkerState, WorkerShape
<1>3. wk' = [wk EXCEPT ![w] = stopping]
  BY <1>1 DEF StopInLoop, TypeInv, TypeOK
<1>4. wk' \in [Workers -> WorkerState] /\ \A v \in Workers : WorkerShape(wk'[v])
  BY <1>2, <1>3, WorkerUpdate
<1>. QED
  BY <1>4 DEF StopInLoop, TypeInv, TypeOK, history

LEMMA FinishedKeepsTypes ==
  ASSUME TypeInv, NEW w \in Workers, NEW status \in {"succeeded", "failed"}
  PROVE  Finished(w, status) \subseteq AttemptRow /\ IsFiniteSet(Finished(w, status))
<1>. DEFINE s == wk[w]
            row(a) == IF a.rem = s.r /\ a.ch = s.ch /\ a.num = s.num /\ a.status = "started"
                      THEN [a EXCEPT !.status = status] ELSE a
            f == [a \in attempts |-> row(a)]
<1>1. \A a \in attempts : row(a) \in AttemptRow
  BY DEF TypeInv, TypeOK, AttemptRow
<1>2. Finished(w, status) = {row(a) : a \in attempts}
  BY DEF Finished
<1>3. f \in Surjection(attempts, {row(a) : a \in attempts})
  BY DEF Surjection
<1>. QED
  BY <1>1, <1>2, <1>3, FS_Surjection DEF TypeInv, TypeOK

LEMMA RecheckKeepsTypes ==
  ASSUME TypeInv, NEW w \in Workers, Recheck(w)
  PROVE  TypeInv'
<1>. DEFINE s == wk[w]
            x == rem[s.r]
            giving == [s EXCEPT !.pc = "suppressAttempt", !.outcome[s.ch] = "suppressed",
                                !.verdict = SuppressAs(x)]
            forced == [s EXCEPT !.pc = "finish", !.outcome[s.ch] = "permanent"]
            calling == [s EXCEPT !.pc = "sending"]
<1>1. s \in WorkerState /\ s.now \in Nat /\ s.r \in Reminders /\ s.policy \in Policy
  BY DEF Recheck, TypeInv, TypeOK, WorkerShape
<1>2. \A k \in Kinds : [s.outcome EXCEPT ![s.ch] = k] \in [Channels -> Kinds]
  BY <1>1 DEF WorkerState
<1>3. /\ SuppressAs(x) \in Verdicts /\ "suppressed" \in Kinds /\ "permanent" \in Kinds
      /\ {"suppressAttempt", "finish", "sending"} \subseteq Steps
  BY DEF SuppressAs, Verdicts, Settled, Kinds, Steps
<1>4. giving \in WorkerState /\ WorkerShape(giving)
  BY <1>1, <1>2, <1>3 DEF WorkerState, WorkerShape
<1>5. forced \in WorkerState /\ WorkerShape(forced)
  BY <1>1, <1>2, <1>3 DEF WorkerState, WorkerShape
<1>6. calling \in WorkerState /\ WorkerShape(calling)
  BY <1>1, <1>3 DEF WorkerState, WorkerShape
<1>7. \/ wk' = [wk EXCEPT ![w] = giving] \/ wk' = [wk EXCEPT ![w] = forced]
      \/ wk' = [wk EXCEPT ![w] = calling]
  BY DEF Recheck
<1>8. wk' \in [Workers -> WorkerState] /\ \A v \in Workers : WorkerShape(wk'[v])
  BY <1>4, <1>5, <1>6, <1>7, WorkerUpdate
<1>9. attempts' \subseteq AttemptRow /\ IsFiniteSet(attempts')
  BY FinishedKeepsTypes DEF Recheck, TypeInv, TypeOK
<1>. QED
  BY <1>8, <1>9 DEF Recheck, TypeInv, TypeOK, history

LEMMA AnswerKeepsTypes ==
  ASSUME TypeInv, NEW w \in Workers, NEW kind \in {"success", "retryable", "permanent"},
         ProviderAnswers(w, kind)
  PROVE  TypeInv'
<1>. DEFINE s == wk[w]
            answered == [s EXCEPT !.pc = "finish", !.outcome[s.ch] = kind]
<1>1. s \in WorkerState /\ s.now \in Nat /\ s.r \in Reminders /\ s.policy \in Policy
  BY DEF ProviderAnswers, TypeInv, TypeOK, WorkerShape
<1>2. [s.outcome EXCEPT ![s.ch] = kind] \in [Channels -> Kinds]
  BY <1>1 DEF WorkerState, Kinds
<1>3. answered \in WorkerState /\ WorkerShape(answered)
  BY <1>1, <1>2 DEF WorkerState, WorkerShape, Steps
<1>4. wk' = [wk EXCEPT ![w] = answered]
  BY DEF ProviderAnswers
<1>5. wk' \in [Workers -> WorkerState] /\ \A v \in Workers : WorkerShape(wk'[v])
  BY <1>3, <1>4, WorkerUpdate
<1>6. accepted' \in [Reminders -> [Channels -> Nat]]
  <2>1. accepted[s.r] \in [Channels -> Nat] /\ s.ch \in Channels
    BY <1>1 DEF TypeInv, TypeOK, WorkerState
  <2>2. accepted[s.r][s.ch] + 1 \in Nat
    BY <2>1
  <2>3. [accepted[s.r] EXCEPT ![s.ch] = accepted[s.r][s.ch] + 1] \in [Channels -> Nat]
    BY <2>1, <2>2
  <2>4. \/ accepted' = accepted
        \/ accepted' = [accepted EXCEPT ![s.r] =
                          [accepted[s.r] EXCEPT ![s.ch] = accepted[s.r][s.ch] + 1]]
    BY <1>1 DEF ProviderAnswers, TypeInv, TypeOK
  <2>. QED  BY <1>1, <2>3, <2>4 DEF TypeInv, TypeOK
<1>. QED
  BY <1>5, <1>6 DEF ProviderAnswers, TypeInv, TypeOK

LEMMA LostAnswerKeepsTypes == ASSUME TypeInv, NEW w \in Workers, AnswerLost(w) PROVE TypeInv'
<1>. DEFINE s == wk[w]
<1>1. s.r \in Reminders /\ s.ch \in Channels
  BY DEF AnswerLost, TypeInv, TypeOK, WorkerShape, WorkerState
<1>2. ASSUME NEW f \in [Reminders -> [Channels -> Nat]]
      PROVE  [f EXCEPT ![s.r][s.ch] = @ + 1] \in [Reminders -> [Channels -> Nat]]
  <2>1. [f[s.r] EXCEPT ![s.ch] = f[s.r][s.ch] + 1] \in [Channels -> Nat]
    BY <1>1
  <2>. QED  BY <1>1, <2>1
<1>3. /\ accepted' \in [Reminders -> [Channels -> Nat]]
      /\ unheard' \in [Reminders -> [Channels -> Nat]]
  BY <1>2 DEF AnswerLost, TypeInv, TypeOK
<1>. QED  BY <1>3 DEF AnswerLost, TypeInv, TypeOK

LEMMA FinishAttemptKeepsTypes ==
  ASSUME TypeInv, NEW w \in Workers, FinishAttempt(w)
  PROVE  TypeInv'
<1>. DEFINE s == wk[w]
            going(pc) == [s EXCEPT !.pc = pc]
<1>1. s \in WorkerState /\ s.now \in Nat /\ s.r \in Reminders /\ s.policy \in Policy
  BY DEF FinishAttempt, TypeInv, TypeOK, WorkerShape
<1>2. \A pc \in {"record", "loop"} : going(pc) \in WorkerState /\ WorkerShape(going(pc))
  BY <1>1 DEF WorkerState, WorkerShape, Steps
<1>3. \E pc \in {"record", "loop"} : wk' = [wk EXCEPT ![w] = going(pc)]
  BY DEF FinishAttempt, Goto, TypeInv, TypeOK
<1>4. wk' \in [Workers -> WorkerState] /\ \A v \in Workers : WorkerShape(wk'[v])
  BY <1>2, <1>3, WorkerUpdate
<1>5. attempts' \subseteq AttemptRow /\ IsFiniteSet(attempts')
  BY FinishedKeepsTypes DEF FinishAttempt
<1>. QED
  BY <1>4, <1>5 DEF FinishAttempt, TypeInv, TypeOK, history

LEMMA RecordTerminalKeepsTypes ==
  ASSUME TypeInv, NEW w \in Workers, RecordTerminal(w)
  PROVE  TypeInv'
<1>. DEFINE s == wk[w]
            j == job[s.r]
            terminal == j.terminal \cup {s.ch}
            recorded == [s EXCEPT !.pc = "loop", !.terminal = s.terminal \cup {s.ch},
                                  !.window = j.window, !.cycle = j.cycle]
<1>1. /\ s \in WorkerState /\ s.now \in Nat /\ s.r \in Reminders /\ s.policy \in Policy
      /\ j \in JobRow
  BY DEF RecordTerminal, TypeInv, TypeOK, WorkerShape
<1>2. CASE HoldsLease(w)
  <2>1. /\ s.terminal \cup {s.ch} \in SUBSET Channels /\ terminal \in SUBSET Channels
        /\ j.window \in OptTime /\ j.cycle \in Nat
    BY <1>1 DEF WorkerState, JobRow
  <2>2. recorded \in WorkerState /\ WorkerShape(recorded)
    BY <1>1, <2>1 DEF WorkerState, WorkerShape, Steps
  <2>3. wk' = [wk EXCEPT ![w] = recorded] /\ job' = [job EXCEPT ![s.r].terminal = terminal]
    BY <1>2 DEF RecordTerminal
  <2>4. wk' \in [Workers -> WorkerState] /\ \A v \in Workers : WorkerShape(wk'[v])
    BY <2>2, <2>3, WorkerUpdate
  <2>5. [j EXCEPT !.terminal = terminal] \in JobRow
    BY <1>1, <2>1 DEF JobRow
  <2>6. job' \in [Reminders -> JobRow]
    BY <1>1, <2>3, <2>5 DEF TypeInv, TypeOK
  <2>. QED  BY <2>4, <2>6 DEF RecordTerminal, TypeInv, TypeOK, history
<1>3. CASE ~ HoldsLease(w)
  BY <1>3, RunEnds DEF RecordTerminal, TypeInv, TypeOK, history
<1>. QED  BY <1>2, <1>3

\* A retry that is scheduled has a time.
LEMMA RetryTimesType ==
  ASSUME NEW s \in WorkerState, s.now \in Nat, NEW c \in Channels, NEW at \in RetryTimes(s, c)
  PROVE  at \in Nat \/ at = None
<1>. DEFINE start == IF s.window = None THEN s.now ELSE s.window
<1>1. CASE s.ordinal[c] \notin 1..(MaxAttempts - 1)
  BY <1>1 DEF RetryTimes
<1>2. CASE s.ordinal[c] \in 1..(MaxAttempts - 1)
  <2>1. RetryDelay[s.ordinal[c]] \in SUBSET (Nat \ {0})
    BY <1>2, DeliveryAssumption
  <2>2. PICK d \in RetryDelay[s.ordinal[c]] :
          at = IF s.now + d >= start + Window THEN None ELSE s.now + d
    BY <1>2 DEF RetryTimes
  <2>. QED  BY <2>1, <2>2
<1>. QED  BY <1>1, <1>2

LEMMA EvaluateKeepsTypes ==
  ASSUME TypeInv, NEW w \in Workers, Evaluate(w)
  PROVE  TypeInv'
<1>. DEFINE s == wk[w]
            decided(verdict, at) == [s EXCEPT !.pc = "commit", !.version = rem[s.r].version,
                                              !.verdict = verdict, !.retryAt = at]
            missing == {c \in RequiredChannels(s.policy) : ~ Succeeded(s.r, c)}
            retryable == {c \in missing : c \notin s.terminal /\ s.outcome[c] = "retryable"}
            first == CHOOSE c \in retryable : \A d \in retryable : Rank[c] <= Rank[d]
<1>1. /\ s \in WorkerState /\ s.now \in Nat /\ s.r \in Reminders /\ s.policy \in Policy
      /\ rem[s.r].version \in Nat
  BY DEF Evaluate, TypeInv, TypeOK, WorkerShape, ReminderRow
<1>2. ASSUME NEW verdict \in {"delivered", "retrying", "failed"}, NEW at \in OptTime,
             verdict = "retrying" => at \in Nat,
             wk' = [wk EXCEPT ![w] = decided(verdict, at)]
      PROVE  wk' \in [Workers -> WorkerState] /\ \A v \in Workers : WorkerShape(wk'[v])
  <2>1. decided(verdict, at) \in WorkerState /\ WorkerShape(decided(verdict, at))
    BY <1>1, <1>2 DEF WorkerState, WorkerShape, Steps, Verdicts
  <2>. QED  BY <1>2, <2>1, WorkerUpdate
<1>3. retryable # {} => first \in Channels
  <2>1. retryable \subseteq Channels
    BY <1>1 DEF RequiredChannels, Policy, Channels
  <2>2. \A c \in Channels : Rank[c] \in 1..5
    BY DEF Rank, Channels
  <2>3. ASSUME retryable # {}
        PROVE  \E c \in retryable : \A d \in retryable : Rank[c] <= Rank[d]
    <3>. DEFINE c1 == IF "alice" \in retryable THEN "alice"
                      ELSE IF "jarvis" \in retryable THEN "jarvis"
                      ELSE IF "telegram" \in retryable THEN "telegram"
                      ELSE IF "iphone" \in retryable THEN "iphone" ELSE "home_assistant"
    <3>. HIDE DEF retryable
    <3>1. c1 \in retryable
      BY <2>1, <2>3 DEF Channels
    <3>2. \A d \in retryable : Rank[c1] <= Rank[d]
      BY <2>1, <2>3 DEF Channels, Rank
    <3>. QED  BY <3>1, <3>2
  <2>. QED  BY <2>1, <2>3
<1>4. \/ wk' = [wk EXCEPT ![w] = decided("delivered", None)]
      \/ wk' = [wk EXCEPT ![w] = decided("failed", None)]
      \/ /\ retryable # {}
         /\ \E at \in RetryTimes(s, first) :
              wk' = [wk EXCEPT ![w] = decided(IF at = None THEN "failed" ELSE "retrying", at)]
  BY DEF Evaluate
<1>5. wk' \in [Workers -> WorkerState] /\ \A v \in Workers : WorkerShape(wk'[v])
  <2>1. None \in OptTime
    BY DEF OptTime
  <2>2. CASE \/ wk' = [wk EXCEPT ![w] = decided("delivered", None)]
             \/ wk' = [wk EXCEPT ![w] = decided("failed", None)]
    BY <1>2, <2>1, <2>2
  <2>3. CASE /\ retryable # {}
             /\ \E at \in RetryTimes(s, first) :
                  wk' = [wk EXCEPT ![w] = decided(IF at = None THEN "failed" ELSE "retrying", at)]
    <3>1. PICK at \in RetryTimes(s, first) :
            wk' = [wk EXCEPT ![w] = decided(IF at = None THEN "failed" ELSE "retrying", at)]
      BY <2>3
    <3>2. at \in Nat \/ at = None
      BY <1>1, <1>3, <2>3, RetryTimesType
    <3>. QED  BY <1>2, <3>1, <3>2 DEF OptTime
  <2>. QED  BY <1>4, <2>2, <2>3
<1>. QED
  BY <1>5 DEF Evaluate, TypeInv, TypeOK, history

LEMMA CommitKeepsTypes ==
  ASSUME TypeInv, NEW w \in Workers, Commit(w)
  PROVE  TypeInv'
<1>. DEFINE s == wk[w]
            x == rem[s.r]
            j == job[s.r]
<1>1. /\ s \in WorkerState /\ s.now \in Nat /\ s.r \in Reminders
      /\ x \in ReminderRow /\ j \in JobRow
      /\ s.verdict \in {"delivered", "retrying", "failed"}
      /\ s.verdict = "retrying" => s.retryAt \in Nat
  BY DEF Commit, TypeInv, TypeOK, WorkerShape
<1>2. CommittedReminder(x, s.verdict, s.retryAt) \in ReminderRow
  <2>1. /\ "due" \in ReminderStatuses /\ s.verdict \in DeliveryStates
        /\ s.retryAt \in OptTime /\ x.version + 1 \in Nat
    BY <1>1 DEF ReminderStatuses, OpenStatus, DeliveryStates, Settled, WorkerState, ReminderRow
  <2>. QED  BY <1>1, <2>1 DEF CommittedReminder, ReminderRow
<1>3. CommittedJob(j, s.verdict, s.retryAt) \in JobRow
  BY <1>1, UnleasedType, JobUpdateType DEF CommittedJob, JobStatusOf, JobStatuses
<1>4. [Unleased(j) EXCEPT !.status = "cancelled"] \in JobRow
  BY <1>1, UnleasedType, JobUpdateType DEF JobStatuses
<1>5. wk' \in [Workers -> WorkerState] /\ \A v \in Workers : WorkerShape(wk'[v])
  BY RunEnds DEF Commit
<1>6. rem' \in [Reminders -> ReminderRow]
  BY <1>2 DEF Commit, TypeInv, TypeOK
<1>7. job' \in [Reminders -> JobRow]
  BY <1>3, <1>4 DEF Commit, TypeInv, TypeOK
<1>. QED
  BY <1>5, <1>6, <1>7 DEF Commit, TypeInv, TypeOK, history

LEMMA SuppressKeepsTypes ==
  ASSUME TypeInv, NEW w \in Workers, Suppress(w)
  PROVE  TypeInv'
<1>. DEFINE s == wk[w]
            j == job[s.r]
            status == IF s.verdict = "cancelled" THEN "cancelled" ELSE JobStatusOf(s.verdict)
            looping == [s EXCEPT !.pc = "loop"]
<1>1. /\ s \in WorkerState /\ s.now \in Nat /\ s.r \in Reminders /\ j \in JobRow
      /\ s.pc = "suppressAttempt" => s.policy \in Policy
  BY DEF Suppress, TypeInv, TypeOK, WorkerShape
<1>2. [Unleased(j) EXCEPT !.status = status] \in JobRow
  BY <1>1, UnleasedType, JobUpdateType DEF JobStatusOf, JobStatuses
<1>3. job' \in [Reminders -> JobRow]
  BY <1>2 DEF Suppress, TypeInv, TypeOK
<1>4. CASE s.pc = "suppress"
  <2>1. wk' \in [Workers -> WorkerState] /\ \A v \in Workers : WorkerShape(wk'[v])
    BY <1>4, RunEnds DEF Suppress
  <2>. QED  BY <1>3, <2>1 DEF Suppress, TypeInv, TypeOK
<1>5. CASE s.pc = "suppressAttempt"
  <2>1. looping \in WorkerState /\ WorkerShape(looping)
    BY <1>1, <1>5 DEF WorkerState, WorkerShape, Steps
  <2>2. wk' = [wk EXCEPT ![w] = looping]
    BY <1>5 DEF Suppress, Goto, TypeInv, TypeOK
  <2>3. wk' \in [Workers -> WorkerState] /\ \A v \in Workers : WorkerShape(wk'[v])
    BY <2>1, <2>2, WorkerUpdate
  <2>. QED  BY <1>3, <2>3 DEF Suppress, TypeInv, TypeOK
<1>. QED  BY <1>4, <1>5 DEF Suppress

LEMMA CrashKeepsTypes ==
  ASSUME TypeInv, NEW w \in Workers, Crash(w)
  PROVE  TypeInv'
<1>1. NotHolding("idle", None, 0) \in WorkerState /\ WorkerShape(NotHolding("idle", None, 0))
  BY NotHoldingType DEF OptTime
<1>2. wk' \in [Workers -> WorkerState] /\ \A v \in Workers : WorkerShape(wk'[v])
  BY <1>1, WorkerUpdate DEF Crash
<1>. QED
  BY <1>2 DEF Crash, TypeInv, TypeOK, history

LEMMA TypeStep ==
  TypeInv /\ [Next]_vars => TypeInv'
<1>. SUFFICES ASSUME TypeInv, [Next]_vars PROVE TypeInv'
  OBVIOUS
<1>1. CASE Tick \/ Request
  BY <1>1, RequestsKeepTypes
<1>2. ASSUME NEW w \in Workers, WorkerStep(w)
      PROVE  TypeInv'
  <2>1. CASE StartRun(w) \/ LoadReminder(w) \/ SnapshotPolicy(w) \/ PlanChannels(w)
    BY <2>1, StartRunKeepsTypes, LoadReminderKeepsTypes, SnapshotPolicyKeepsTypes,
       PlanChannelsKeepsTypes
  <2>2. CASE \E r \in Reminders : ClaimJob(w, r)
    BY <2>2, ClaimJobKeepsTypes
  <2>3. CASE EndRun(w) \/ SettingsFailure(w)
    <3>1. wk' \in [Workers -> WorkerState] /\ \A v \in Workers : WorkerShape(wk'[v])
      BY <2>3, RunEnds DEF EndRun, SettingsFailure
    <3>. QED  BY <2>3, <3>1 DEF EndRun, SettingsFailure, TypeInv, TypeOK, history
  <2>4. CASE \E c \in Channels : BeginAttempt(w, c)
    BY <2>4, BeginAttemptKeepsTypes
  <2>5. CASE StopInLoop(w) \/ Recheck(w) \/ FinishAttempt(w) \/ RecordTerminal(w)
    BY <2>5, StopInLoopKeepsTypes, RecheckKeepsTypes, FinishAttemptKeepsTypes,
       RecordTerminalKeepsTypes
  <2>6. CASE \E kind \in {"success", "retryable", "permanent"} : ProviderAnswers(w, kind)
    BY <2>6, AnswerKeepsTypes
  <2>8. CASE AnswerLost(w)
    BY <2>8, LostAnswerKeepsTypes
  <2>7. CASE Evaluate(w) \/ Commit(w) \/ Suppress(w)
    BY <2>7, EvaluateKeepsTypes, CommitKeepsTypes, SuppressKeepsTypes
  <2>. QED  BY <1>2, <2>1, <2>2, <2>3, <2>4, <2>5, <2>6, <2>7, <2>8 DEF WorkerStep
<1>3. CASE \E w \in Workers : Crash(w)
  BY <1>3, CrashKeepsTypes
<1>4. CASE UNCHANGED vars
  BY <1>4 DEF vars, history, TypeInv, TypeOK
<1>. QED  BY <1>1, <1>2, <1>3, <1>4 DEF Next

LEMMA TypeInit == Init => TypeInv
<1>. SUFFICES ASSUME Init PROVE TypeInv
  OBVIOUS
<1>1. /\ NotHolding("idle", None, 0) \in WorkerState
      /\ WorkerShape(NotHolding("idle", None, 0))
  BY NotHoldingType DEF OptTime
<1>2. NoJob \in JobRow
  BY DEF NoJob, JobRow, JobStatuses, OptTime
<1>3. [status |-> "absent", due |-> 0, dstate |-> "not_due", next |-> None, version |-> 0]
        \in ReminderRow
  BY DEF ReminderRow, ReminderStatuses, DeliveryStates, OptTime
<1>4. IsFiniteSet({})
  BY FS_EmptySet
<1>. QED
  BY <1>1, <1>2, <1>3, <1>4 DEF Init, TypeInv, TypeOK

LEMMA TypeInvHolds == Spec => []TypeInv
  BY TypeInit, TypeStep, PTL DEF Spec

\* Whatever requests, workers and crashes do, every row and every copy a worker
\* made of one is well formed (the columns' CHECK constraints are never needed).
THEOREM TypeCorrect == Spec => []TypeOK
<1>1. TypeInv => TypeOK
  BY DEF TypeInv
<1>. QED  BY <1>1, TypeInvHolds, PTL

-----------------------------------------------------------------------------
(* ClosedIsSuppressed is inductive by itself, on well-typed states: a      *)
(* request that closes a reminder takes its job away, and every other step *)
(* that queues or leases a job has seen the reminder open in the same      *)
(* transaction.                                                            *)

LEMMA StatusAfterCancel ==
  ASSUME NEW j \in JobRow
  PROVE  CancelledJob(j).status \notin {"queued", "leased"}
  BY DEF CancelledJob, Unleased, JobRow

\* A finished or suppressed job is neither queued nor leased.
LEMMA StatusAfterCommit ==
  ASSUME NEW j \in JobRow, NEW s \in JobStatuses
  PROVE  [Unleased(j) EXCEPT !.status = s].status = s
  BY DEF Unleased, JobRow

LEMMA ReconciledKeepsOpen ==
  ASSUME NEW x \in ReminderRow, NEW now \in Nat, x.status \in OpenStatus
  PROVE  ReconciledReminder(x, now).status \in OpenStatus
  BY DEF ReconciledReminder, ReminderRow, OpenStatus

LEMMA StatusAfterWrite ==
  ASSUME NEW j \in JobRow, NEW x, NEW y
  PROVE  /\ [j EXCEPT !.policy = x].status = j.status
         /\ [j EXCEPT !.terminal = x].status = j.status
         /\ [j EXCEPT !.cycle = x, !.window = y].status = j.status
  BY DEF JobRow

\* Writes under the lease that are not the end of a job leave its status.
LEMMA StatusKept ==
  ASSUME TypeInv, NEW w \in Workers,
         SnapshotPolicy(w) \/ RecordTerminal(w) \/ \E c \in Channels : BeginAttempt(w, c)
  PROVE  rem' = rem /\ \A r \in Reminders : job'[r].status = job[r].status
<1>. DEFINE s == wk[w]
            j == job[s.r]
<1>1. s.r \in Reminders /\ j \in JobRow /\ job \in [Reminders -> JobRow]
  BY DEF SnapshotPolicy, RecordTerminal, BeginAttempt, TypeInv, TypeOK, WorkerShape
<1>2. ASSUME NEW row, row.status = j.status, job' = [job EXCEPT ![s.r] = row]
      PROVE  \A r \in Reminders : job'[r].status = job[r].status
  BY <1>1, <1>2
<1>3. CASE SnapshotPolicy(w)
  <2>1. job' = job \/ \E p : job' = [job EXCEPT ![s.r] = [j EXCEPT !.policy = p]]
    BY <1>1, <1>3 DEF SnapshotPolicy
  <2>. QED  BY <1>1, <1>2, <1>3, <2>1, StatusAfterWrite DEF SnapshotPolicy
<1>4. CASE RecordTerminal(w)
  <2>1. job' = job \/ \E t : job' = [job EXCEPT ![s.r] = [j EXCEPT !.terminal = t]]
    BY <1>1, <1>4 DEF RecordTerminal
  <2>. QED  BY <1>1, <1>2, <1>4, <2>1, StatusAfterWrite DEF RecordTerminal
<1>5. CASE \E c \in Channels : BeginAttempt(w, c)
  <2>1. \/ job' = job
        \/ \E k : job' = [job EXCEPT ![s.r] = [j EXCEPT !.cycle = k, !.window = s.now]]
    BY <1>1, <1>5 DEF BeginAttempt
  <2>2. CASE job' = job
    BY <1>5, <2>2 DEF BeginAttempt
  <2>3. CASE \E k : job' = [job EXCEPT ![s.r] = [j EXCEPT !.cycle = k, !.window = s.now]]
    <3>1. PICK k : job' = [job EXCEPT ![s.r] = [j EXCEPT !.cycle = k, !.window = s.now]]
      BY <2>3
    <3>2. [j EXCEPT !.cycle = k, !.window = s.now].status = j.status
      BY <1>1, StatusAfterWrite
    <3>. QED  BY <1>2, <1>5, <3>1, <3>2 DEF BeginAttempt
  <2>. QED  BY <2>1, <2>2, <2>3
<1>. QED  BY <1>3, <1>4, <1>5

LEMMA ClosedRequests ==
  ASSUME TypeInv, ClosedIsSuppressed, Tick \/ Request
  PROVE  ClosedIsSuppressed'
<1>. USE DEF ClosedIsSuppressed, OpenStatus, ClosedStatus
<1>1. CASE Tick
  BY <1>1 DEF Tick
<1>2. ASSUME NEW r \in Reminders, NEW due \in Dues,
             CreateReminder(r, due) \/ ImportReminder(r, due)
      PROVE  ClosedIsSuppressed'
  <2>1. rem' = [rem EXCEPT ![r] = CreatedReminder(due)]
    BY <1>2 DEF CreateReminder, ImportReminder
  <2>2. \A q \in Reminders \ {r} : job'[q] = job[q]
    BY <1>2 DEF CreateReminder, ImportReminder, TypeInv, TypeOK
  <2>3. \A q \in Reminders : rem'[q].status = IF q = r THEN "pending" ELSE rem[q].status
    BY <2>1 DEF CreatedReminder, TypeInv, TypeOK
  <2>. QED  BY <2>2, <2>3
<1>3. ASSUME NEW r \in Reminders, NEW due \in Dues, PatchReminder(r, due)
      PROVE  ClosedIsSuppressed'
  <2>1. \A q \in Reminders : rem'[q].status = rem[q].status
    BY <1>3 DEF PatchReminder, TypeInv, TypeOK, ReminderRow
  <2>2. job[r] \in JobRow /\ job \in [Reminders -> JobRow]
    BY DEF TypeInv, TypeOK
  <2>. QED  BY <1>3, <2>1, <2>2, StatusAfterCancel DEF PatchReminder
<1>4. ASSUME NEW r \in Reminders, NEW status \in ClosedStatus, CloseReminder(r, status)
      PROVE  ClosedIsSuppressed'
  BY <1>4, StatusAfterCancel DEF CloseReminder, TypeInv, TypeOK
<1>5. ASSUME NEW r \in Reminders, ManualRetry(r)
      PROVE  ClosedIsSuppressed'
  <2>1. RequeuedReminder(rem[r]).status = "due"
    BY DEF RequeuedReminder, TypeInv, TypeOK, ReminderRow
  <2>. QED  BY <1>5, <2>1 DEF ManualRetry, TypeInv, TypeOK
<1>6. ASSUME NEW r \in Reminders, MarkFired(r)
      PROVE  ClosedIsSuppressed'
  <2>1. \A q \in Reminders : rem'[q].status = rem[q].status
    BY <1>6 DEF MarkFired, TypeInv, TypeOK, ReminderRow
  <2>. QED  BY <1>6, <2>1 DEF MarkFired
<1>. QED  BY <1>1, <1>2, <1>3, <1>4, <1>5, <1>6 DEF Request

LEMMA ClosedWorkerSteps ==
  ASSUME TypeInv, ClosedIsSuppressed, NEW w \in Workers, WorkerStep(w)
  PROVE  ClosedIsSuppressed'
<1>. USE DEF ClosedIsSuppressed
<1>1. CASE StartRun(w)
  <2>1. \A r \in Reminders : rem[r].status \in OpenStatus => rem'[r].status \in OpenStatus
    BY <1>1, ReconciledKeepsOpen DEF StartRun, TypeInv, TypeOK
  <2>2. \A r \in Reminders :
          rem[r].status \notin OpenStatus => rem'[r] = rem[r] /\ job'[r] = job[r]
    BY <1>1 DEF StartRun
  <2>. QED  BY <2>1, <2>2 DEF OpenStatus, ClosedStatus
<1>2. ASSUME NEW r \in Reminders, ClaimJob(w, r)
      PROVE  ClosedIsSuppressed'
  <2>1. rem' = rem /\ rem[r].status \in OpenStatus
    BY <1>2 DEF ClaimJob, Claimable
  <2>2. \A q \in Reminders : q # r => job'[q] = job[q]
    BY <1>2 DEF ClaimJob, TypeInv, TypeOK
  <2>. QED  BY <2>1, <2>2 DEF OpenStatus, ClosedStatus
<1>3. CASE SnapshotPolicy(w) \/ RecordTerminal(w) \/ \E c \in Channels : BeginAttempt(w, c)
  BY <1>3, StatusKept
<1>4. CASE Commit(w)
  <2>. DEFINE s == wk[w]
  <2>1. s.r \in Reminders /\ job[s.r] \in JobRow /\ rem[s.r] \in ReminderRow
    BY <1>4 DEF Commit, TypeInv, TypeOK, WorkerShape
  <2>2. [Unleased(job[s.r]) EXCEPT !.status = "cancelled"].status = "cancelled"
    BY <2>1, StatusAfterCommit DEF JobStatuses
  <2>3. CommittedReminder(rem[s.r], s.verdict, s.retryAt).status = "due"
    BY <2>1 DEF CommittedReminder, ReminderRow
  <2>. QED  BY <1>4, <2>1, <2>2, <2>3 DEF Commit, TypeInv, TypeOK, ClosedStatus
<1>5. CASE Suppress(w)
  <2>. DEFINE s == wk[w]
              status == IF s.verdict = "cancelled" THEN "cancelled" ELSE JobStatusOf(s.verdict)
  <2>1. s.r \in Reminders /\ job[s.r] \in JobRow
    BY <1>5 DEF Suppress, TypeInv, TypeOK, WorkerShape
  <2>2. status \in JobStatuses /\ status \notin {"queued", "leased"}
    BY DEF JobStatusOf, JobStatuses
  <2>3. [Unleased(job[s.r]) EXCEPT !.status = status].status \notin {"queued", "leased"}
    BY <2>1, <2>2, StatusAfterCommit
  <2>. QED  BY <1>5, <2>1, <2>3 DEF Suppress, TypeInv, TypeOK
<1>6. CASE \/ EndRun(w) \/ LoadReminder(w) \/ SettingsFailure(w) \/ PlanChannels(w)
           \/ StopInLoop(w) \/ Recheck(w) \/ AnswerLost(w) \/ FinishAttempt(w) \/ Evaluate(w)
           \/ \E kind \in {"success", "retryable", "permanent"} : ProviderAnswers(w, kind)
  BY <1>6 DEF EndRun, LoadReminder, SettingsFailure, PlanChannels, StopInLoop, Recheck,
     FinishAttempt, Evaluate, AnswerLost, ProviderAnswers
<1>. QED  BY <1>1, <1>2, <1>3, <1>4, <1>5, <1>6 DEF WorkerStep

\* For any number of schedulers, requests and crashes, no completed or cancelled
\* reminder has a job a worker could claim or commit.
THEOREM ClosedRemindersHaveNoJob == Spec => []ClosedIsSuppressed
<1>1. Init => ClosedIsSuppressed
  BY DEF Init, ClosedIsSuppressed, ClosedStatus
<1>2. TypeInv /\ ClosedIsSuppressed /\ [Next]_vars => ClosedIsSuppressed'
  <2>1. TypeInv /\ ClosedIsSuppressed /\ (\E w \in Workers : Crash(w)) => ClosedIsSuppressed'
    BY DEF Crash, ClosedIsSuppressed
  <2>2. ClosedIsSuppressed /\ UNCHANGED vars => ClosedIsSuppressed'
    BY DEF ClosedIsSuppressed, vars
  <2>. QED  BY <2>1, <2>2, ClosedRequests, ClosedWorkerSteps DEF Next
<1>. QED  BY <1>1, <1>2, TypeInvHolds, PTL DEF Spec

-----------------------------------------------------------------------------
(* Versions.  What a worker read of a reminder it can compare by version   *)
(* alone, because no write of any actor leaves the version as it was.      *)

LEMMA ReconciledIsVersioned ==
  ASSUME NEW x \in ReminderRow, NEW now \in Nat
  PROVE  LET y == ReconciledReminder(x, now)
         IN  y = x \/ (y.version = x.version + 1 /\ y.status = "due")
  BY DEF ReconciledReminder, ReminderRow, OpenStatus

\* A reminder that does not exist yet has version 0.
FreshRows == \A r \in Reminders : rem[r].status = "absent" => rem[r].version = 0

VersionStep ==
  \A r \in Reminders : rem'[r] # rem[r] =>
    rem'[r].version = rem[r].version + 1 /\ rem'[r].status # "absent"

LEMMA EveryStepIsVersioned ==
  ASSUME TypeInv, FreshRows, Next PROVE VersionStep
<1>. USE DEF VersionStep
<1>. rem \in [Reminders -> ReminderRow] /\ job \in [Reminders -> JobRow] /\ clock \in Nat
  BY DEF TypeInv, TypeOK
<1>1. CASE Request
  <2>1. ASSUME NEW r \in Reminders, NEW due \in Dues,
               CreateReminder(r, due) \/ ImportReminder(r, due)
        PROVE  VersionStep
    BY <2>1 DEF CreateReminder, ImportReminder, CreatedReminder, FreshRows
  <2>2. ASSUME NEW r \in Reminders, NEW due \in Dues, PatchReminder(r, due)
        PROVE  VersionStep
    BY <2>2 DEF PatchReminder, ReminderRow
  <2>3. ASSUME NEW r \in Reminders, NEW status \in ClosedStatus, CloseReminder(r, status)
        PROVE  VersionStep
    BY <2>3 DEF CloseReminder, ReminderRow, ClosedStatus
  <2>4. ASSUME NEW r \in Reminders, ManualRetry(r) PROVE VersionStep
    BY <2>4 DEF ManualRetry, RequeuedReminder, ReminderRow
  <2>5. ASSUME NEW r \in Reminders, MarkFired(r) PROVE VersionStep
    BY <2>5 DEF MarkFired, ReminderRow, OpenStatus
  <2>. QED  BY <1>1, <2>1, <2>2, <2>3, <2>4, <2>5 DEF Request
<1>2. ASSUME NEW w \in Workers, WorkerStep(w) PROVE VersionStep
  <2>1. CASE StartRun(w)
    BY <2>1, ReconciledIsVersioned DEF StartRun
  <2>2. CASE Commit(w)
    <3>1. wk[w].r \in Reminders
      BY <2>2 DEF Commit, TypeInv, WorkerShape
    <3>2. LET y == CommittedReminder(rem[wk[w].r], wk[w].verdict, wk[w].retryAt)
          IN  y.version = rem[wk[w].r].version + 1 /\ y.status = "due"
      BY <3>1 DEF CommittedReminder, ReminderRow
    <3>. QED  BY <2>2, <3>1, <3>2 DEF Commit
  <2>3. CASE \/ EndRun(w) \/ LoadReminder(w) \/ SettingsFailure(w) \/ PlanChannels(w)
             \/ StopInLoop(w) \/ Recheck(w) \/ AnswerLost(w) \/ FinishAttempt(w) \/ Evaluate(w)
             \/ Suppress(w)
             \/ \E kind \in {"success", "retryable", "permanent"} : ProviderAnswers(w, kind)
             \/ \E r \in Reminders : ClaimJob(w, r)
    BY <2>3 DEF EndRun, LoadReminder, SettingsFailure, PlanChannels, StopInLoop, Recheck,
       FinishAttempt, Evaluate, AnswerLost, ProviderAnswers, Suppress, ClaimJob
  <2>4. CASE SnapshotPolicy(w) \/ RecordTerminal(w) \/ \E c \in Channels : BeginAttempt(w, c)
    BY <2>4, StatusKept
  <2>. QED  BY <1>2, <2>1, <2>2, <2>3, <2>4 DEF WorkerStep
<1>3. CASE Tick \/ \E w \in Workers : Crash(w)
  BY <1>3 DEF Tick, Crash
<1>. QED  BY <1>1, <1>2, <1>3 DEF Next

\* Whoever changes a reminder, its version goes up by one.
THEOREM VersionsTellChanges == Spec => ChangesAreVersioned
<1>. DEFINE Versioned == \A r \in Reminders :
              rem'[r] # rem[r] => rem'[r].version = rem[r].version + 1
<1>1. Init => FreshRows
  BY DEF Init, FreshRows
<1>2. TypeInv /\ FreshRows /\ [Next]_vars => VersionStep /\ FreshRows'
  <2>1. TypeInv /\ FreshRows /\ Next => VersionStep
    BY EveryStepIsVersioned
  <2>2. UNCHANGED vars => VersionStep
    BY DEF vars, VersionStep
  <2>3. FreshRows /\ VersionStep => FreshRows'
    BY DEF FreshRows, VersionStep
  <2>. QED  BY <2>1, <2>2, <2>3
<1>3. VersionStep => [Versioned]_vars
  BY DEF VersionStep
<1>. QED  BY <1>1, <1>2, <1>3, TypeInvHolds, PTL DEF Spec, ChangesAreVersioned

(***************************************************************************)
(* Reminder and job settle together.  The scheduler writes both under its  *)
(* lease, so the proof follows the lease: only a claim creates one, with a *)
(* token nobody else has, and a worker that found its reminder settled has *)
(* lost it already.  The legacy scheduler settles reminders without their  *)
(* jobs, so the theorem is about instances it does not take part in.       *)
(***************************************************************************)

\* A reminder row and the row of its job say the same of the delivery.
Agree(x, j) ==
  /\ x.dstate = "delivered" <=> j.status = "succeeded"
  /\ x.dstate = "failed" <=> j.status = "failed"
  /\ x.status = "absent" => x.dstate \notin Settled

RowsAgree == \A r \in Reminders : Agree(rem[r], job[r])

\* Who suppresses a job and still has its lease found the reminder unsettled.
LeaseVerdict ==
  \A w \in Workers :
    wk[w].pc \in {"suppress", "suppressAttempt"} /\ HoldsLease(w) => wk[w].verdict = "cancelled"

SettleInv == RowsAgree /\ LeaseVerdict

-----------------------------------------------------------------------------
(* The rows after a step.                                                  *)

\* Fields of a job after the writes the actions make.
LEMMA JobFields ==
  ASSUME NEW j \in JobRow, NEW s \in JobStatuses, NEW t
  PROVE  /\ [Unleased(j) EXCEPT !.status = s].status = s
         /\ [Unleased(j) EXCEPT !.status = s, !.avail = t].status = s
         /\ QueuedJob(t).status = "queued"
         /\ CancelledJob(j).status =
              IF j.status \in {"queued", "leased"} THEN "cancelled" ELSE j.status
  BY DEF Unleased, JobRow, QueuedJob, NoJob, CancelledJob

\* Cancelling a live job, or one that is finished already, changes no verdict.
LEMMA CancelAgrees ==
  ASSUME NEW x \in ReminderRow, NEW y \in ReminderRow, NEW j \in JobRow, Agree(x, j),
         y.dstate = x.dstate, y.status # "absent"
  PROVE  Agree(y, CancelledJob(j))
  BY JobFields DEF Agree, JobStatuses

LEMMA ReconcileAgrees ==
  ASSUME NEW x \in ReminderRow, NEW j \in JobRow, NEW now \in Nat, Agree(x, j),
         x.status \in OpenStatus
  PROVE  Agree(ReconciledReminder(x, now), ReconciledJob(ReconciledReminder(x, now), j, now))
<1>. DEFINE y == ReconciledReminder(x, now)
<1>1. y \in ReminderRow /\ y.status \in OpenStatus
  BY ReconciledReminderType, ReconciledKeepsOpen
<1>2. \/ y.dstate = x.dstate
      \/ x.dstate = "not_due" /\ y.dstate = "queued"
  BY DEF ReconciledReminder, ReminderRow
<1>3. Agree(y, j)
  BY <1>1, <1>2 DEF Agree, OpenStatus, Settled
<1>. HIDE DEF y
<1>4. CASE y.dstate \in Settled
  <2>1. j.status = JobStatusOf(y.dstate)
    BY <1>3, <1>4 DEF Agree, Settled, JobStatusOf
  <2>. QED  BY <1>3, <1>4, <2>1 DEF ReconciledJob, TerminalJob, y
<1>5. CASE y.dstate \notin Settled
  <2>. DEFINE k == ReconciledJob(y, j, now)
              queued == [Unleased(j) EXCEPT !.status = "queued", !.avail = AvailableAt(y, now)]
  <2>1. queued.status = "queued" /\ [queued EXCEPT !.window = None, !.cycle = 0].status = "queued"
    BY DEF Unleased, JobRow
  <2>2. QueuedJob(AvailableAt(y, now)).status = "queued"
    BY DEF QueuedJob, NoJob
  <2>3. k.status = "queued" \/ k = j
    <3>. HIDE DEF queued
    <3>. QED  BY <1>5, <2>1, <2>2 DEF ReconciledJob, queued
  <2>. HIDE DEF k
  <2>. QED  BY <1>1, <1>3, <1>5, <2>3 DEF Agree, OpenStatus, Settled, k, y
<1>. QED  BY <1>4, <1>5

LEMMA SettleRequests ==
  ASSUME TypeInv, RowsAgree, "fire" \notin Edits, Tick \/ Request
  PROVE  RowsAgree'
<1>. USE DEF RowsAgree
<1>. rem \in [Reminders -> ReminderRow] /\ job \in [Reminders -> JobRow]
  BY DEF TypeInv, TypeOK
<1>1. CASE Tick
  BY <1>1 DEF Tick
<1>2. ASSUME NEW r \in Reminders, NEW due \in Dues,
             CreateReminder(r, due) \/ ImportReminder(r, due)
      PROVE  RowsAgree'
  <2>1. Agree(CreatedReminder(due), QueuedJob(due))
    BY DEF Agree, CreatedReminder, QueuedJob, NoJob, Settled
  <2>2. Agree(CreatedReminder(due), job[r])
    BY <1>2 DEF CreateReminder, ImportReminder, Agree, CreatedReminder, Settled, ReminderRow,
       DeliveryStates
  <2>. QED  BY <1>2, <2>1, <2>2 DEF CreateReminder, ImportReminder
<1>3. ASSUME NEW r \in Reminders, NEW due \in Dues, PatchReminder(r, due)
      PROVE  RowsAgree'
  <2>. DEFINE x == rem[r]
              y == [x EXCEPT !.due = due, !.version = x.version + 1]
  <2>1. y.dstate = x.dstate /\ y.status = x.status /\ y \in ReminderRow
    <3>1. x \in ReminderRow /\ due \in Nat
      BY DeliveryAssumption
    <3>. HIDE DEF x
    <3>2. x.version + 1 \in Nat
      BY <3>1 DEF ReminderRow
    <3>. QED  BY <3>1, <3>2 DEF ReminderRow
  <2>2. x.status # "absent" /\ rem' = [rem EXCEPT ![r] = y]
    BY <1>3 DEF PatchReminder
  <2>. HIDE DEF y
  <2>3. Agree(y, job[r])
    BY <2>1 DEF Agree
  <2>4. Agree(y, CancelledJob(job[r]))
    BY <2>1, <2>2, CancelAgrees
  <2>. QED  BY <1>3, <2>2, <2>3, <2>4 DEF PatchReminder
<1>4. ASSUME NEW r \in Reminders, NEW status \in ClosedStatus, CloseReminder(r, status)
      PROVE  RowsAgree'
  <2>. DEFINE x == rem[r]
              y == [x EXCEPT !.status = status, !.version = x.version + 1]
  <2>1. y.dstate = x.dstate /\ y.status # "absent" /\ y \in ReminderRow
    <3>1. x \in ReminderRow /\ status \in ReminderStatuses /\ status # "absent"
      BY DEF ReminderStatuses, ClosedStatus
    <3>. HIDE DEF x
    <3>2. x.version + 1 \in Nat
      BY <3>1 DEF ReminderRow
    <3>. QED  BY <3>1, <3>2 DEF ReminderRow
  <2>2. rem' = [rem EXCEPT ![r] = y]
    BY <1>4 DEF CloseReminder
  <2>. HIDE DEF y
  <2>3. Agree(y, CancelledJob(job[r]))
    BY <2>1, CancelAgrees
  <2>. QED  BY <1>4, <2>2, <2>3 DEF CloseReminder
<1>5. ASSUME NEW r \in Reminders, ManualRetry(r)
      PROVE  RowsAgree'
  <2>1. RequeuedReminder(rem[r]).dstate = "queued"
    BY DEF RequeuedReminder, ReminderRow
  <2>2. Agree(RequeuedReminder(rem[r]), QueuedJob(clock))
    BY <2>1, JobFields DEF Agree, QueuedJob, NoJob, Settled
  <2>. QED  BY <1>5, <2>2 DEF ManualRetry
<1>6. ASSUME NEW r \in Reminders, MarkFired(r)
      PROVE  FALSE
  BY <1>6 DEF MarkFired, MayEdit
<1>. QED  BY <1>1, <1>2, <1>3, <1>4, <1>5, <1>6 DEF Request

LEMMA SettleWorkerSteps ==
  ASSUME TypeInv, RowsAgree, LeaseVerdict, NEW w \in Workers, WorkerStep(w)
  PROVE  RowsAgree'
<1>. USE DEF RowsAgree
<1>. rem \in [Reminders -> ReminderRow] /\ job \in [Reminders -> JobRow] /\ clock \in Nat
  BY DEF TypeInv, TypeOK
<1>1. CASE StartRun(w)
  BY <1>1, ReconcileAgrees DEF StartRun
<1>2. ASSUME NEW r \in Reminders, ClaimJob(w, r)
      PROVE  RowsAgree'
  <2>1. /\ rem' = rem /\ rem[r].dstate \notin Settled /\ rem[r].status # "absent"
        /\ \A q \in Reminders : q # r => job'[q] = job[q]
    BY <1>2 DEF ClaimJob, Claimable, OpenStatus
  <2>2. job'[r].status = "leased"
    BY <1>2 DEF ClaimJob, JobRow
  <2>3. Agree(rem'[r], job'[r])
    BY <2>1, <2>2 DEF Agree, Settled
  <2>. QED  BY <2>1, <2>3
<1>3. CASE SnapshotPolicy(w) \/ RecordTerminal(w) \/ \E c \in Channels : BeginAttempt(w, c)
  BY <1>3, StatusKept DEF Agree
<1>4. CASE Commit(w)
  <2>. DEFINE s == wk[w]
              x == rem[s.r]
              j == job[s.r]
              y == CommittedReminder(x, s.verdict, s.retryAt)
              k == CommittedJob(j, s.verdict, s.retryAt)
              c == [Unleased(j) EXCEPT !.status = "cancelled"]
  <2>1. /\ s.r \in Reminders /\ x \in ReminderRow /\ j \in JobRow
        /\ s.verdict \in {"delivered", "retrying", "failed"}
    BY <1>4 DEF Commit, TypeInv, TypeOK, WorkerShape
  <2>2. y.dstate = s.verdict /\ y.status = "due"
    BY <2>1 DEF CommittedReminder, ReminderRow
  <2>3. k.status = IF s.verdict = "retrying" THEN "queued" ELSE JobStatusOf(s.verdict)
    <3>1. "queued" \in JobStatuses /\ JobStatusOf(s.verdict) \in JobStatuses
      BY DEF JobStatuses, JobStatusOf
    <3>. QED  BY <2>1, <3>1, JobFields DEF CommittedJob
  <2>4. c.status = "cancelled"
    BY <2>1, JobFields DEF JobStatuses
  <2>. HIDE DEF y, k, c
  <2>5. Agree(y, k)
    BY <2>1, <2>2, <2>3 DEF Agree, JobStatusOf
  <2>6. HoldsLease(w) => Agree(x, c)
    BY <2>1, <2>4 DEF HoldsLease, Agree
  <2>7. \/ rem' = rem /\ job' = job
        \/ HoldsLease(w) /\ rem' = rem /\ job' = [job EXCEPT ![s.r] = c]
        \/ rem' = [rem EXCEPT ![s.r] = y] /\ job' = [job EXCEPT ![s.r] = k]
    BY <1>4 DEF Commit, y, k, c
  <2>. QED  BY <2>1, <2>5, <2>6, <2>7
<1>5. CASE Suppress(w)
  <2>. DEFINE s == wk[w]
              c == [Unleased(job[s.r]) EXCEPT !.status = "cancelled"]
  <2>1. s.r \in Reminders /\ job[s.r] \in JobRow
    BY <1>5 DEF Suppress, TypeInv, TypeOK, WorkerShape
  <2>2. c.status = "cancelled"
    BY <2>1, JobFields DEF JobStatuses
  <2>3. rem' = rem /\ (job' = job \/ (HoldsLease(w) /\ job' = [job EXCEPT ![s.r] = c]))
    BY <1>5 DEF Suppress, LeaseVerdict
  <2>. HIDE DEF c
  <2>4. HoldsLease(w) => Agree(rem[s.r], c)
    BY <2>1, <2>2 DEF HoldsLease, Agree
  <2>. QED  BY <2>1, <2>3, <2>4
<1>6. CASE \/ EndRun(w) \/ LoadReminder(w) \/ SettingsFailure(w) \/ PlanChannels(w)
           \/ StopInLoop(w) \/ Recheck(w) \/ AnswerLost(w) \/ FinishAttempt(w) \/ Evaluate(w)
           \/ \E kind \in {"success", "retryable", "permanent"} : ProviderAnswers(w, kind)
  BY <1>6 DEF EndRun, LoadReminder, SettingsFailure, PlanChannels, StopInLoop, Recheck,
     FinishAttempt, Evaluate, AnswerLost, ProviderAnswers
<1>. QED  BY <1>1, <1>2, <1>3, <1>4, <1>5, <1>6 DEF WorkerStep

-----------------------------------------------------------------------------
(* Only a claim makes a lease.                                             *)

SameLease(k, j) == k.status = j.status /\ k.owner = j.owner /\ k.token = j.token

LEMMA LeaseAfterWrite ==
  ASSUME NEW j \in JobRow, NEW x, NEW y
  PROVE  /\ SameLease([j EXCEPT !.policy = x], j)
         /\ SameLease([j EXCEPT !.terminal = x], j)
         /\ SameLease([j EXCEPT !.cycle = x, !.window = y], j)
  BY DEF SameLease, JobRow

LEMMA LeaseAfterReconcile ==
  ASSUME NEW x \in ReminderRow, NEW j \in JobRow, NEW now \in Nat,
         ReconciledJob(x, j, now).status = "leased"
  PROVE  ReconciledJob(x, j, now) = j
<1>. DEFINE queued == [Unleased(j) EXCEPT !.status = "queued", !.avail = AvailableAt(x, now)]
<1>1. queued.status = "queued" /\ [queued EXCEPT !.window = None, !.cycle = 0].status = "queued"
  BY DEF Unleased, JobRow
<1>2. QueuedJob(AvailableAt(x, now)).status = "queued"
  BY DEF QueuedJob, NoJob
<1>3. TerminalJob(x, j, now) = j \/ TerminalJob(x, j, now).status = JobStatusOf(x.dstate)
  BY DEF TerminalJob, Unleased, JobRow
<1>4. JobStatusOf(x.dstate) # "leased"
  BY DEF JobStatusOf
<1>. HIDE DEF queued
<1>. QED  BY <1>1, <1>2, <1>3, <1>4 DEF ReconciledJob, queued

LEMMA LeaseOrigin ==
  ASSUME TypeInv, Next, NEW r \in Reminders, job'[r].status = "leased"
  PROVE  SameLease(job'[r], job[r]) \/ \E w \in Workers : ClaimJob(w, r)
<1>. rem \in [Reminders -> ReminderRow] /\ job \in [Reminders -> JobRow] /\ clock \in Nat
  BY DEF TypeInv, TypeOK
<1>. SUFFICES ASSUME job'[r] # job[r], \A w \in Workers : ~ ClaimJob(w, r)
              PROVE  SameLease(job'[r], job[r])
  BY DEF SameLease
<1>0. ASSUME NEW q \in Reminders, NEW k, job' = [job EXCEPT ![q] = k], SameLease(k, job[q])
      PROVE  SameLease(job'[r], job[r])
  BY <1>0 DEF SameLease
<1>1. ASSUME Request PROVE FALSE
  <2>1. \A j \in JobRow : CancelledJob(j).status # "leased"
    BY StatusAfterCancel
  <2>2. \A t \in Nat : QueuedJob(t).status = "queued"
    BY DEF QueuedJob, NoJob
  <2>3. PICK q \in Reminders :
          \/ \E due \in Dues : \/ CreateReminder(q, due) \/ ImportReminder(q, due)
                              \/ PatchReminder(q, due)
          \/ \E status \in ClosedStatus : CloseReminder(q, status)
          \/ ManualRetry(q) \/ MarkFired(q)
    BY <1>1 DEF Request
  <2>4. \/ job' = job
        \/ \E due \in Nat : job' = [job EXCEPT ![q] = QueuedJob(due)]
        \/ job' = [job EXCEPT ![q] = CancelledJob(job[q])]
    <3>1. Dues \subseteq Nat
      BY DeliveryAssumption
    <3>. QED
      BY <2>3, <3>1 DEF CreateReminder, ImportReminder, PatchReminder, CloseReminder,
         ManualRetry, MarkFired
  <2>5. CASE \E due \in Nat : job' = [job EXCEPT ![q] = QueuedJob(due)]
    <3>1. PICK due \in Nat : job' = [job EXCEPT ![q] = QueuedJob(due)]
      BY <2>5
    <3>2. QueuedJob(due).status = "queued"
      BY <2>2
    <3>. QED  BY <3>1, <3>2
  <2>6. CASE job' = [job EXCEPT ![q] = CancelledJob(job[q])]
    BY <2>1, <2>6
  <2>. QED  BY <2>4, <2>5, <2>6
<1>2. ASSUME NEW w \in Workers, WorkerStep(w)
      PROVE  SameLease(job'[r], job[r])
  <2>. DEFINE s == wk[w]
              j == job[s.r]
  <2>1. CASE StartRun(w)
    <3>1. job'[r] = job[r] \/ job'[r] = ReconciledJob(ReconciledReminder(rem[r], clock), job[r], clock)
      BY <2>1 DEF StartRun
    <3>2. ReconciledReminder(rem[r], clock) \in ReminderRow
      BY ReconciledReminderType
    <3>. QED  BY <3>1, <3>2, LeaseAfterReconcile
  <2>2. ASSUME NEW q \in Reminders, ClaimJob(w, q) PROVE FALSE
    <3>1. q # r
      BY <2>2
    <3>2. job'[r] = job[r]
      BY <2>2, <3>1 DEF ClaimJob
    <3>. QED  BY <3>2
  <2>3. CASE SnapshotPolicy(w)
    <3>1. s.r \in Reminders /\ j \in JobRow
      BY <2>3 DEF SnapshotPolicy, TypeInv, TypeOK, WorkerShape
    <3>2. job' = job \/ \E p : job' = [job EXCEPT ![s.r] = [j EXCEPT !.policy = p]]
      BY <3>1, <2>3 DEF SnapshotPolicy
    <3>3. \A p : SameLease([j EXCEPT !.policy = p], j)
      BY <3>1, LeaseAfterWrite
    <3>. QED  BY <1>0, <3>1, <3>2, <3>3
  <2>4. CASE RecordTerminal(w)
    <3>1. s.r \in Reminders /\ j \in JobRow
      BY <2>4 DEF RecordTerminal, TypeInv, TypeOK, WorkerShape
    <3>2. job' = job \/ \E t : job' = [job EXCEPT ![s.r] = [j EXCEPT !.terminal = t]]
      BY <3>1, <2>4 DEF RecordTerminal
    <3>3. \A t : SameLease([j EXCEPT !.terminal = t], j)
      BY <3>1, LeaseAfterWrite
    <3>. QED  BY <1>0, <3>1, <3>2, <3>3
  <2>5. ASSUME NEW c \in Channels, BeginAttempt(w, c)
        PROVE  SameLease(job'[r], job[r])
    <3>1. s.r \in Reminders /\ j \in JobRow
      BY <2>5 DEF BeginAttempt, TypeInv, TypeOK, WorkerShape
    <3>2. job' = job \/ \E k : job' = [job EXCEPT ![s.r] = [j EXCEPT !.cycle = k, !.window = s.now]]
      BY <3>1, <2>5 DEF BeginAttempt
    <3>3. \A k : SameLease([j EXCEPT !.cycle = k, !.window = s.now], j)
      BY <3>1, LeaseAfterWrite
    <3>. QED  BY <1>0, <3>1, <3>2, <3>3
  <2>6. ASSUME Commit(w) PROVE FALSE
    <3>. DEFINE k == CommittedJob(j, s.verdict, s.retryAt)
                c == [Unleased(j) EXCEPT !.status = "cancelled"]
    <3>1. s.r \in Reminders /\ j \in JobRow
      BY <2>6 DEF Commit, TypeInv, TypeOK, WorkerShape
    <3>2. k.status \in {"queued", "succeeded", "failed"}
      <4>1. "queued" \in JobStatuses /\ JobStatusOf(s.verdict) \in JobStatuses
        BY DEF JobStatuses, JobStatusOf
      <4>2. JobStatusOf(s.verdict) \in {"succeeded", "failed"}
        BY DEF JobStatusOf
      <4>. QED  BY <3>1, <4>1, <4>2, JobFields DEF CommittedJob
    <3>3. c.status = "cancelled"
      BY <3>1, JobFields DEF JobStatuses
    <3>. HIDE DEF k, c
    <3>4. job' = job \/ job' = [job EXCEPT ![s.r] = k] \/ job' = [job EXCEPT ![s.r] = c]
      BY <2>6 DEF Commit, k, c
    <3>. QED  BY <3>1, <3>2, <3>3, <3>4
  <2>7. ASSUME Suppress(w) PROVE FALSE
    <3>. DEFINE status == IF s.verdict = "cancelled" THEN "cancelled" ELSE JobStatusOf(s.verdict)
                k == [Unleased(j) EXCEPT !.status = status]
    <3>1. s.r \in Reminders /\ j \in JobRow
      BY <2>7 DEF Suppress, TypeInv, TypeOK, WorkerShape
    <3>2. status \in JobStatuses /\ status # "leased"
      BY DEF JobStatusOf, JobStatuses
    <3>3. k.status # "leased"
      BY <3>1, <3>2, JobFields
    <3>. HIDE DEF k
    <3>4. job' = job \/ job' = [job EXCEPT ![s.r] = k]
      BY <2>7 DEF Suppress, k
    <3>. QED  BY <3>1, <3>3, <3>4
  <2>8. CASE \/ EndRun(w) \/ LoadReminder(w) \/ SettingsFailure(w) \/ PlanChannels(w)
             \/ StopInLoop(w) \/ Recheck(w) \/ AnswerLost(w) \/ FinishAttempt(w) \/ Evaluate(w)
             \/ \E kind \in {"success", "retryable", "permanent"} : ProviderAnswers(w, kind)
    BY <2>8 DEF EndRun, LoadReminder, SettingsFailure, PlanChannels, StopInLoop, Recheck,
       FinishAttempt, Evaluate, AnswerLost, ProviderAnswers
  <2>. QED  BY <1>2, <2>1, <2>2, <2>3, <2>4, <2>5, <2>6, <2>7, <2>8 DEF WorkerStep
<1>3. ASSUME Tick \/ \E w \in Workers : Crash(w) PROVE FALSE
  BY <1>3 DEF Tick, Crash
<1>. QED  BY <1>1, <1>2, <1>3 DEF Next

-----------------------------------------------------------------------------
(* A worker that suppresses a settled reminder's job has lost it already.  *)

Suppressing(pc) == pc \in {"suppress", "suppressAttempt"}

\* Neither suppressing a job nor about to call a provider.
Quiet(pc) == pc \notin {"suppress", "suppressAttempt", "sending"}

\* A lost answer changes nothing the bot knows of.
LEMMA LostAnswerStands ==
  ASSUME NEW w \in Workers, AnswerLost(w)
  PROVE  wk[w].pc = "sending" /\ wk' = wk /\ attempts' = attempts /\ lostLeases' = lostLeases
BY DEF AnswerLost

LEMMA PlainSteps ==
  ASSUME TypeInv, NEW w \in Workers,
         \/ StartRun(w) \/ EndRun(w) \/ SettingsFailure(w) \/ PlanChannels(w)
         \/ SnapshotPolicy(w) \/ RecordTerminal(w) \/ FinishAttempt(w) \/ Evaluate(w)
         \/ Commit(w) \/ Suppress(w) \/ Crash(w)
         \/ (\E r \in Reminders : ClaimJob(w, r)) \/ (\E c \in Channels : BeginAttempt(w, c))
         \/ \E kind \in {"success", "retryable", "permanent"} : ProviderAnswers(w, kind)
  PROVE  /\ Quiet(wk'[w].pc)
         /\ \A v \in Workers : v # w => wk'[v] = wk[v]
<1>. wk \in [Workers -> WorkerState]
  BY DEF TypeInv, TypeOK
<1>. USE DEF Quiet
<1>1. \A pc, now, left : NotHolding(pc, now, left).pc = pc
  BY DEF NotHolding
<1>2. ASSUME AbortRun(w) \/ NextJob(w) \/ StartRun(w) \/ Crash(w) \/ EndRun(w)
             \/ SettingsFailure(w) \/ Commit(w)
      PROVE  /\ Quiet(wk'[w].pc)
             /\ \A v \in Workers : v # w => wk'[v] = wk[v]
  BY <1>1, <1>2 DEF AbortRun, NextJob, StartRun, Crash, EndRun, SettingsFailure, Commit
<1>. DEFINE s == wk[w]
<1>0. ASSUME NEW u, wk' = [wk EXCEPT ![w] = u], Quiet(u.pc)
      PROVE  /\ Quiet(wk'[w].pc)
             /\ \A v \in Workers : v # w => wk'[v] = wk[v]
  BY <1>0
<1>3. CASE FinishAttempt(w)
  BY <1>3 DEF FinishAttempt, Goto, WorkerState
<1>4. CASE Suppress(w)
  BY <1>2, <1>4 DEF Suppress, Goto, WorkerState
<1>5. CASE PlanChannels(w)
  BY <1>5 DEF PlanChannels, WorkerState
<1>6. CASE SnapshotPolicy(w)
  <2>. DEFINE kept(p) == IF job[s.r].policy = NoPolicy THEN p ELSE job[s.r].policy
              holding(p) == [s EXCEPT !.pc = "plan", !.policy = kept(p), !.window = job[s.r].window,
                                      !.cycle = job[s.r].cycle, !.terminal = job[s.r].terminal]
  <2>1. \A p : holding(p).pc = "plan"
    BY DEF WorkerState
  <2>2. AbortRun(w) \/ \E p \in Settings : wk' = [wk EXCEPT ![w] = holding(p)]
    BY <1>6 DEF SnapshotPolicy
  <2>. HIDE DEF holding
  <2>. QED  BY <1>0, <1>2, <2>1, <2>2
<1>7. CASE RecordTerminal(w)
  <2>1. \A t, n, c : [s EXCEPT !.pc = "loop", !.terminal = c, !.window = t, !.cycle = n].pc = "loop"
    BY DEF WorkerState
  <2>2. AbortRun(w) \/ \E t, n, c : wk' = [wk EXCEPT ![w] = [s EXCEPT !.pc = "loop", !.terminal = c,
                                                                 !.window = t, !.cycle = n]]
    BY <1>7 DEF RecordTerminal
  <2>. QED  BY <1>0, <1>2, <2>1, <2>2
<1>8. CASE Evaluate(w)
  <2>. DEFINE decided(verdict, at) == [s EXCEPT !.pc = "commit", !.version = rem[s.r].version,
                                               !.verdict = verdict, !.retryAt = at]
  <2>1. \A verdict, at : decided(verdict, at).pc = "commit"
    BY DEF WorkerState
  <2>2. \E verdict, at : wk' = [wk EXCEPT ![w] = decided(verdict, at)]
    <3>1. \/ wk' = [wk EXCEPT ![w] = decided("delivered", None)]
          \/ wk' = [wk EXCEPT ![w] = decided("failed", None)]
          \/ \E at : wk' = [wk EXCEPT ![w] = decided(IF at = None THEN "failed" ELSE "retrying", at)]
      BY <1>8 DEF Evaluate
    <3>. HIDE DEF decided
    <3>. QED  BY <3>1
  <2>. HIDE DEF decided
  <2>. QED  BY <1>0, <2>1, <2>2
<1>9. CASE \E c \in Channels : BeginAttempt(w, c)
  <2>. PICK c \in Channels : BeginAttempt(w, c)
    BY <1>9
  <2>. DEFINE rows == {a \in attempts : a.rem = s.r}
              cycle == IF job[s.r].cycle # 0 THEN job[s.r].cycle
                       ELSE Cardinality({a.cycle : a \in rows}) + 1
              num == Cardinality({a \in rows : a.ch = c}) + 1
              trying == [s EXCEPT !.pc = "recheck", !.todo = s.todo \ {c}, !.ch = c, !.num = num,
                                  !.ordinal[c] = AttemptCount(s.r, c, cycle) + 1]
  <2>. HIDE DEF cycle, num
  <2>1. trying.pc = "recheck"
    BY DEF WorkerState
  <2>2. wk' = [wk EXCEPT ![w] = trying]
    BY DEF BeginAttempt, cycle, num
  <2>. HIDE DEF trying
  <2>. QED  BY <1>0, <2>1, <2>2
<1>10. CASE \E r \in Reminders : ClaimJob(w, r)
  <2>. PICK r \in Reminders : ClaimJob(w, r)
    BY <1>10
  <2>. DEFINE holding(t) == [NotHolding("load", s.now, s.left - 1) EXCEPT
                               !.r = r, !.token = t, !.window = job[r].window, !.cycle = job[r].cycle,
                               !.policy = job[r].policy, !.terminal = job[r].terminal]
  <2>1. \A t : holding(t).pc = "load"
    BY DEF NotHolding
  <2>2. \E t \in Tokens : wk' = [wk EXCEPT ![w] = holding(t)]
    BY DEF ClaimJob
  <2>. HIDE DEF holding
  <2>. QED  BY <1>0, <2>1, <2>2
<1>11. CASE \E kind \in {"success", "retryable", "permanent"} : ProviderAnswers(w, kind)
  BY <1>11 DEF ProviderAnswers, WorkerState
<1>. QED  BY <1>2, <1>3, <1>4, <1>5, <1>6, <1>7, <1>8, <1>9, <1>10, <1>11

LEMMA StoppingSteps ==
  ASSUME TypeInv, NEW w \in Workers, LoadReminder(w) \/ StopInLoop(w) \/ Recheck(w)
  PROVE  /\ \A v \in Workers : v # w => wk'[v] = wk[v]
         /\ job' = job /\ wk[w].r \in Reminders
         /\ wk'[w].r = wk[w].r
         /\ Suppressing(wk'[w].pc) => wk'[w].verdict = SuppressAs(rem[wk[w].r])
<1>. wk \in [Workers -> WorkerState]
  BY DEF TypeInv, TypeOK
<1>. USE DEF Suppressing
<1>1. wk[w].r \in Reminders
  BY DEF LoadReminder, StopInLoop, Recheck, TypeInv, WorkerShape
<1>2. CASE LoadReminder(w)
  BY <1>1, <1>2 DEF LoadReminder, WorkerState
<1>3. CASE StopInLoop(w)
  BY <1>1, <1>3 DEF StopInLoop, WorkerState
<1>4. CASE Recheck(w)
  <2>. DEFINE s == wk[w]
              giving == [s EXCEPT !.pc = "suppressAttempt", !.outcome[s.ch] = "suppressed",
                                  !.verdict = SuppressAs(rem[s.r])]
              forced == [s EXCEPT !.pc = "finish", !.outcome[s.ch] = "permanent"]
              calling == [s EXCEPT !.pc = "sending"]
  <2>1. \/ wk' = [wk EXCEPT ![w] = giving] \/ wk' = [wk EXCEPT ![w] = forced]
        \/ wk' = [wk EXCEPT ![w] = calling]
    BY <1>4 DEF Recheck
  <2>2. s \in WorkerState /\ job' = job
    BY <1>4 DEF Recheck
  <2>3. giving.r = s.r /\ giving.verdict = SuppressAs(rem[s.r])
    BY <2>2 DEF WorkerState
  <2>4. forced.r = s.r /\ forced.pc = "finish" /\ calling.r = s.r /\ calling.pc = "sending"
    BY <2>2 DEF WorkerState
  <2>. HIDE DEF giving, forced, calling
  <2>. QED  BY <1>1, <2>1, <2>2, <2>3, <2>4
<1>. QED  BY <1>2, <1>3, <1>4

LEMMA VerdictStep ==
  ASSUME TypeInv, SettleInv, Next
  PROVE  LeaseVerdict'
<1>. SUFFICES ASSUME NEW w \in Workers, Suppressing(wk'[w].pc), HoldsLease(w)'
              PROVE  wk'[w].verdict = "cancelled"
  BY DEF LeaseVerdict, Suppressing
<1>1. CASE wk'[w] = wk[w]
  <2>. DEFINE r == wk[w].r
  <2>1. r \in Reminders /\ job'[r].status = "leased" /\ job'[r].owner = w /\ job'[r].token = wk[w].token
    BY <1>1 DEF HoldsLease
  <2>2. \A v \in Workers : ~ ClaimJob(v, r)
    <3>. SUFFICES ASSUME NEW v \in Workers, ClaimJob(v, r) PROVE FALSE
      OBVIOUS
    <3>1. job'[r].owner = v
      BY <2>1 DEF ClaimJob, TypeInv, TypeOK, JobRow
    <3>2. ~ Suppressing(wk'[v].pc)
      BY <2>1, PlainSteps DEF Quiet, Suppressing
    <3>. QED  BY <2>1, <3>1, <3>2
  <2>3. HoldsLease(w)
    BY <2>1, <2>2, LeaseOrigin DEF SameLease, HoldsLease
  <2>. QED  BY <1>1, <2>3 DEF SettleInv, LeaseVerdict, Suppressing
<1>2. CASE LoadReminder(w) \/ StopInLoop(w) \/ Recheck(w)
  <2>. DEFINE r == wk[w].r
  <2>1. /\ r \in Reminders /\ job[r].status = "leased"
        /\ wk'[w].verdict = SuppressAs(rem[r])
    BY <1>2, StoppingSteps DEF HoldsLease
  <2>2. rem[r].dstate \notin Settled
    BY <2>1 DEF SettleInv, RowsAgree, Agree, Settled
  <2>. QED  BY <2>1, <2>2 DEF SuppressAs
<1>3. wk'[w] = wk[w] \/ LoadReminder(w) \/ StopInLoop(w) \/ Recheck(w)
  <2>1. CASE Tick \/ Request
    BY <2>1 DEF Tick, Request, CreateReminder, ImportReminder, PatchReminder, CloseReminder,
       ManualRetry, MarkFired
  <2>2. ASSUME NEW v \in Workers, WorkerStep(v) \/ Crash(v)
        PROVE  wk'[w] = wk[w] \/ LoadReminder(w) \/ StopInLoop(w) \/ Recheck(w)
    BY <2>2, PlainSteps, StoppingSteps, LostAnswerStands DEF WorkerStep, Quiet, Suppressing
  <2>. QED  BY <2>1, <2>2 DEF Next
<1>. QED  BY <1>1, <1>2, <1>3

LEMMA SettleStep ==
  ASSUME TypeInv, SettleInv, [Next]_vars, "fire" \notin Edits
  PROVE  SettleInv'
<1>1. CASE Next
  <2>1. (\E w \in Workers : Crash(w)) => RowsAgree'
    BY DEF Crash, SettleInv, RowsAgree
  <2>2. RowsAgree'
    BY <1>1, <2>1, SettleRequests, SettleWorkerSteps DEF Next, SettleInv
  <2>. QED  BY <1>1, <2>2, VerdictStep DEF SettleInv
<1>2. CASE UNCHANGED vars
  BY <1>2 DEF vars, SettleInv, RowsAgree, LeaseVerdict, HoldsLease
<1>. QED  BY <1>1, <1>2

LEMMA SettleInit == Init => SettleInv
  BY DEF Init, SettleInv, RowsAgree, LeaseVerdict, Agree, NoJob, NotHolding, Settled

\* Reminder and job settle together, for any number of schedulers, crashes and
\* requests, as long as the legacy scheduler does not mark reminders fired.
THEOREM SettlesTogether ==
  ASSUME "fire" \notin Edits
  PROVE  Spec => []SettledTogether
<1>1. TypeInv /\ SettleInv /\ [Next]_vars => SettleInv'
  BY SettleStep
<1>2. SettleInv => SettledTogether
  BY DEF SettleInv, RowsAgree, Agree, SettledTogether
<1>. QED  BY <1>1, <1>2, SettleInit, TypeInvHolds, PTL DEF Spec

-----------------------------------------------------------------------------
(* What is settled stays settled: a settled reminder's job has no lease to *)
(* commit under, and the reconciliation leaves settled reminders alone.    *)

StaysSettled ==
  \A r \in Reminders :
    /\ rem[r].dstate = "delivered" => rem'[r].dstate = "delivered"
    /\ rem[r].dstate = "failed" /\ rem'[r].dstate # "failed" =>
         job'[r] = QueuedJob(clock) /\ rem'[r].dstate = "queued"

LEMMA RequestsLeaveSettled ==
  ASSUME TypeInv, RowsAgree, "fire" \notin Edits, Request
  PROVE  StaysSettled
<1>. USE DEF StaysSettled
<1>. rem \in [Reminders -> ReminderRow] /\ job \in [Reminders -> JobRow]
  BY DEF TypeInv, TypeOK
<1>1. ASSUME NEW r \in Reminders, NEW due \in Dues,
             CreateReminder(r, due) \/ ImportReminder(r, due)
      PROVE  StaysSettled
  BY <1>1 DEF CreateReminder, ImportReminder, RowsAgree, Agree, Settled
<1>2. ASSUME NEW r \in Reminders, NEW due \in Dues, PatchReminder(r, due)
      PROVE  StaysSettled
  BY <1>2 DEF PatchReminder, ReminderRow
<1>3. ASSUME NEW r \in Reminders, NEW status \in ClosedStatus, CloseReminder(r, status)
      PROVE  StaysSettled
  BY <1>3 DEF CloseReminder, ReminderRow
<1>4. ASSUME NEW r \in Reminders, ManualRetry(r)
      PROVE  StaysSettled
  <2>1. RequeuedReminder(rem[r]).dstate = "queued"
    BY DEF RequeuedReminder, ReminderRow
  <2>. QED  BY <1>4, <2>1 DEF ManualRetry
<1>5. ASSUME NEW r \in Reminders, MarkFired(r)
      PROVE  FALSE
  BY <1>5 DEF MarkFired, MayEdit
<1>. QED  BY <1>1, <1>2, <1>3, <1>4, <1>5 DEF Request

LEMMA WorkersLeaveSettled ==
  ASSUME TypeInv, RowsAgree, NEW w \in Workers, WorkerStep(w)
  PROVE  \A r \in Reminders : rem[r].dstate \in Settled => rem'[r].dstate = rem[r].dstate
<1>. rem \in [Reminders -> ReminderRow] /\ job \in [Reminders -> JobRow]
  BY DEF TypeInv, TypeOK
<1>1. CASE StartRun(w)
  <2>1. \A r \in Reminders : rem'[r] = rem[r] \/ rem'[r] = ReconciledReminder(rem[r], clock)
    BY <1>1 DEF StartRun
  <2>2. \A x \in ReminderRow : x.dstate \in Settled => ReconciledReminder(x, clock).dstate = x.dstate
    BY DEF ReconciledReminder, ReminderRow, Settled
  <2>. QED  BY <2>1, <2>2
<1>2. CASE Commit(w)
  <2>1. wk[w].r \in Reminders
    BY <1>2 DEF Commit, TypeInv, WorkerShape
  <2>2. rem[wk[w].r].dstate \in Settled => ~ HoldsLease(w)
    BY <2>1 DEF RowsAgree, Agree, Settled, HoldsLease
  <2>. QED  BY <1>2, <2>1, <2>2 DEF Commit
<1>3. CASE SnapshotPolicy(w) \/ RecordTerminal(w) \/ \E c \in Channels : BeginAttempt(w, c)
  BY <1>3, StatusKept
<1>4. CASE \/ EndRun(w) \/ LoadReminder(w) \/ SettingsFailure(w) \/ PlanChannels(w)
           \/ StopInLoop(w) \/ Recheck(w) \/ AnswerLost(w) \/ FinishAttempt(w) \/ Evaluate(w)
           \/ Suppress(w)
           \/ \E kind \in {"success", "retryable", "permanent"} : ProviderAnswers(w, kind)
           \/ \E r \in Reminders : ClaimJob(w, r)
  BY <1>4 DEF EndRun, LoadReminder, SettingsFailure, PlanChannels, StopInLoop, Recheck,
     FinishAttempt, Evaluate, AnswerLost, ProviderAnswers, Suppress, ClaimJob
<1>. QED  BY <1>1, <1>2, <1>3, <1>4 DEF WorkerStep

\* No scheduler, late commit, crash or request takes a delivered reminder back, and
\* only an operator's retry takes up a failed one (the legacy scheduler, which
\* marks failed reminders delivered, does not run).
THEOREM SettledStaysSettled ==
  ASSUME "fire" \notin Edits
  PROVE  Spec => SettledIsFinal
<1>1. TypeInv /\ SettleInv /\ [Next]_vars => SettleInv'
  BY SettleStep
<1>2. TypeInv /\ SettleInv /\ [Next]_vars =>
        [\A r \in Reminders :
           /\ rem[r].dstate = "delivered" => rem'[r].dstate = "delivered"
           /\ rem[r].dstate = "failed" /\ rem'[r].dstate # "failed" =>
                job'[r] = QueuedJob(clock) /\ rem'[r].dstate = "queued"]_vars
  <2>. SUFFICES ASSUME TypeInv, RowsAgree, Next PROVE StaysSettled
    BY DEF SettleInv, StaysSettled
  <2>1. CASE Tick \/ \E w \in Workers : Crash(w)
    BY <2>1 DEF Tick, Crash, StaysSettled
  <2>2. CASE \E w \in Workers : WorkerStep(w)
    BY <2>2, WorkersLeaveSettled DEF StaysSettled, Settled
  <2>. QED  BY <2>1, <2>2, RequestsLeaveSettled DEF Next
<1>. QED  BY <1>1, <1>2, SettleInit, TypeInvHolds, PTL DEF Spec, SettledIsFinal

-----------------------------------------------------------------------------
(* No call after a stop.  The only step that leads to a provider call is   *)
(* the last look at the reminder, and a worker that takes it at a closed   *)
(* or delivered reminder turns away, whatever it read of it before.        *)

\* Closed by the owner, or delivered: there is nothing more to tell.
Over(r) == rem[r].status \in ClosedStatus \/ rem[r].dstate = "delivered"

NoNewCall ==
  \A r \in Reminders : Over(r) /\ ~ InCall(r) => accepted'[r] = accepted[r] /\ ~ InCall(r)'

LEMMA CallsBegin ==
  ASSUME TypeInv, NEW w \in Workers, WorkerStep(w) \/ Crash(w),
         wk'[w] # wk[w], wk'[w].pc = "sending"
  PROVE  ~ Over(wk[w].r) /\ wk'[w].r = wk[w].r
<1>1. Recheck(w)
  <2>1. ~ Quiet(wk'[w].pc)
    BY DEF Quiet
  <2>2. LoadReminder(w) \/ StopInLoop(w) \/ Recheck(w)
    BY <2>1, PlainSteps, LostAnswerStands DEF WorkerStep
  <2>3. LoadReminder(w) => wk'[w].pc # "sending"
    BY DEF LoadReminder, TypeInv, TypeOK, WorkerState
  <2>4. StopInLoop(w) => wk'[w].pc # "sending"
    BY DEF StopInLoop, TypeInv, TypeOK, WorkerState
  <2>. QED  BY <2>2, <2>3, <2>4
<1>2. DueAndActive(rem[wk[w].r], wk[w].now)
  <2>. DEFINE s == wk[w]
              giving == [s EXCEPT !.pc = "suppressAttempt", !.outcome[s.ch] = "suppressed",
                                  !.verdict = SuppressAs(rem[s.r])]
  <2>. SUFFICES ASSUME ~ DueAndActive(rem[s.r], s.now) PROVE FALSE
    OBVIOUS
  <2>1. wk' = [wk EXCEPT ![w] = giving]
    BY <1>1 DEF Recheck
  <2>2. giving.pc = "suppressAttempt"
    BY DEF TypeInv, TypeOK, WorkerState
  <2>. HIDE DEF giving
  <2>. QED  BY <2>1, <2>2 DEF TypeInv, TypeOK
<1>3. wk'[w].r = wk[w].r
  BY <1>1, StoppingSteps
<1>. QED
  BY <1>2, <1>3 DEF DueAndActive, Over, OpenStatus, ClosedStatus, Settled

LEMMA WorkerIsSilent ==
  ASSUME TypeInv, NEW w \in Workers, WorkerStep(w) \/ Crash(w)
  PROVE  NoNewCall
<1>. SUFFICES ASSUME NEW r \in Reminders, Over(r), ~ InCall(r)
              PROVE  accepted'[r] = accepted[r] /\ ~ InCall(r)'
  BY DEF NoNewCall
<1>1. accepted'[r] = accepted[r]
  <2>1. CASE \E kind \in {"success", "retryable", "permanent"} : ProviderAnswers(w, kind)
    <3>1. wk[w].r # r
      BY <2>1 DEF ProviderAnswers, InCall
    <3>. QED  BY <2>1, <3>1 DEF ProviderAnswers, TypeInv, TypeOK
  <2>4. CASE AnswerLost(w)
    <3>1. wk[w].r # r
      BY <2>4 DEF AnswerLost, InCall
    <3>. QED  BY <2>4, <3>1 DEF AnswerLost, TypeInv, TypeOK
  <2>2. CASE SnapshotPolicy(w) \/ RecordTerminal(w) \/ \E c \in Channels : BeginAttempt(w, c)
    BY <2>2 DEF SnapshotPolicy, RecordTerminal, BeginAttempt, history
  <2>3. CASE \/ EndRun(w) \/ LoadReminder(w) \/ SettingsFailure(w) \/ PlanChannels(w)
             \/ StopInLoop(w) \/ Recheck(w) \/ FinishAttempt(w) \/ Evaluate(w) \/ StartRun(w)
             \/ Commit(w) \/ Suppress(w) \/ Crash(w) \/ \E q \in Reminders : ClaimJob(w, q)
    BY <2>3 DEF EndRun, LoadReminder, SettingsFailure, PlanChannels, StopInLoop, Recheck,
       FinishAttempt, Evaluate, StartRun, Commit, Suppress, Crash, ClaimJob, history
  <2>. QED  BY <2>1, <2>2, <2>3, <2>4 DEF WorkerStep
<1>2. \A v \in Workers : v # w => wk'[v] = wk[v]
  BY PlainSteps, StoppingSteps, LostAnswerStands DEF WorkerStep
<1>3. ASSUME NEW v \in Workers, wk'[v].pc = "sending", wk'[v].r = r PROVE FALSE
  <2>1. CASE v = w
    BY <1>3, <2>1, CallsBegin DEF InCall
  <2>2. CASE v # w
    BY <1>2, <1>3, <2>2 DEF InCall
  <2>. QED  BY <2>1, <2>2
<1>. QED
  BY <1>1, <1>3 DEF InCall

LEMMA EveryStepIsSilent == ASSUME TypeInv, [Next]_vars PROVE NoNewCall
<1>1. CASE Tick \/ Request
  BY <1>1 DEF Tick, Request, CreateReminder, ImportReminder, PatchReminder, CloseReminder,
     ManualRetry, MarkFired, NoNewCall, InCall, history
<1>2. CASE \E w \in Workers : WorkerStep(w) \/ Crash(w)
  BY <1>2, WorkerIsSilent
<1>3. CASE UNCHANGED vars
  BY <1>3 DEF vars, NoNewCall, InCall
<1>. QED  BY <1>1, <1>2, <1>3 DEF Next

\* For any number of schedulers: once a reminder is closed or delivered and no
\* provider is being called for it, none is ever called again.
THEOREM NoCallAfterStop == Spec => StopIsSilent
<1>1. TypeInv /\ [Next]_vars =>
        [\A r \in Reminders :
           /\ rem[r].status \in ClosedStatus \/ rem[r].dstate = "delivered"
           /\ ~ InCall(r)
           => accepted'[r] = accepted[r] /\ ~ InCall(r)']_vars
  BY EveryStepIsSilent DEF NoNewCall, Over
<1>. QED  BY <1>1, TypeInvHolds, PTL DEF Spec, StopIsSilent

-----------------------------------------------------------------------------
(* What the providers were told: a delivered reminder was accepted on      *)
(* every channel its policy requires, and no channel accepts a reminder    *)
(* more often than leases were lost, plus once.  Both arguments follow a   *)
(* worker from its claim to the attempt it may still make, so they begin   *)
(* with what each step of a worker does to its copies.                     *)


\* What a worker carries from its claim to the end of its job.
SameHold(w) == wk'[w].r = wk[w].r /\ wk'[w].token = wk[w].token /\ wk'[w].policy = wk[w].policy
SameTry(w)  == wk'[w].ch = wk[w].ch /\ wk'[w].num = wk[w].num /\ wk'[w].todo = wk[w].todo

\* The worker has let go of its job.
LetGo(w) == wk'[w].pc \in {"idle", "claim"} /\ wk'[w].r = NoReminder

RowsOf(r, c) == {a \in attempts : a.rem = r /\ a.ch = c}

-----------------------------------------------------------------------------
(* The moves of a worker.                                                  *)

LEMMA MoveAway ==
  ASSUME TypeInv, NEW w \in Workers,
         AbortRun(w) \/ NextJob(w) \/ StartRun(w) \/ EndRun(w) \/ SettingsFailure(w)
         \/ Commit(w) \/ Crash(w)
  PROVE  LetGo(w)
<1>1. \A pc, now, left : /\ NotHolding(pc, now, left).pc = pc
                         /\ NotHolding(pc, now, left).r = NoReminder
  BY DEF NotHolding
<1>. QED
  BY <1>1 DEF LetGo, AbortRun, NextJob, StartRun, EndRun, SettingsFailure, Commit, Crash,
     TypeInv, TypeOK

LEMMA MoveClaim ==
  ASSUME TypeInv, NEW w \in Workers, NEW r \in Reminders, ClaimJob(w, r)
  PROVE  /\ wk[w].pc = "claim" /\ wk'[w].pc = "load" /\ wk'[w].r = r
         /\ wk'[w].policy = job[r].policy
         /\ job'[r].status = "leased" /\ job'[r].owner = w /\ job'[r].policy = job[r].policy
         /\ \A q \in Reminders : q # r => job'[q] = job[q]
<1>. DEFINE holding(t) == [NotHolding("load", wk[w].now, wk[w].left - 1) EXCEPT
                             !.r = r, !.token = t, !.window = job[r].window, !.cycle = job[r].cycle,
                             !.policy = job[r].policy, !.terminal = job[r].terminal]
            leased(t) == [job[r] EXCEPT !.status = "leased", !.owner = w, !.token = t,
                                        !.expires = wk[w].now + Lease]
<1>1. PICK t \in Tokens : /\ wk' = [wk EXCEPT ![w] = holding(t)]
                          /\ job' = [job EXCEPT ![r] = leased(t)]
  BY DEF ClaimJob
<1>2. holding(t).pc = "load" /\ holding(t).r = r /\ holding(t).policy = job[r].policy
  BY DEF NotHolding
<1>3. leased(t).status = "leased" /\ leased(t).owner = w /\ leased(t).policy = job[r].policy
  BY DEF TypeInv, TypeOK, JobRow
<1>. HIDE DEF holding, leased
<1>. QED  BY <1>1, <1>2, <1>3 DEF ClaimJob, TypeInv, TypeOK

LEMMA MoveLoad ==
  ASSUME TypeInv, NEW w \in Workers, LoadReminder(w)
  PROVE  /\ wk[w].pc = "load" /\ wk'[w].pc \in {"settings", "plan", "suppress"}
         /\ wk'[w].pc = "plan" => wk[w].policy # NoPolicy
         /\ SameHold(w) /\ SameTry(w)
<1>. DEFINE s == wk[w]
            next == IF s.policy = NoPolicy THEN "settings" ELSE "plan"
            going == [s EXCEPT !.version = rem[s.r].version, !.pc = next]
            stopping == [s EXCEPT !.pc = "suppress", !.verdict = SuppressAs(rem[s.r])]
<1>1. wk' = [wk EXCEPT ![w] = going] \/ wk' = [wk EXCEPT ![w] = stopping]
  BY DEF LoadReminder
<1>2. going.pc = next /\ stopping.pc = "suppress"
  BY DEF TypeInv, TypeOK, WorkerState
<1>3. /\ going.r = s.r /\ going.token = s.token /\ going.policy = s.policy
      /\ going.ch = s.ch /\ going.num = s.num /\ going.todo = s.todo
  BY DEF TypeInv, TypeOK, WorkerState
<1>4. /\ stopping.r = s.r /\ stopping.token = s.token /\ stopping.policy = s.policy
      /\ stopping.ch = s.ch /\ stopping.num = s.num /\ stopping.todo = s.todo
  BY DEF TypeInv, TypeOK, WorkerState
<1>. HIDE DEF going, stopping
<1>. QED  BY <1>1, <1>2, <1>3, <1>4 DEF LoadReminder, SameHold, SameTry, TypeInv, TypeOK

LEMMA MoveSettings ==
  ASSUME TypeInv, NEW w \in Workers, SnapshotPolicy(w)
  PROVE  \/ LetGo(w) /\ job' = job
         \/ /\ HoldsLease(w)
            /\ wk[w].pc = "settings" /\ wk'[w].pc = "plan"
            /\ wk'[w].r = wk[w].r /\ wk'[w].token = wk[w].token
            /\ wk'[w].policy \in Policy
            /\ \E p \in Policy : /\ wk'[w].policy = p
                                 /\ job' = [job EXCEPT ![wk[w].r].policy = p]
                                 /\ job[wk[w].r].policy \in {NoPolicy, p}
<1>. DEFINE s == wk[w]
            j == job[s.r]
            kept(p) == IF j.policy = NoPolicy THEN p ELSE j.policy
            holding(p) == [s EXCEPT !.pc = "plan", !.policy = p, !.window = j.window,
                                    !.cycle = j.cycle, !.terminal = j.terminal]
<1>1. CASE ~ HoldsLease(w)
  <2>1. AbortRun(w) /\ job' = job
    BY <1>1 DEF SnapshotPolicy
  <2>. QED  BY <2>1, MoveAway
<1>2. CASE HoldsLease(w)
  <2>1. PICK p \in Settings : /\ wk' = [wk EXCEPT ![w] = holding(kept(p))]
                              /\ job' = [job EXCEPT ![s.r].policy = kept(p)]
    BY <1>2 DEF SnapshotPolicy
  <2>2. j \in JobRow
    BY <1>2 DEF HoldsLease, TypeInv, TypeOK
  <2>3. kept(p) \in Policy /\ j.policy \in {NoPolicy, kept(p)}
    BY <2>2, DeliveryAssumption DEF JobRow
  <2>4. \A q : /\ holding(q).pc = "plan" /\ holding(q).r = s.r /\ holding(q).token = s.token
               /\ holding(q).policy = q
    BY DEF TypeInv, TypeOK, WorkerState
  <2>. HIDE DEF holding, kept
  <2>. QED  BY <1>2, <2>1, <2>3, <2>4 DEF SnapshotPolicy, TypeInv, TypeOK
<1>. QED  BY <1>1, <1>2

LEMMA MovePlan ==
  ASSUME TypeInv, NEW w \in Workers, PlanChannels(w)
  PROVE  /\ wk[w].pc = "plan" /\ SameHold(w)
         /\ \/ wk'[w].pc = "commit" /\ wk'[w].verdict = "failed"
            \/ wk'[w].pc = "loop" /\ \A c \in wk'[w].todo : ~ Succeeded(wk[w].r, c)
<1>. DEFINE s == wk[w]
            pending == {c \in RequiredChannels(s.policy) \cup OptionalChannels(s.policy) :
                          ~ Succeeded(s.r, c) /\ c \notin s.terminal}
            failing == [s EXCEPT !.pc = "commit", !.verdict = "failed"]
            looping(t) == [s EXCEPT !.pc = "loop", !.todo = t]
<1>1. wk' = [wk EXCEPT ![w] = failing] \/ wk' = [wk EXCEPT ![w] = looping(pending)]
  BY DEF PlanChannels
<1>2. /\ failing.pc = "commit" /\ failing.verdict = "failed" /\ failing.r = s.r
      /\ failing.token = s.token /\ failing.policy = s.policy
  BY DEF TypeInv, TypeOK, WorkerState
<1>3. \A t : /\ looping(t).pc = "loop" /\ looping(t).todo = t /\ looping(t).r = s.r
             /\ looping(t).token = s.token /\ looping(t).policy = s.policy
  BY DEF TypeInv, TypeOK, WorkerState
<1>4. \A c \in pending : ~ Succeeded(s.r, c)
  OBVIOUS
<1>. HIDE DEF failing, looping, pending
<1>. QED  BY <1>1, <1>2, <1>3, <1>4 DEF PlanChannels, SameHold, TypeInv, TypeOK

LEMMA RowsFinite ==
  ASSUME TypeInv, NEW r, NEW c
  PROVE  IsFiniteSet(RowsOf(r, c)) /\ Cardinality(RowsOf(r, c)) \in Nat
<1>1. IsFiniteSet(attempts) /\ RowsOf(r, c) \subseteq attempts
  BY DEF TypeInv, TypeOK, RowsOf
<1>2. IsFiniteSet(RowsOf(r, c))
  BY <1>1, FS_Subset
<1>. QED  BY <1>2, FS_CardinalityType

LEMMA MoveBegin ==
  ASSUME TypeInv, NEW w \in Workers, NEW c \in Channels, BeginAttempt(w, c)
  PROVE  /\ wk[w].pc = "loop" /\ c \in wk[w].todo /\ wk'[w].pc = "recheck"
         /\ SameHold(w) /\ wk'[w].ch = c /\ wk'[w].todo = wk[w].todo \ {c}
         /\ wk'[w].num = Cardinality(RowsOf(wk[w].r, c)) + 1
         /\ \E row \in AttemptRow :
              /\ row.rem = wk[w].r /\ row.ch = c /\ row.num = wk'[w].num /\ row.status = "started"
              /\ attempts' = attempts \cup {row}
         /\ \/ job' = job
            \/ \E k, t : job' = [job EXCEPT ![wk[w].r] = [@ EXCEPT !.cycle = k, !.window = t]]
<1>. DEFINE s == wk[w]
            rows == {a \in attempts : a.rem = s.r}
            cycle == IF job[s.r].cycle # 0 THEN job[s.r].cycle
                     ELSE Cardinality({a.cycle : a \in rows}) + 1
            num == Cardinality({a \in rows : a.ch = c}) + 1
            n == AttemptCount(s.r, c, cycle) + 1
            trying(k, m) == [s EXCEPT !.pc = "recheck", !.todo = s.todo \ {c}, !.ch = c, !.num = k,
                                      !.ordinal[c] = m]
<1>1. s.r \in Reminders /\ s.now \in Nat /\ job[s.r] \in JobRow
  BY DEF BeginAttempt, TypeInv, TypeOK, WorkerShape
<1>2. cycle \in Nat
  <2>1. Cardinality({a.cycle : a \in rows}) \in Nat
    BY CountsAreNat
  <2>2. job[s.r].cycle \in Nat
    BY <1>1 DEF JobRow
  <2>. HIDE DEF rows
  <2>. QED  BY <2>1, <2>2
<1>3. {a \in rows : a.ch = c} = RowsOf(s.r, c)
  BY DEF RowsOf
<1>. HIDE DEF cycle, num, n
<1>4. \A k, m : /\ trying(k, m).pc = "recheck" /\ trying(k, m).r = s.r
                /\ trying(k, m).token = s.token /\ trying(k, m).policy = s.policy
                /\ trying(k, m).ch = c /\ trying(k, m).num = k
                /\ trying(k, m).todo = s.todo \ {c}
  BY DEF TypeInv, TypeOK, WorkerState
<1>5. wk' = [wk EXCEPT ![w] = trying(num, n)]
  BY DEF BeginAttempt, cycle, num, n
<1>6. /\ attempts' = attempts \cup {[rem |-> s.r, ch |-> c, num |-> num, cycle |-> cycle,
                                     status |-> "started", at |-> s.now]}
      /\ job' = IF job[s.r].cycle # 0 THEN job
                ELSE [job EXCEPT ![s.r].cycle = cycle, ![s.r].window = s.now]
  BY DEF BeginAttempt, cycle, num
<1>7. \/ job' = job
      \/ job' = [job EXCEPT ![s.r] = [@ EXCEPT !.cycle = cycle, !.window = s.now]]
  BY <1>1, <1>6 DEF TypeInv, TypeOK
<1>. HIDE DEF trying
<1>8. /\ wk'[w].pc = "recheck" /\ SameHold(w) /\ wk'[w].ch = c /\ wk'[w].num = num
      /\ wk'[w].todo = s.todo \ {c}
  BY <1>4, <1>5 DEF SameHold, TypeInv, TypeOK
<1>9. num = Cardinality(RowsOf(s.r, c)) + 1
  BY <1>3 DEF num
<1>10. s.pc = "loop" /\ c \in s.todo
  BY DEF BeginAttempt
<1>11. PICK row : row = [rem |-> s.r, ch |-> c, num |-> num, cycle |-> cycle,
                         status |-> "started", at |-> s.now]
  OBVIOUS
<1>12. /\ row \in AttemptRow
       /\ row.rem = s.r /\ row.ch = c /\ row.num = num /\ row.status = "started"
  <2>1. num \in Nat
    BY <1>9, RowsFinite
  <2>. QED  BY <1>1, <1>2, <1>11, <2>1 DEF AttemptRow
<1>13. attempts' = attempts \cup {row}
  BY <1>6, <1>11
<1>. QED  BY <1>7, <1>8, <1>9, <1>10, <1>12, <1>13

LEMMA MoveStop ==
  ASSUME TypeInv, NEW w \in Workers, StopInLoop(w)
  PROVE  wk[w].pc = "loop" /\ wk'[w].pc = "suppress" /\ SameHold(w) /\ SameTry(w)
<1>. DEFINE s == wk[w]
            stopping == [s EXCEPT !.pc = "suppress", !.verdict = SuppressAs(rem[s.r])]
<1>1. wk' = [wk EXCEPT ![w] = stopping]
  BY DEF StopInLoop, TypeInv, TypeOK
<1>2. /\ stopping.pc = "suppress" /\ stopping.r = s.r /\ stopping.token = s.token
      /\ stopping.policy = s.policy
      /\ stopping.ch = s.ch /\ stopping.num = s.num /\ stopping.todo = s.todo
  BY DEF TypeInv, TypeOK, WorkerState
<1>. HIDE DEF stopping
<1>. QED  BY <1>1, <1>2 DEF StopInLoop, SameHold, SameTry, TypeInv, TypeOK

LEMMA MoveRecheck ==
  ASSUME TypeInv, NEW w \in Workers, Recheck(w)
  PROVE  /\ wk[w].pc = "recheck" /\ SameHold(w) /\ SameTry(w)
         /\ \/ wk'[w].pc = "suppressAttempt" /\ attempts' = Finished(w, "failed")
            \/ /\ wk'[w].pc = "finish" /\ wk'[w].outcome[wk[w].ch] = "permanent"
               /\ attempts' = attempts
            \/ wk'[w].pc = "sending" /\ attempts' = attempts
<1>. DEFINE s == wk[w]
            giving == [s EXCEPT !.pc = "suppressAttempt", !.outcome[s.ch] = "suppressed",
                                !.verdict = SuppressAs(rem[s.r])]
            forced == [s EXCEPT !.pc = "finish", !.outcome[s.ch] = "permanent"]
            calling == [s EXCEPT !.pc = "sending"]
<1>1. \/ wk' = [wk EXCEPT ![w] = giving] /\ attempts' = Finished(w, "failed")
      \/ wk' = [wk EXCEPT ![w] = forced] /\ attempts' = attempts
      \/ wk' = [wk EXCEPT ![w] = calling] /\ attempts' = attempts
  BY DEF Recheck
<1>2. /\ giving.pc = "suppressAttempt" /\ giving.r = s.r /\ giving.token = s.token
      /\ giving.policy = s.policy
      /\ giving.ch = s.ch /\ giving.num = s.num /\ giving.todo = s.todo
  BY DEF TypeInv, TypeOK, WorkerState
<1>3. /\ forced.pc = "finish" /\ forced.r = s.r /\ forced.token = s.token
      /\ forced.policy = s.policy
      /\ forced.ch = s.ch /\ forced.num = s.num /\ forced.todo = s.todo
      /\ forced.outcome[s.ch] = "permanent"
  BY DEF TypeInv, TypeOK, WorkerState
<1>4. /\ calling.pc = "sending" /\ calling.r = s.r /\ calling.token = s.token
      /\ calling.policy = s.policy
      /\ calling.ch = s.ch /\ calling.num = s.num /\ calling.todo = s.todo
  BY DEF TypeInv, TypeOK, WorkerState
<1>. HIDE DEF giving, forced, calling
<1>. QED  BY <1>1, <1>2, <1>3, <1>4 DEF Recheck, SameHold, SameTry, TypeInv, TypeOK

LEMMA MoveAnswer ==
  ASSUME TypeInv, NEW w \in Workers, NEW kind \in {"success", "retryable", "permanent"},
         ProviderAnswers(w, kind)
  PROVE  /\ wk[w].pc = "sending" /\ wk'[w].pc = "finish" /\ SameHold(w) /\ SameTry(w)
         /\ wk'[w].outcome[wk[w].ch] = kind
<1>. DEFINE s == wk[w]
            answered == [s EXCEPT !.pc = "finish", !.outcome[s.ch] = kind]
<1>1. wk' = [wk EXCEPT ![w] = answered]
  BY DEF ProviderAnswers
<1>2. /\ answered.pc = "finish" /\ answered.r = s.r /\ answered.token = s.token
      /\ answered.policy = s.policy
      /\ answered.ch = s.ch /\ answered.num = s.num /\ answered.todo = s.todo
      /\ answered.outcome[s.ch] = kind
  BY DEF TypeInv, TypeOK, WorkerState
<1>. HIDE DEF answered
<1>. QED  BY <1>1, <1>2 DEF ProviderAnswers, SameHold, SameTry, TypeInv, TypeOK

LEMMA MoveFinish ==
  ASSUME TypeInv, NEW w \in Workers, FinishAttempt(w)
  PROVE  /\ wk[w].pc = "finish" /\ wk'[w].pc \in {"record", "loop"} /\ SameHold(w) /\ SameTry(w)
         /\ attempts' = Finished(w, IF wk[w].outcome[wk[w].ch] = "success"
                                    THEN "succeeded" ELSE "failed")
<1>. DEFINE s == wk[w]
            going(pc) == [s EXCEPT !.pc = pc]
<1>1. PICK pc \in {"record", "loop"} : wk' = [wk EXCEPT ![w] = going(pc)]
  BY DEF FinishAttempt, Goto, TypeInv, TypeOK
<1>2. /\ going(pc).pc = pc /\ going(pc).r = s.r /\ going(pc).token = s.token
      /\ going(pc).policy = s.policy
      /\ going(pc).ch = s.ch /\ going(pc).num = s.num /\ going(pc).todo = s.todo
  BY DEF TypeInv, TypeOK, WorkerState
<1>. HIDE DEF going
<1>. QED  BY <1>1, <1>2 DEF FinishAttempt, SameHold, SameTry, TypeInv, TypeOK

LEMMA MoveRecord ==
  ASSUME TypeInv, NEW w \in Workers, RecordTerminal(w)
  PROVE  \/ LetGo(w) /\ job' = job
         \/ /\ wk[w].pc = "record" /\ wk'[w].pc = "loop" /\ SameHold(w) /\ SameTry(w)
            /\ \E t : job' = [job EXCEPT ![wk[w].r].terminal = t]
<1>. DEFINE s == wk[w]
            recorded == [s EXCEPT !.pc = "loop", !.terminal = s.terminal \cup {s.ch},
                                  !.window = job[s.r].window, !.cycle = job[s.r].cycle]
<1>1. CASE ~ HoldsLease(w)
  <2>1. AbortRun(w) /\ job' = job
    BY <1>1 DEF RecordTerminal
  <2>. QED  BY <2>1, MoveAway
<1>2. CASE HoldsLease(w)
  <2>1. wk' = [wk EXCEPT ![w] = recorded] /\ \E t : job' = [job EXCEPT ![s.r].terminal = t]
    BY <1>2 DEF RecordTerminal
  <2>2. /\ recorded.pc = "loop" /\ recorded.r = s.r /\ recorded.token = s.token
        /\ recorded.policy = s.policy
        /\ recorded.ch = s.ch /\ recorded.num = s.num /\ recorded.todo = s.todo
    BY DEF TypeInv, TypeOK, WorkerState
  <2>. HIDE DEF recorded
  <2>. QED  BY <2>1, <2>2 DEF RecordTerminal, SameHold, SameTry, TypeInv, TypeOK
<1>. QED  BY <1>1, <1>2

LEMMA MoveEvaluate ==
  ASSUME TypeInv, NEW w \in Workers, Evaluate(w)
  PROVE  /\ wk[w].pc = "loop" /\ wk[w].todo = {} /\ wk'[w].pc = "commit" /\ SameHold(w)
         /\ wk'[w].verdict = "delivered" =>
              \A c \in RequiredChannels(wk[w].policy) : Succeeded(wk[w].r, c)
<1>. DEFINE s == wk[w]
            missing == {c \in RequiredChannels(s.policy) : ~ Succeeded(s.r, c)}
            decided(verdict, at) == [s EXCEPT !.pc = "commit", !.version = rem[s.r].version,
                                              !.verdict = verdict, !.retryAt = at]
<1>1. \A verdict, at : /\ decided(verdict, at).pc = "commit" /\ decided(verdict, at).r = s.r
                       /\ decided(verdict, at).token = s.token
                       /\ decided(verdict, at).policy = s.policy
                       /\ decided(verdict, at).verdict = verdict
  BY DEF TypeInv, TypeOK, WorkerState
<1>2. \/ missing = {} /\ wk' = [wk EXCEPT ![w] = decided("delivered", None)]
      \/ wk' = [wk EXCEPT ![w] = decided("failed", None)]
      \/ \E at : wk' = [wk EXCEPT ![w] = decided(IF at = None THEN "failed" ELSE "retrying", at)]
  BY DEF Evaluate
<1>. HIDE DEF decided
<1>3. \E verdict, at : /\ wk' = [wk EXCEPT ![w] = decided(verdict, at)]
                       /\ verdict = "delivered" => missing = {}
  <2>1. \A at : (IF at = None THEN "failed" ELSE "retrying") # "delivered"
    OBVIOUS
  <2>. QED  BY <1>2, <2>1
<1>4. s.pc = "loop" /\ s.todo = {}
  BY DEF Evaluate
<1>. QED  BY <1>1, <1>3, <1>4 DEF SameHold, TypeInv, TypeOK

LEMMA MoveSuppress ==
  ASSUME TypeInv, NEW w \in Workers, Suppress(w)
  PROVE  \/ LetGo(w) /\ wk[w].pc = "suppress"
         \/ wk[w].pc = "suppressAttempt" /\ wk'[w].pc = "loop" /\ SameHold(w) /\ SameTry(w)
<1>. DEFINE s == wk[w]
            going == [s EXCEPT !.pc = "loop"]
<1>1. CASE s.pc = "suppress"
  BY <1>1, MoveAway DEF Suppress
<1>2. CASE s.pc = "suppressAttempt"
  <2>1. wk' = [wk EXCEPT ![w] = going]
    BY <1>2 DEF Suppress, Goto, TypeInv, TypeOK
  <2>2. /\ going.pc = "loop" /\ going.r = s.r /\ going.token = s.token
        /\ going.policy = s.policy
        /\ going.ch = s.ch /\ going.num = s.num /\ going.todo = s.todo
    BY DEF TypeInv, TypeOK, WorkerState
  <2>. HIDE DEF going
  <2>. QED  BY <1>2, <2>1, <2>2 DEF SameHold, SameTry, TypeInv, TypeOK
<1>. QED  BY <1>1, <1>2 DEF Suppress

-----------------------------------------------------------------------------
(* The attempt rows.  Every attempt has a row of its own, and the worker   *)
(* that makes it is the only one that finishes it.                         *)

Trying(w) == wk[w].pc \in {"recheck", "sending", "finish"}
OwnRow(w, a) == a.rem = wk[w].r /\ a.ch = wk[w].ch /\ a.num = wk[w].num /\ a.status = "started"

\* start_delivery_attempt counts the rows of the channel, so numbers repeat
\* only if a row is lost.
RowsUnique == \A a, b \in attempts : a.rem = b.rem /\ a.ch = b.ch /\ a.num = b.num => a = b
RowsCounted == \A a \in attempts : a.num <= Cardinality(RowsOf(a.rem, a.ch))
RowsHeld == \A w \in Workers : Trying(w) => \E a \in attempts : OwnRow(w, a)
RowsApart ==
  \A v, w \in Workers : Trying(v) /\ Trying(w) /\ v # w =>
    ~ (wk[v].r = wk[w].r /\ wk[v].ch = wk[w].ch /\ wk[v].num = wk[w].num)
TriesOnce == \A w \in Workers : wk[w].pc \in {"recheck", "sending"} => wk[w].ch \notin wk[w].todo

AttemptInv == RowsUnique /\ RowsCounted /\ RowsHeld /\ RowsApart /\ TriesOnce

\* finish_delivery_attempt, row by row.
LEMMA FinishedRows ==
  ASSUME TypeInv, NEW w \in Workers, NEW status \in {"succeeded", "failed"}
  PROVE  \E f \in [attempts -> AttemptRow] :
           /\ Finished(w, status) = {f[a] : a \in attempts}
           /\ \A a \in attempts : f[a].rem = a.rem /\ f[a].ch = a.ch /\ f[a].num = a.num
           /\ \A a \in attempts : f[a].cycle = a.cycle /\ f[a].at = a.at
           /\ \A a \in attempts : ~ OwnRow(w, a) => f[a] = a
           /\ \A a \in attempts : OwnRow(w, a) => f[a].status = status
<1>. DEFINE row(a) == IF OwnRow(w, a) THEN [a EXCEPT !.status = status] ELSE a
            f == [a \in attempts |-> row(a)]
<1>1. \A a \in attempts :
        /\ row(a) \in AttemptRow
        /\ row(a).rem = a.rem /\ row(a).ch = a.ch /\ row(a).num = a.num
        /\ row(a).cycle = a.cycle /\ row(a).at = a.at
        /\ OwnRow(w, a) => row(a).status = status
        /\ ~ OwnRow(w, a) => row(a) = a
  <2>. SUFFICES ASSUME NEW a \in attempts
                PROVE  /\ row(a) \in AttemptRow
                       /\ row(a).rem = a.rem /\ row(a).ch = a.ch /\ row(a).num = a.num
                       /\ row(a).cycle = a.cycle /\ row(a).at = a.at
                       /\ OwnRow(w, a) => row(a).status = status
                       /\ ~ OwnRow(w, a) => row(a) = a
    OBVIOUS
  <2>1. a \in AttemptRow
    BY DEF TypeInv, TypeOK
  <2>2. LET b == [a EXCEPT !.status = status]
        IN  /\ b \in AttemptRow /\ b.rem = a.rem /\ b.ch = a.ch /\ b.num = a.num
            /\ b.cycle = a.cycle /\ b.at = a.at /\ b.status = status
    BY <2>1 DEF AttemptRow
  <2>. QED  BY <2>1, <2>2
<1>2. Finished(w, status) = {row(a) : a \in attempts}
  BY DEF Finished, OwnRow
<1>. HIDE DEF row
<1>3. f \in [attempts -> AttemptRow] /\ Finished(w, status) = {f[a] : a \in attempts}
  BY <1>1, <1>2
<1>4. \A a \in attempts : f[a] = row(a)
  OBVIOUS
<1>. HIDE DEF f
<1>. QED  BY <1>1, <1>3, <1>4

\* Finishing an attempt neither merges rows nor renumbers them.
LEMMA FinishKeepsRows ==
  ASSUME TypeInv, RowsUnique, RowsCounted, NEW w \in Workers,
         NEW status \in {"succeeded", "failed"}, attempts' = Finished(w, status)
  PROVE  RowsUnique' /\ RowsCounted'
<1>1. PICK f \in [attempts -> AttemptRow] :
        /\ Finished(w, status) = {f[a] : a \in attempts}
        /\ \A a \in attempts : f[a].rem = a.rem /\ f[a].ch = a.ch /\ f[a].num = a.num
  BY FinishedRows
<1>2. attempts' = {f[a] : a \in attempts}
  BY <1>1
<1>3. RowsUnique'
  <2>. SUFFICES ASSUME NEW a \in attempts, NEW b \in attempts,
                       f[a].rem = f[b].rem, f[a].ch = f[b].ch, f[a].num = f[b].num
                PROVE  f[a] = f[b]
    BY <1>2 DEF RowsUnique
  <2>1. a = b
    BY <1>1 DEF RowsUnique
  <2>. QED  BY <2>1
<1>4. ASSUME NEW r, NEW c
      PROVE  Cardinality(RowsOf(r, c)') = Cardinality(RowsOf(r, c))
  <2>. DEFINE S == RowsOf(r, c)
              T == RowsOf(r, c)'
              g == [a \in S |-> f[a]]
  <2>1. \A a \in S : f[a] \in T
    BY <1>1, <1>2 DEF RowsOf
  <2>2. \A b \in T : \E a \in S : f[a] = b
    BY <1>1, <1>2 DEF RowsOf
  <2>3. \A a, b \in S : f[a] = f[b] => a = b
    BY <1>1 DEF RowsOf, RowsUnique
  <2>. HIDE DEF S, T
  <2>4. g \in Bijection(S, T)
    BY <2>1, <2>2, <2>3 DEF Bijection, Injection, Surjection, IsInjective
  <2>5. ExistsBijection(S, T)
    BY <2>4 DEF ExistsBijection
  <2>6. IsFiniteSet(S)
    BY RowsFinite DEF S
  <2>7. Cardinality(T) = Cardinality(S)
    BY <2>5, <2>6, FS_Bijection
  <2>. QED  BY <2>7 DEF S, T
<1>5. RowsCounted'
  <2>. SUFFICES ASSUME NEW a \in attempts
                PROVE  f[a].num <= Cardinality(RowsOf(f[a].rem, f[a].ch)')
    BY <1>2 DEF RowsCounted, RowsOf
  <2>1. a.num <= Cardinality(RowsOf(a.rem, a.ch))
    BY DEF RowsCounted
  <2>. QED  BY <1>1, <1>4, <2>1
<1>. QED  BY <1>3, <1>5

LEMMA OthersStand ==
  ASSUME TypeInv, NEW w \in Workers, WorkerStep(w) \/ Crash(w)
  PROVE  \A v \in Workers : v # w => wk'[v] = wk[v]
BY PlainSteps, StoppingSteps, LostAnswerStands DEF WorkerStep

\* A step that makes no row leaves its worker at the attempt it was at, or away
\* from it.
AtSameAttempt(w) ==
  /\ attempts' = attempts
  /\ Trying(w)' => Trying(w) /\ wk'[w].r = wk[w].r /\ SameTry(w)
  /\ wk'[w].pc \in {"recheck", "sending"} => wk[w].pc \in {"recheck", "sending"}

RowFinished(w) ==
  \/ attempts' = Finished(w, "failed")
  \/ /\ wk[w].pc = "finish" /\ wk[w].outcome[wk[w].ch] = "success"
     /\ attempts' = Finished(w, "succeeded")

LEMMA AttemptMoves ==
  ASSUME TypeInv, NEW w \in Workers, WorkerStep(w) \/ Crash(w)
  PROVE  \/ AtSameAttempt(w)
         \/ \E c \in Channels : BeginAttempt(w, c)
         \/ Trying(w) /\ ~ Trying(w)' /\ RowFinished(w)
<1>. USE DEF Trying, AtSameAttempt, RowFinished
<1>1. CASE StartRun(w) \/ EndRun(w) \/ SettingsFailure(w) \/ Commit(w) \/ Crash(w)
  <2>1. attempts' = attempts
    BY <1>1 DEF StartRun, EndRun, SettingsFailure, Commit, Crash
  <2>. QED  BY <1>1, <2>1, MoveAway DEF LetGo
<1>2. CASE \E r \in Reminders : ClaimJob(w, r)
  BY <1>2, MoveClaim DEF ClaimJob
<1>3. CASE LoadReminder(w) \/ SnapshotPolicy(w) \/ PlanChannels(w) \/ StopInLoop(w)
  <2>1. attempts' = attempts
    BY <1>3 DEF LoadReminder, SnapshotPolicy, PlanChannels, StopInLoop
  <2>2. wk'[w].pc \notin {"recheck", "sending", "finish"}
    BY <1>3, MoveLoad, MoveSettings, MovePlan, MoveStop DEF LetGo
  <2>. QED  BY <2>1, <2>2
<1>4. CASE Recheck(w)
  BY <1>4, MoveRecheck DEF SameHold
<1>5. CASE \E kind \in {"success", "retryable", "permanent"} : ProviderAnswers(w, kind)
  <2>1. attempts' = attempts
    BY <1>5 DEF ProviderAnswers
  <2>. QED  BY <1>5, <2>1, MoveAnswer DEF SameHold
<1>6. CASE FinishAttempt(w)
  BY <1>6, MoveFinish
<1>7. CASE RecordTerminal(w) \/ Evaluate(w) \/ Suppress(w)
  <2>1. attempts' = attempts
    BY <1>7 DEF RecordTerminal, Evaluate, Suppress, history
  <2>2. wk'[w].pc \notin {"recheck", "sending", "finish"}
    BY <1>7, MoveRecord, MoveEvaluate, MoveSuppress DEF LetGo
  <2>. QED  BY <2>1, <2>2
<1>8. CASE AnswerLost(w)
  BY <1>8, LostAnswerStands DEF OwnRow, SameTry
<1>. QED  BY <1>1, <1>2, <1>3, <1>4, <1>5, <1>6, <1>7, <1>8 DEF WorkerStep

LEMMA BeginKeepsRows ==
  ASSUME TypeInv, AttemptInv, NEW w \in Workers, NEW c \in Channels, BeginAttempt(w, c)
  PROVE  AttemptInv'
<1>0. PICK r : wk[w].r = r
  OBVIOUS
<1>. DEFINE n == Cardinality(RowsOf(r, c))
<1>1. /\ wk'[w].pc = "recheck" /\ wk'[w].r = r /\ wk'[w].ch = c /\ wk'[w].num = n + 1
      /\ wk'[w].todo = wk[w].todo \ {c}
  BY <1>0, MoveBegin DEF SameHold
<1>2. PICK row : /\ row.rem = r /\ row.ch = c /\ row.num = n + 1 /\ row.status = "started"
                 /\ attempts' = attempts \cup {row}
  <2>1. \E row \in AttemptRow :
          /\ row.rem = wk[w].r /\ row.ch = c /\ row.num = wk'[w].num /\ row.status = "started"
          /\ attempts' = attempts \cup {row}
    BY MoveBegin
  <2>2. PICK row \in AttemptRow :
          /\ row.rem = wk[w].r /\ row.ch = c /\ row.num = wk'[w].num /\ row.status = "started"
          /\ attempts' = attempts \cup {row}
    BY <2>1
  <2>. QED  BY <1>0, <1>1, <2>2
<1>3. n \in Nat /\ IsFiniteSet(RowsOf(r, c))
  BY RowsFinite
<1>4. \A a \in attempts : a.rem = r /\ a.ch = c => a.num <= n
  BY DEF AttemptInv, RowsCounted
<1>5. \A a \in attempts : a.num \in Nat
  BY DEF TypeInv, TypeOK, AttemptRow
<1>. HIDE DEF n
<1>6. \A a \in attempts : a.rem = r /\ a.ch = c => a.num # n + 1
  BY <1>3, <1>4, <1>5
<1>7. RowsUnique'
  BY <1>2, <1>6 DEF AttemptInv, RowsUnique
<1>8. RowsCounted'
  <2>1. \A q, d : ~ (q = r /\ d = c) => RowsOf(q, d)' = RowsOf(q, d)
    BY <1>2 DEF RowsOf
  <2>2. RowsOf(r, c)' = RowsOf(r, c) \cup {row}
    BY <1>2 DEF RowsOf
  <2>6. row \notin RowsOf(r, c)
    BY <1>2, <1>6 DEF RowsOf
  <2>3. Cardinality(RowsOf(r, c)') = n + 1
    BY <1>3, <2>2, <2>6, FS_AddElement DEF n
  <2>. SUFFICES ASSUME NEW a \in attempts'
                PROVE  a.num <= Cardinality(RowsOf(a.rem, a.ch)')
    BY DEF RowsCounted, RowsOf
  <2>4. CASE a.rem = r /\ a.ch = c
    <3>1. a.num <= n + 1
      BY <1>2, <1>3, <1>4, <1>5, <2>4
    <3>. QED  BY <2>3, <2>4, <3>1
  <2>5. CASE ~ (a.rem = r /\ a.ch = c)
    <3>1. a \in attempts
      BY <1>2, <2>5
    <3>. QED  BY <2>1, <2>5, <3>1 DEF AttemptInv, RowsCounted
  <2>. QED  BY <2>4, <2>5
<1>9. \A v \in Workers : v # w => wk'[v] = wk[v]
  BY OthersStand DEF WorkerStep
<1>10. RowsHeld'
  <2>. SUFFICES ASSUME NEW v \in Workers, Trying(v)'
                PROVE  \E a \in attempts' : OwnRow(v, a)'
    BY DEF RowsHeld
  <2>1. CASE v = w
    BY <1>1, <1>2, <2>1 DEF OwnRow
  <2>2. CASE v # w
    <3>1. PICK a \in attempts : OwnRow(v, a)
      BY <1>9, <2>2 DEF AttemptInv, RowsHeld, Trying
    <3>. QED  BY <1>2, <1>9, <2>2, <3>1 DEF OwnRow
  <2>. QED  BY <2>1, <2>2
<1>11. ASSUME NEW v \in Workers, v # w, Trying(v)
       PROVE  ~ (wk[v].r = r /\ wk[v].ch = c /\ wk[v].num = n + 1)
  <2>1. PICK a \in attempts : OwnRow(v, a)
    BY <1>11 DEF AttemptInv, RowsHeld
  <2>. QED  BY <1>6, <2>1 DEF OwnRow
<1>12. RowsApart'
  <2>. SUFFICES ASSUME NEW u \in Workers, NEW v \in Workers, Trying(u)', Trying(v)', u # v
                PROVE  ~ (wk'[u].r = wk'[v].r /\ wk'[u].ch = wk'[v].ch /\ wk'[u].num = wk'[v].num)
    BY DEF RowsApart
  <2>1. CASE u = w
    BY <1>1, <1>9, <1>11, <2>1 DEF Trying
  <2>2. CASE v = w
    BY <1>1, <1>9, <1>11, <2>2 DEF Trying
  <2>3. CASE u # w /\ v # w
    BY <1>9, <2>3 DEF AttemptInv, RowsApart, Trying
  <2>. QED  BY <2>1, <2>2, <2>3
<1>13. TriesOnce'
  BY <1>1, <1>9 DEF AttemptInv, TriesOnce
<1>. QED  BY <1>7, <1>8, <1>10, <1>12, <1>13 DEF AttemptInv

LEMMA AttemptStep == ASSUME TypeInv, AttemptInv, [Next]_vars PROVE AttemptInv'
<1>1. CASE wk' = wk /\ attempts' = attempts
  BY <1>1 DEF AttemptInv, RowsUnique, RowsCounted, RowsHeld, RowsApart, TriesOnce, Trying, OwnRow,
     RowsOf
<1>2. CASE Tick \/ Request \/ UNCHANGED vars
  BY <1>1, <1>2 DEF Tick, Request, CreateReminder, ImportReminder, PatchReminder, CloseReminder,
     ManualRetry, MarkFired, vars
<1>3. ASSUME NEW w \in Workers, WorkerStep(w) \/ Crash(w)
      PROVE  AttemptInv'
  <2>1. \A v \in Workers : v # w => wk'[v] = wk[v]
    BY <1>3, OthersStand
  <2>2. CASE AtSameAttempt(w)
    <3>1. RowsUnique' /\ RowsCounted'
      BY <2>2 DEF AtSameAttempt, AttemptInv, RowsUnique, RowsCounted, RowsOf
    <3>2. \A v \in Workers : Trying(v)' =>
            /\ Trying(v)
            /\ wk'[v].r = wk[v].r /\ wk'[v].ch = wk[v].ch /\ wk'[v].num = wk[v].num
      BY <2>1, <2>2 DEF AtSameAttempt, SameTry, Trying
    <3>3. RowsHeld' /\ RowsApart'
      BY <2>2, <3>2 DEF AtSameAttempt, AttemptInv, RowsHeld, RowsApart, OwnRow
    <3>4. TriesOnce'
      <4>. SUFFICES ASSUME NEW v \in Workers, wk'[v].pc \in {"recheck", "sending"}
                    PROVE  wk'[v].ch \notin wk'[v].todo
        BY DEF TriesOnce
      <4>1. CASE v = w
        BY <2>2, <4>1 DEF AtSameAttempt, AttemptInv, TriesOnce, SameTry, Trying
      <4>2. CASE v # w
        BY <2>1, <4>2 DEF AttemptInv, TriesOnce
      <4>. QED  BY <4>1, <4>2
    <3>. QED  BY <3>1, <3>3, <3>4 DEF AttemptInv
  <2>3. CASE \E c \in Channels : BeginAttempt(w, c)
    BY <2>3, BeginKeepsRows
  <2>4. CASE Trying(w) /\ ~ Trying(w)' /\ RowFinished(w)
    <3>1. PICK status \in {"succeeded", "failed"} : attempts' = Finished(w, status)
      BY <2>4 DEF RowFinished
    <3>2. RowsUnique' /\ RowsCounted'
      BY <3>1, FinishKeepsRows DEF AttemptInv
    <3>3. RowsHeld'
      <4>. SUFFICES ASSUME NEW v \in Workers, Trying(v)'
                    PROVE  \E a \in attempts' : OwnRow(v, a)'
        BY DEF RowsHeld
      <4>1. v # w /\ wk'[v] = wk[v] /\ Trying(v)
        BY <2>1, <2>4 DEF Trying
      <4>2. PICK a \in attempts : OwnRow(v, a)
        BY <4>1 DEF AttemptInv, RowsHeld
      <4>3. ~ OwnRow(w, a)
        BY <2>4, <4>1, <4>2 DEF AttemptInv, RowsApart, OwnRow
      <4>4. a \in attempts'
        BY <3>1, <4>3, FinishedRows
      <4>. QED  BY <4>1, <4>2, <4>4 DEF OwnRow
    <3>4. RowsApart' /\ TriesOnce'
      <4>1. \A v \in Workers : Trying(v)' => v # w /\ wk'[v] = wk[v] /\ Trying(v)
        BY <2>1, <2>4 DEF Trying
      <4>2. \A v \in Workers : wk'[v].pc \in {"recheck", "sending"} => Trying(v)'
        BY DEF Trying
      <4>. QED  BY <4>1, <4>2 DEF AttemptInv, RowsApart, TriesOnce
    <3>. QED  BY <3>2, <3>3, <3>4 DEF AttemptInv
  <2>. QED  BY <1>3, <2>2, <2>3, <2>4, AttemptMoves
<1>. QED  BY <1>2, <1>3 DEF Next

LEMMA AttemptInit == Init => AttemptInv
  BY DEF Init, AttemptInv, RowsUnique, RowsCounted, RowsHeld, RowsApart, TriesOnce, Trying, NotHolding

-----------------------------------------------------------------------------
(* Leases and holds.                                                       *)

LEMMA RequestsLeaveWorkers ==
  ASSUME Tick \/ Request \/ UNCHANGED vars
  PROVE  wk' = wk /\ accepted' = accepted /\ lostLeases' = lostLeases /\ attempts' = attempts
BY DEF Tick, Request, CreateReminder, ImportReminder, PatchReminder, CloseReminder,
   ManualRetry, MarkFired, vars, history

LEMMA HoldKept ==
  ASSUME TypeInv, [Next]_vars, NEW w \in Workers, wk'[w].r \in Reminders,
         \A r \in Reminders : ~ ClaimJob(w, r)
  PROVE  /\ wk'[w].r = wk[w].r /\ wk'[w].token = wk[w].token
         /\ wk'[w].policy = wk[w].policy \/ SnapshotPolicy(w)
<1>0. ~ LetGo(w)
  BY DeliveryAssumption DEF LetGo
<1>1. CASE Tick \/ Request \/ UNCHANGED vars
  BY <1>1, RequestsLeaveWorkers
<1>2. ASSUME NEW v \in Workers, WorkerStep(v) \/ Crash(v), v # w
      PROVE  wk'[w] = wk[w]
  BY <1>2, OthersStand
<1>3. CASE WorkerStep(w) \/ Crash(w)
  <2>. USE DEF SameHold
  <2>1. ~ (StartRun(w) \/ EndRun(w) \/ SettingsFailure(w) \/ Commit(w) \/ Crash(w))
    BY <1>0, MoveAway
  <2>2. CASE LoadReminder(w) \/ PlanChannels(w) \/ StopInLoop(w)
    BY <2>2, MoveLoad, MovePlan, MoveStop
  <2>3. CASE SnapshotPolicy(w)
    BY <1>0, <2>3, MoveSettings
  <2>4. CASE Recheck(w) \/ FinishAttempt(w) \/ Evaluate(w)
    BY <2>4, MoveRecheck, MoveFinish, MoveEvaluate
  <2>5. CASE RecordTerminal(w) \/ Suppress(w)
    BY <1>0, <2>5, MoveRecord, MoveSuppress
  <2>6. CASE \E c \in Channels : BeginAttempt(w, c)
    BY <2>6, MoveBegin
  <2>7. CASE \E kind \in {"success", "retryable", "permanent"} : ProviderAnswers(w, kind)
    BY <2>7, MoveAnswer
  <2>8. CASE AnswerLost(w)
    BY <2>8, LostAnswerStands
  <2>. QED  BY <1>3, <2>1, <2>2, <2>3, <2>4, <2>5, <2>6, <2>7, <2>8 DEF WorkerStep
<1>. QED  BY <1>1, <1>2, <1>3 DEF Next

\* Who has a lease it did not just claim had it before.
LEMMA LeaseKept ==
  ASSUME TypeInv, [Next]_vars, NEW w \in Workers, HoldsLease(w)',
         \A r \in Reminders : ~ ClaimJob(w, r)
  PROVE  HoldsLease(w) /\ wk'[w].r = wk[w].r
<1>1. PICK r \in Reminders : /\ wk'[w].r = r /\ job'[r].status = "leased" /\ job'[r].owner = w
                             /\ job'[r].token = wk'[w].token
  BY DEF HoldsLease
<1>2. wk[w].r = r /\ wk'[w].token = wk[w].token
  BY <1>1, HoldKept
<1>3. \A v \in Workers : ~ ClaimJob(v, r)
  <2>. SUFFICES ASSUME NEW v \in Workers, ClaimJob(v, r) PROVE FALSE
    OBVIOUS
  <2>. QED  BY <1>1, MoveClaim
<1>4. SameLease(job'[r], job[r])
  <2>1. CASE Next
    BY <1>1, <1>3, <2>1, LeaseOrigin
  <2>2. CASE UNCHANGED vars
    BY <2>2 DEF vars, SameLease
  <2>. QED  BY <2>1, <2>2
<1>. QED  BY <1>1, <1>2, <1>4 DEF HoldsLease, SameLease

-----------------------------------------------------------------------------
(* Successes and acceptances only accumulate.                              *)

LEMMA SuccessIsKept ==
  ASSUME TypeInv, [Next]_vars, NEW r, NEW c, Succeeded(r, c)
  PROVE  Succeeded(r, c)'
<1>1. PICK a \in attempts : a.rem = r /\ a.ch = c /\ a.status = "succeeded"
  BY DEF Succeeded
<1>2. a \in attempts'
  <2>1. CASE attempts' = attempts
    BY <2>1
  <2>2. ASSUME NEW w \in Workers, WorkerStep(w) \/ Crash(w)
        PROVE  a \in attempts'
    <3>1. CASE AtSameAttempt(w)
      BY <3>1 DEF AtSameAttempt
    <3>2. CASE \E d \in Channels : BeginAttempt(w, d)
      BY <3>2 DEF BeginAttempt
    <3>3. CASE RowFinished(w)
      <4>1. PICK status \in {"succeeded", "failed"} : attempts' = Finished(w, status)
        BY <3>3 DEF RowFinished
      <4>2. ~ OwnRow(w, a)
        BY <1>1 DEF OwnRow
      <4>. QED  BY <4>1, <4>2, FinishedRows
    <3>. QED  BY <2>2, <3>1, <3>2, <3>3, AttemptMoves
  <2>3. CASE Tick \/ Request \/ UNCHANGED vars
    BY <2>3 DEF Tick, Request, CreateReminder, ImportReminder, PatchReminder, CloseReminder,
       ManualRetry, MarkFired, vars
  <2>. QED  BY <2>2, <2>3 DEF Next
<1>. QED  BY <1>1, <1>2 DEF Succeeded

\* A success is recorded only by the worker that heard it.
LEMMA SuccessOrigin ==
  ASSUME TypeInv, [Next]_vars, NEW r, NEW c, Succeeded(r, c)', ~ Succeeded(r, c)
  PROVE  \E w \in Workers : /\ wk[w].pc = "finish" /\ wk[w].r = r /\ wk[w].ch = c
                            /\ wk[w].outcome[c] = "success"
<1>1. PICK b \in attempts' : b.rem = r /\ b.ch = c /\ b.status = "succeeded"
  BY DEF Succeeded
<1>2. b \notin attempts
  BY <1>1 DEF Succeeded
<1>3. ASSUME Tick \/ Request \/ UNCHANGED vars PROVE FALSE
  BY <1>2, <1>3 DEF Tick, Request, CreateReminder, ImportReminder, PatchReminder, CloseReminder,
     ManualRetry, MarkFired, vars
<1>4. PICK w \in Workers : WorkerStep(w) \/ Crash(w)
  BY <1>3 DEF Next
<1>5. ASSUME NEW status \in {"succeeded", "failed"}, attempts' = Finished(w, status)
      PROVE  wk[w].r = r /\ wk[w].ch = c /\ status = "succeeded"
  <2>1. PICK f \in [attempts -> AttemptRow] :
           /\ Finished(w, status) = {f[a] : a \in attempts}
           /\ \A a \in attempts : f[a].rem = a.rem /\ f[a].ch = a.ch /\ f[a].num = a.num
           /\ \A a \in attempts : ~ OwnRow(w, a) => f[a] = a
           /\ \A a \in attempts : OwnRow(w, a) => f[a].status = status
    BY FinishedRows
  <2>2. PICK a \in attempts : f[a] = b
    BY <1>5, <2>1
  <2>3. OwnRow(w, a)
    BY <1>2, <2>1, <2>2
  <2>. QED  BY <1>1, <2>1, <2>2, <2>3 DEF OwnRow
<1>6. ~ AtSameAttempt(w)
  BY <1>2 DEF AtSameAttempt
<1>7. ASSUME NEW d \in Channels, BeginAttempt(w, d) PROVE FALSE
  <2>1. \E row \in AttemptRow :
          /\ row.rem = wk[w].r /\ row.ch = d /\ row.num = wk'[w].num /\ row.status = "started"
          /\ attempts' = attempts \cup {row}
    BY <1>7, MoveBegin
  <2>. QED  BY <1>1, <1>2, <2>1
<1>8. RowFinished(w)
  BY <1>4, <1>6, <1>7, AttemptMoves
<1>. QED  BY <1>5, <1>8 DEF RowFinished

\* What the bot heard of the acceptances.
Heard(r, c) == accepted[r][c] - unheard[r][c]

LEMMA AcceptedMoves ==
  ASSUME TypeInv, [Next]_vars
  PROVE  \/ accepted' = accepted /\ unheard' = unheard
         \/ \E w \in Workers : AnswerLost(w)
         \/ \E w \in Workers, kind \in {"success", "retryable", "permanent"} :
              ProviderAnswers(w, kind)
<1>1. ASSUME NEW w \in Workers, WorkerStep(w) \/ Crash(w), ~ AnswerLost(w),
             \A kind \in {"success", "retryable", "permanent"} : ~ ProviderAnswers(w, kind)
      PROVE  accepted' = accepted /\ unheard' = unheard
  <2>1. CASE SnapshotPolicy(w) \/ RecordTerminal(w) \/ \E c \in Channels : BeginAttempt(w, c)
    BY <2>1 DEF SnapshotPolicy, RecordTerminal, BeginAttempt, history
  <2>2. CASE \/ EndRun(w) \/ LoadReminder(w) \/ SettingsFailure(w) \/ PlanChannels(w)
             \/ StopInLoop(w) \/ Recheck(w) \/ FinishAttempt(w) \/ Evaluate(w) \/ StartRun(w)
             \/ Commit(w) \/ Suppress(w) \/ Crash(w) \/ \E q \in Reminders : ClaimJob(w, q)
    BY <2>2 DEF EndRun, LoadReminder, SettingsFailure, PlanChannels, StopInLoop, Recheck,
       FinishAttempt, Evaluate, StartRun, Commit, Suppress, Crash, ClaimJob, history
  <2>. QED  BY <1>1, <2>1, <2>2 DEF WorkerStep
<1>2. CASE Tick \/ Request \/ UNCHANGED vars
  BY <1>2 DEF Tick, Request, CreateReminder, ImportReminder, PatchReminder, CloseReminder,
     ManualRetry, MarkFired, vars, history
<1>. QED  BY <1>1, <1>2 DEF Next

LEMMA AnswerCounts ==
  ASSUME TypeInv, NEW w \in Workers, NEW kind \in {"success", "retryable", "permanent"},
         ProviderAnswers(w, kind), NEW r \in Reminders, NEW c \in Channels
  PROVE  /\ accepted'[r][c] = IF kind = "success" /\ wk[w].r = r /\ wk[w].ch = c
                              THEN accepted[r][c] + 1 ELSE accepted[r][c]
         /\ unheard' = unheard
<1>1. wk[w].r \in Reminders /\ wk[w].ch \in Channels
  BY DEF ProviderAnswers, TypeInv, TypeOK, WorkerShape, WorkerState
<1>. QED  BY <1>1 DEF ProviderAnswers, TypeInv, TypeOK

LEMMA LostAnswerCounts ==
  ASSUME TypeInv, NEW w \in Workers, AnswerLost(w), NEW r \in Reminders, NEW c \in Channels
  PROVE  \/ accepted'[r][c] = accepted[r][c] /\ unheard'[r][c] = unheard[r][c]
         \/ accepted'[r][c] = accepted[r][c] + 1 /\ unheard'[r][c] = unheard[r][c] + 1
<1>1. wk[w].r \in Reminders /\ wk[w].ch \in Channels
  BY DEF AnswerLost, TypeInv, TypeOK, WorkerShape, WorkerState
<1>2. CASE wk[w].r = r /\ wk[w].ch = c
  BY <1>1, <1>2 DEF AnswerLost, TypeInv, TypeOK
<1>3. CASE ~ (wk[w].r = r /\ wk[w].ch = c)
  BY <1>1, <1>3 DEF AnswerLost, TypeInv, TypeOK
<1>. QED  BY <1>2, <1>3

LEMMA AcceptedGrows ==
  ASSUME TypeInv, [Next]_vars, NEW r \in Reminders, NEW c \in Channels
  PROVE  accepted'[r][c] >= accepted[r][c]
<1>1. accepted[r][c] \in Nat
  BY DEF TypeInv, TypeOK
<1>. QED  BY <1>1, AcceptedMoves, AnswerCounts, LostAnswerCounts

LEMMA HeardMoves ==
  ASSUME TypeInv, [Next]_vars, NEW r \in Reminders, NEW c \in Channels
  PROVE  /\ Heard(r, c) \in Int /\ Heard(r, c)' \in Int
         /\ \/ Heard(r, c)' = Heard(r, c)
            \/ /\ Heard(r, c)' = Heard(r, c) + 1
               /\ \E w \in Workers :
                    /\ wk[w].r = r /\ wk[w].ch = c /\ ProviderAnswers(w, "success")
<1>1. /\ accepted[r][c] \in Nat /\ unheard[r][c] \in Nat
      /\ accepted'[r][c] \in Nat /\ unheard'[r][c] \in Nat
  BY TypeStep DEF TypeInv, TypeOK
<1>2. Heard(r, c) = accepted[r][c] - unheard[r][c] /\ Heard(r, c)' = accepted'[r][c] - unheard'[r][c]
  BY DEF Heard
<1>3. ASSUME NEW w \in Workers, NEW kind \in {"success", "retryable", "permanent"},
             ProviderAnswers(w, kind)
      PROVE  \/ Heard(r, c)' = Heard(r, c)
             \/ /\ Heard(r, c)' = Heard(r, c) + 1
                /\ wk[w].r = r /\ wk[w].ch = c /\ ProviderAnswers(w, "success")
  <2>1. CASE kind = "success" /\ wk[w].r = r /\ wk[w].ch = c
    <3>1. accepted'[r][c] = accepted[r][c] + 1 /\ unheard' = unheard
      BY <1>3, <2>1, AnswerCounts
    <3>. QED  BY <1>1, <1>2, <1>3, <2>1, <3>1
  <2>2. CASE ~ (kind = "success" /\ wk[w].r = r /\ wk[w].ch = c)
    <3>1. accepted'[r][c] = accepted[r][c] /\ unheard' = unheard
      BY <1>3, <2>2, AnswerCounts
    <3>. QED  BY <1>2, <3>1
  <2>. QED  BY <2>1, <2>2
<1>4. ASSUME NEW w \in Workers, AnswerLost(w) PROVE Heard(r, c)' = Heard(r, c)
  BY <1>1, <1>2, <1>4, LostAnswerCounts
<1>5. CASE accepted' = accepted /\ unheard' = unheard
  BY <1>1, <1>2, <1>5
<1>. QED  BY <1>1, <1>2, <1>3, <1>4, <1>5, AcceptedMoves

-----------------------------------------------------------------------------
(* The policy of a delivery cycle.  Whoever has the lease works with the   *)
(* policy in the job, and nothing replaces that one but a manual retry.    *)

LEMMA PolicyAfter ==
  ASSUME NEW j \in JobRow, NEW x, NEW y
  PROVE  /\ [Unleased(j) EXCEPT !.status = x].policy = j.policy
         /\ [Unleased(j) EXCEPT !.status = x, !.avail = y].policy = j.policy
         /\ [j EXCEPT !.terminal = x].policy = j.policy
         /\ [j EXCEPT !.cycle = x, !.window = y].policy = j.policy
         /\ CancelledJob(j).policy = j.policy
         /\ QueuedJob(x).status = "queued"
  BY DEF Unleased, JobRow, CancelledJob, QueuedJob, NoJob

LEMMA PolicyAfterReconcile ==
  ASSUME NEW x \in ReminderRow, NEW j \in JobRow, NEW now \in Nat
  PROVE  LET k == ReconciledJob(x, j, now) IN k.policy = j.policy \/ k.status = "queued"
<1>. DEFINE queued == [Unleased(j) EXCEPT !.status = "queued", !.avail = AvailableAt(x, now)]
<1>1. queued.status = "queued" /\ [queued EXCEPT !.window = None, !.cycle = 0].status = "queued"
  BY DEF Unleased, JobRow
<1>2. QueuedJob(AvailableAt(x, now)).status = "queued"
  BY DEF QueuedJob, NoJob
<1>3. TerminalJob(x, j, now).policy = j.policy
  BY DEF TerminalJob, Unleased, JobRow
<1>. HIDE DEF queued
<1>. QED  BY <1>1, <1>2, <1>3 DEF ReconciledJob, queued

LEMMA PolicyMoves ==
  ASSUME TypeInv, [Next]_vars, NEW r \in Reminders, job'[r].policy # job[r].policy
  PROVE  \/ job'[r].status = "queued"
         \/ \E w \in Workers :
              /\ SnapshotPolicy(w) /\ HoldsLease(w) /\ wk[w].r = r
              /\ job[r].policy = NoPolicy /\ wk'[w].policy = job'[r].policy
<1>. rem \in [Reminders -> ReminderRow] /\ job \in [Reminders -> JobRow] /\ clock \in Nat
  BY DEF TypeInv, TypeOK
<1>1. ASSUME NEW q, NEW k, job' = [job EXCEPT ![q] = k]
      PROVE  k.policy = job[q].policy \/ k.status = "queued" => job'[r].status = "queued"
  BY <1>1
<1>2. CASE Tick \/ UNCHANGED vars \/ \E w \in Workers : Crash(w)
  BY <1>2 DEF Tick, vars, Crash
<1>3. CASE Request
  <2>1. PICK q \in Reminders :
          \/ \E due \in Dues : \/ CreateReminder(q, due) \/ ImportReminder(q, due)
                              \/ PatchReminder(q, due)
          \/ \E status \in ClosedStatus : CloseReminder(q, status)
          \/ ManualRetry(q) \/ MarkFired(q)
    BY <1>3 DEF Request
  <2>2. \/ job' = job
        \/ \E due : job' = [job EXCEPT ![q] = QueuedJob(due)]
        \/ job' = [job EXCEPT ![q] = CancelledJob(job[q])]
    BY <2>1 DEF CreateReminder, ImportReminder, PatchReminder, CloseReminder, ManualRetry, MarkFired
  <2>. QED  BY <1>1, <2>2, PolicyAfter
<1>4. ASSUME NEW w \in Workers, WorkerStep(w)
      PROVE  \/ job'[r].status = "queued"
             \/ /\ SnapshotPolicy(w) /\ HoldsLease(w) /\ wk[w].r = r
                /\ job[r].policy = NoPolicy /\ wk'[w].policy = job'[r].policy
  <2>. DEFINE s == wk[w]
              j == job[s.r]
  <2>1. CASE StartRun(w)
    <3>1. job'[r] = job[r] \/ job'[r] = ReconciledJob(ReconciledReminder(rem[r], clock), job[r], clock)
      BY <2>1 DEF StartRun
    <3>2. ReconciledReminder(rem[r], clock) \in ReminderRow
      BY ReconciledReminderType
    <3>. QED  BY <3>1, <3>2, PolicyAfterReconcile
  <2>2. CASE \E q \in Reminders : ClaimJob(w, q)
    BY <2>2, MoveClaim
  <2>3. CASE SnapshotPolicy(w)
    <3>1. PICK p \in Policy : /\ wk'[w].policy = p /\ HoldsLease(w)
                              /\ job' = [job EXCEPT ![s.r].policy = p]
                              /\ job[s.r].policy \in {NoPolicy, p}
      BY <2>3, MoveSettings
    <3>2. s.r \in Reminders /\ [j EXCEPT !.policy = p].policy = p
      BY <3>1 DEF HoldsLease, JobRow
    <3>. QED  BY <2>3, <3>1, <3>2
  <2>4. CASE RecordTerminal(w) \/ Commit(w) \/ Suppress(w) \/ \E c \in Channels : BeginAttempt(w, c)
    <3>1. s.r \in Reminders /\ j \in JobRow
      BY <2>4 DEF RecordTerminal, Commit, Suppress, BeginAttempt, TypeInv, TypeOK, WorkerShape
    <3>2. CASE RecordTerminal(w)
      <4>1. job' = job \/ \E t : job' = [job EXCEPT ![s.r] = [j EXCEPT !.terminal = t]]
        BY <3>2, MoveRecord
      <4>2. \A t : [j EXCEPT !.terminal = t].policy = j.policy
        BY <3>1, PolicyAfter
      <4>. QED  BY <1>1, <4>1, <4>2
    <3>3. CASE \E c \in Channels : BeginAttempt(w, c)
      <4>. DEFINE begun(k, t) == [j EXCEPT !.cycle = k, !.window = t]
      <4>1. job' = job \/ \E k, t : job' = [job EXCEPT ![s.r] = begun(k, t)]
        BY <3>3, MoveBegin
      <4>2. \A k, t : begun(k, t).policy = j.policy
        BY <3>1, PolicyAfter
      <4>. HIDE DEF begun
      <4>. QED  BY <1>1, <4>1, <4>2
    <3>4. CASE Commit(w)
      <4>1. \/ job' = job
            \/ job' = [job EXCEPT ![s.r] = [Unleased(j) EXCEPT !.status = "cancelled"]]
            \/ job' = [job EXCEPT ![s.r] = CommittedJob(j, s.verdict, s.retryAt)]
        BY <3>4 DEF Commit
      <4>2. CommittedJob(j, s.verdict, s.retryAt).policy = j.policy
        BY <3>1, PolicyAfter DEF CommittedJob
      <4>3. [Unleased(j) EXCEPT !.status = "cancelled"].policy = j.policy
        BY <3>1, PolicyAfter
      <4>. QED  BY <1>1, <4>1, <4>2, <4>3
    <3>5. CASE Suppress(w)
      <4>. DEFINE k == [Unleased(j) EXCEPT !.status =
                          IF s.verdict = "cancelled" THEN "cancelled" ELSE JobStatusOf(s.verdict)]
      <4>1. job' = job \/ job' = [job EXCEPT ![s.r] = k]
        BY <3>5 DEF Suppress
      <4>2. k.policy = j.policy
        BY <3>1, PolicyAfter
      <4>. HIDE DEF k
      <4>. QED  BY <1>1, <4>1, <4>2
    <3>. QED  BY <2>4, <3>2, <3>3, <3>4, <3>5
  <2>5. CASE \/ EndRun(w) \/ LoadReminder(w) \/ SettingsFailure(w) \/ PlanChannels(w)
             \/ StopInLoop(w) \/ Recheck(w) \/ AnswerLost(w) \/ FinishAttempt(w) \/ Evaluate(w)
             \/ \E kind \in {"success", "retryable", "permanent"} : ProviderAnswers(w, kind)
    BY <2>5 DEF EndRun, LoadReminder, SettingsFailure, PlanChannels, StopInLoop, Recheck,
       FinishAttempt, Evaluate, AnswerLost, ProviderAnswers
  <2>. QED  BY <1>4, <2>1, <2>2, <2>3, <2>4, <2>5 DEF WorkerStep
<1>. QED  BY <1>2, <1>3, <1>4 DEF Next

-----------------------------------------------------------------------------
(* A delivered reminder was accepted.                                      *)

\* Only what a provider accepted is recorded as a success, and "delivered" is
\* decided from recorded successes under the policy the job keeps.
SuccessAccepted == \A r \in Reminders, c \in Channels : Succeeded(r, c) => accepted[r][c] > 0
AnswerAccepted ==
  \A w \in Workers : wk[w].pc = "finish" /\ wk[w].outcome[wk[w].ch] = "success" =>
    accepted[wk[w].r][wk[w].ch] > 0
PolicyShared ==
  \A w \in Workers : HoldsLease(w) /\ wk[w].policy # NoPolicy =>
    job[wk[w].r].policy = wk[w].policy
VerdictAccepted ==
  \A w \in Workers : wk[w].pc = "commit" /\ wk[w].verdict = "delivered" =>
    \A c \in RequiredChannels(wk[w].policy) : Succeeded(wk[w].r, c)

AcceptanceInv ==
  SuccessAccepted /\ AnswerAccepted /\ PolicyShared /\ VerdictAccepted /\ DeliveredWasAccepted

\* Where a worker may find an answer it has not recorded.
LEMMA FinishOrigin ==
  ASSUME TypeInv, NEW w \in Workers, WorkerStep(w) \/ Crash(w), wk'[w].pc = "finish"
  PROVE  Recheck(w) \/ \E kind \in {"success", "retryable", "permanent"} : ProviderAnswers(w, kind)
<1>1. ~ (StartRun(w) \/ EndRun(w) \/ SettingsFailure(w) \/ Commit(w) \/ Crash(w))
  BY MoveAway DEF LetGo
<1>2. ~ (\E r \in Reminders : ClaimJob(w, r)) /\ ~ (\E c \in Channels : BeginAttempt(w, c))
  BY MoveClaim, MoveBegin
<1>3. ~ LoadReminder(w) /\ ~ PlanChannels(w) /\ ~ StopInLoop(w) /\ ~ FinishAttempt(w)
  BY MoveLoad, MovePlan, MoveStop, MoveFinish
<1>4. ~ SnapshotPolicy(w) /\ ~ RecordTerminal(w) /\ ~ Evaluate(w) /\ ~ Suppress(w)
  BY MoveSettings, MoveRecord, MoveEvaluate, MoveSuppress DEF LetGo
<1>5. ~ AnswerLost(w)
  BY LostAnswerStands
<1>. QED  BY <1>1, <1>2, <1>3, <1>4, <1>5 DEF WorkerStep

LEMMA AnswerAcceptedStep ==
  ASSUME TypeInv, AcceptanceInv, [Next]_vars
  PROVE  SuccessAccepted' /\ AnswerAccepted'
<1>1. \A r \in Reminders, c \in Channels :
        /\ accepted[r][c] \in Nat /\ accepted'[r][c] \in Int
        /\ accepted'[r][c] >= accepted[r][c]
  <2>1. TypeInv'
    BY TypeStep
  <2>. QED  BY <2>1, AcceptedGrows DEF TypeInv, TypeOK
<1>2. SuccessAccepted'
  <2>. SUFFICES ASSUME NEW r \in Reminders, NEW c \in Channels, Succeeded(r, c)'
                PROVE  accepted'[r][c] > 0
    BY DEF SuccessAccepted
  <2>1. accepted[r][c] > 0
    BY SuccessOrigin DEF AcceptanceInv, SuccessAccepted, AnswerAccepted
  <2>. QED  BY <1>1, <2>1
<1>3. ASSUME NEW w \in Workers, WorkerStep(w) \/ Crash(w)
      PROVE  AnswerAccepted'
  <2>. SUFFICES ASSUME NEW v \in Workers, wk'[v].pc = "finish",
                       wk'[v].outcome[wk'[v].ch] = "success"
                PROVE  accepted'[wk'[v].r][wk'[v].ch] > 0
    BY DEF AnswerAccepted
  <2>1. \A u \in Workers : u # w => wk'[u] = wk[u]
    BY <1>3, OthersStand
  <2>2. CASE wk'[v] = wk[v]
    <3>1. wk[v].r \in Reminders /\ wk[v].ch \in Channels
      BY <2>2 DEF TypeInv, TypeOK, WorkerShape, WorkerState
    <3>2. accepted[wk[v].r][wk[v].ch] > 0
      BY <2>2 DEF AcceptanceInv, AnswerAccepted
    <3>. QED  BY <1>1, <2>2, <3>1, <3>2
  <2>3. CASE v = w /\ wk'[v] # wk[v]
    <3>1. \/ Recheck(w)
          \/ \E kind \in {"success", "retryable", "permanent"} : ProviderAnswers(w, kind)
      BY <1>3, <2>3, FinishOrigin
    <3>2. ~ Recheck(w)
      BY <2>3, MoveRecheck DEF SameTry
    <3>3. PICK kind \in {"success", "retryable", "permanent"} : ProviderAnswers(w, kind)
      BY <3>1, <3>2
    <3>4. kind = "success" /\ wk'[w].r = wk[w].r /\ wk'[w].ch = wk[w].ch
      BY <2>3, <3>3, MoveAnswer DEF SameHold, SameTry
    <3>5. wk[w].r \in Reminders /\ wk[w].ch \in Channels
      BY <3>3 DEF ProviderAnswers, TypeInv, TypeOK, WorkerShape, WorkerState
    <3>6. accepted'[wk[w].r][wk[w].ch] = accepted[wk[w].r][wk[w].ch] + 1
      BY <3>3, <3>4, <3>5, AnswerCounts
    <3>. QED  BY <1>1, <2>3, <3>4, <3>5, <3>6
  <2>. QED  BY <2>1, <2>2, <2>3
<1>4. ASSUME wk' = wk, accepted' = accepted PROVE AnswerAccepted'
  BY <1>4 DEF AcceptanceInv, AnswerAccepted
<1>5. CASE Tick \/ Request \/ UNCHANGED vars
  BY <1>2, <1>4, <1>5 DEF Tick, Request, CreateReminder, ImportReminder, PatchReminder,
     CloseReminder, ManualRetry, MarkFired, vars, history
<1>. QED  BY <1>2, <1>3, <1>5 DEF Next

LEMMA PolicySharedStep ==
  ASSUME TypeInv, AcceptanceInv, [Next]_vars PROVE PolicyShared'
<1>. SUFFICES ASSUME NEW w \in Workers, HoldsLease(w)', wk'[w].policy # NoPolicy
              PROVE  job'[wk'[w].r].policy = wk'[w].policy
  BY DEF PolicyShared
<1>1. PICK r \in Reminders : wk'[w].r = r /\ job'[r].status = "leased" /\ job'[r].owner = w
  BY DEF HoldsLease
<1>2. ASSUME NEW q \in Reminders, ClaimJob(w, q)
      PROVE  job'[r].policy = wk'[w].policy
  BY <1>1, <1>2, MoveClaim
<1>3. ASSUME \A q \in Reminders : ~ ClaimJob(w, q)
      PROVE  job'[r].policy = wk'[w].policy
  <2>1. HoldsLease(w) /\ wk[w].r = r
    BY <1>1, <1>3, LeaseKept
  <2>2. CASE SnapshotPolicy(w)
    <3>1. ~ LetGo(w)
      BY <1>1, DeliveryAssumption DEF LetGo
    <3>2. PICK p \in Policy : wk'[w].policy = p /\ job' = [job EXCEPT ![wk[w].r].policy = p]
      BY <2>2, <3>1, MoveSettings
    <3>. QED  BY <2>1, <3>2 DEF TypeInv, TypeOK, JobRow
  <2>3. CASE ~ SnapshotPolicy(w)
    <3>1. wk'[w].policy = wk[w].policy
      BY <1>1, <1>3, <2>3, HoldKept
    <3>2. job[r].policy = wk[w].policy /\ job[r].policy # NoPolicy
      BY <2>1, <3>1 DEF AcceptanceInv, PolicyShared
    <3>3. job'[r].policy = job[r].policy
      BY <1>1, <3>2, PolicyMoves
    <3>. QED  BY <3>1, <3>2, <3>3
  <2>. QED  BY <2>2, <2>3
<1>. QED  BY <1>1, <1>2, <1>3

\* The two ways to a verdict.
LEMMA CommitOrigin ==
  ASSUME TypeInv, NEW w \in Workers, WorkerStep(w) \/ Crash(w), wk'[w].pc = "commit"
  PROVE  PlanChannels(w) \/ Evaluate(w)
<1>1. ~ (StartRun(w) \/ EndRun(w) \/ SettingsFailure(w) \/ Commit(w) \/ Crash(w))
  BY MoveAway DEF LetGo
<1>2. ~ (\E r \in Reminders : ClaimJob(w, r)) /\ ~ (\E c \in Channels : BeginAttempt(w, c))
  BY MoveClaim, MoveBegin
<1>3. ~ LoadReminder(w) /\ ~ StopInLoop(w) /\ ~ FinishAttempt(w) /\ ~ Recheck(w)
  BY MoveLoad, MoveStop, MoveFinish, MoveRecheck
<1>4. ~ SnapshotPolicy(w) /\ ~ RecordTerminal(w) /\ ~ Suppress(w)
  BY MoveSettings, MoveRecord, MoveSuppress DEF LetGo
<1>5. ~ AnswerLost(w) /\ ~ \E kind \in {"success", "retryable", "permanent"} : ProviderAnswers(w, kind)
  BY LostAnswerStands, MoveAnswer
<1>. QED  BY <1>1, <1>2, <1>3, <1>4, <1>5 DEF WorkerStep

LEMMA VerdictAcceptedStep ==
  ASSUME TypeInv, AcceptanceInv, [Next]_vars PROVE VerdictAccepted'
<1>. SUFFICES ASSUME NEW w \in Workers, wk'[w].pc = "commit", wk'[w].verdict = "delivered",
                     NEW r, wk'[w].r = r, NEW c, c \in RequiredChannels(wk'[w].policy)
              PROVE  Succeeded(r, c)'
  BY DEF VerdictAccepted, Succeeded, RequiredChannels
<1>1. CASE wk'[w] = wk[w]
  <2>1. Succeeded(r, c)
    BY <1>1 DEF AcceptanceInv, VerdictAccepted
  <2>. QED  BY <2>1, SuccessIsKept
<1>2. CASE wk'[w] # wk[w]
  <2>1. WorkerStep(w) \/ Crash(w)
    BY <1>2, RequestsLeaveWorkers, OthersStand DEF Next
  <2>2. Evaluate(w)
    BY <2>1, CommitOrigin, MovePlan
  <2>3. Succeeded(r, c)
    BY <2>2, MoveEvaluate DEF SameHold
  <2>. QED  BY <2>3, SuccessIsKept
<1>. QED  BY <1>1, <1>2

LEMMA DeliveredOrigin ==
  ASSUME TypeInv, [Next]_vars, "fire" \notin Edits, NEW r \in Reminders,
         rem'[r].dstate = "delivered", rem[r].dstate # "delivered"
  PROVE  \E w \in Workers : /\ wk[w].pc = "commit" /\ wk[w].r = r /\ HoldsLease(w)
                            /\ wk[w].verdict = "delivered"
<1>. rem \in [Reminders -> ReminderRow]
  BY DEF TypeInv, TypeOK
<1>1. ASSUME Request PROVE FALSE
  <2>1. PICK q \in Reminders :
          \/ \E due \in Dues : \/ CreateReminder(q, due) \/ ImportReminder(q, due)
                              \/ PatchReminder(q, due)
          \/ \E status \in ClosedStatus : CloseReminder(q, status)
          \/ ManualRetry(q) \/ MarkFired(q)
    BY <1>1 DEF Request
  <2>2. ~ MarkFired(q)
    BY DEF MarkFired, MayEdit
  <2>3. CASE \E due \in Dues : CreateReminder(q, due) \/ ImportReminder(q, due)
    BY <2>3 DEF CreateReminder, ImportReminder, CreatedReminder
  <2>4. CASE \E due \in Dues : PatchReminder(q, due)
    BY <2>4 DEF PatchReminder, ReminderRow
  <2>5. CASE \E status \in ClosedStatus : CloseReminder(q, status)
    BY <2>5 DEF CloseReminder, ReminderRow
  <2>6. CASE ManualRetry(q)
    BY <2>6 DEF ManualRetry, RequeuedReminder, ReminderRow
  <2>. QED  BY <2>1, <2>2, <2>3, <2>4, <2>5, <2>6
<1>2. ASSUME Tick \/ UNCHANGED vars \/ \E w \in Workers : Crash(w) PROVE FALSE
  BY <1>2 DEF Tick, vars, Crash
<1>3. PICK w \in Workers : WorkerStep(w)
  BY <1>1, <1>2 DEF Next
<1>4. ASSUME StartRun(w) PROVE FALSE
  <2>1. rem'[r] = rem[r] \/ rem'[r] = ReconciledReminder(rem[r], clock)
    BY <1>4 DEF StartRun
  <2>2. \A x \in ReminderRow : x.dstate # "delivered" => ReconciledReminder(x, clock).dstate # "delivered"
    BY DEF ReconciledReminder, ReminderRow
  <2>. QED  BY <2>1, <2>2
<1>5. ASSUME SnapshotPolicy(w) \/ RecordTerminal(w) \/ \E c \in Channels : BeginAttempt(w, c)
      PROVE  FALSE
  BY <1>5, StatusKept
<1>6. ASSUME \/ EndRun(w) \/ LoadReminder(w) \/ SettingsFailure(w) \/ PlanChannels(w)
             \/ StopInLoop(w) \/ Recheck(w) \/ AnswerLost(w) \/ FinishAttempt(w) \/ Evaluate(w)
             \/ Suppress(w)
             \/ \E kind \in {"success", "retryable", "permanent"} : ProviderAnswers(w, kind)
             \/ \E q \in Reminders : ClaimJob(w, q)
      PROVE  FALSE
  BY <1>6 DEF EndRun, LoadReminder, SettingsFailure, PlanChannels, StopInLoop, Recheck,
     FinishAttempt, Evaluate, AnswerLost, ProviderAnswers, Suppress, ClaimJob
<1>7. Commit(w)
  BY <1>3, <1>4, <1>5, <1>6 DEF WorkerStep
<1>8. wk[w].r \in Reminders
  BY <1>7 DEF Commit, TypeInv, WorkerShape
<1>9. CommittedReminder(rem[wk[w].r], wk[w].verdict, wk[w].retryAt).dstate = wk[w].verdict
  BY <1>8 DEF CommittedReminder, ReminderRow
<1>. QED  BY <1>7, <1>8, <1>9 DEF Commit

LEMMA DeliveredStep ==
  ASSUME TypeInv, SettleInv, SettleInv', AcceptanceInv, [Next]_vars, "fire" \notin Edits
  PROVE  DeliveredWasAccepted'
<1>. SUFFICES ASSUME NEW r \in Reminders, rem'[r].dstate = "delivered"
              PROVE  /\ job'[r].policy # NoPolicy
                     /\ \A c \in RequiredChannels(job'[r].policy) : accepted'[r][c] > 0
  BY DEF DeliveredWasAccepted
<1>1. job'[r].status = "succeeded"
  BY DEF SettleInv, RowsAgree, Agree
<1>2. ASSUME job[r].policy \in Policy \/ job[r].status # "leased"
      PROVE  job'[r].policy = job[r].policy
  <2>1. job[r].status # "leased" => \A w \in Workers : HoldsLease(w) => wk[w].r # r
    BY DEF HoldsLease
  <2>. QED  BY <1>1, <1>2, <2>1, PolicyMoves, DeliveryAssumption
<1>3. /\ job[r].policy \in Policy /\ job'[r].policy = job[r].policy
      /\ \A c \in RequiredChannels(job[r].policy) : accepted[r][c] > 0
  <2>1. job[r].policy \in Policy \cup {NoPolicy}
    BY DEF TypeInv, TypeOK, JobRow
  <2>2. CASE rem[r].dstate = "delivered"
    <3>1. job[r].status = "succeeded"
      BY <2>2 DEF SettleInv, RowsAgree, Agree
    <3>. QED  BY <1>2, <2>1, <2>2, <3>1 DEF AcceptanceInv, DeliveredWasAccepted
  <2>3. CASE rem[r].dstate # "delivered"
    <3>1. PICK w \in Workers : /\ wk[w].pc = "commit" /\ wk[w].r = r /\ HoldsLease(w)
                               /\ wk[w].verdict = "delivered"
      BY <2>3, DeliveredOrigin
    <3>2. wk[w].policy \in Policy
      BY <3>1 DEF TypeInv, WorkerShape
    <3>3. job[r].policy = wk[w].policy
      BY <3>1, <3>2, DeliveryAssumption DEF AcceptanceInv, PolicyShared
    <3>4. RequiredChannels(wk[w].policy) \subseteq Channels
      BY <3>2 DEF RequiredChannels, Policy, Channels
    <3>5. \A c \in RequiredChannels(wk[w].policy) : accepted[r][c] > 0
      BY <3>1, <3>4 DEF AcceptanceInv, VerdictAccepted, SuccessAccepted
    <3>. QED  BY <1>2, <3>2, <3>3, <3>5
  <2>. QED  BY <2>2, <2>3
<1>4. RequiredChannels(job[r].policy) \subseteq Channels
  BY <1>3 DEF RequiredChannels, Policy, Channels
<1>5. \A c \in Channels : accepted'[r][c] \in Nat /\ accepted[r][c] \in Nat
                          /\ accepted'[r][c] >= accepted[r][c]
  BY TypeStep, AcceptedGrows DEF TypeInv, TypeOK
<1>. QED  BY <1>3, <1>4, <1>5, DeliveryAssumption

LEMMA AcceptanceInit == Init => AcceptanceInv
<1>. SUFFICES ASSUME Init PROVE AcceptanceInv
  OBVIOUS
<1>1. NotHolding("idle", None, 0).pc = "idle" /\ NotHolding("idle", None, 0).policy = NoPolicy
  BY DEF NotHolding
<1>2. SuccessAccepted /\ DeliveredWasAccepted
  BY DEF Init, SuccessAccepted, Succeeded, DeliveredWasAccepted
<1>3. AnswerAccepted /\ PolicyShared /\ VerdictAccepted
  BY <1>1 DEF Init, AnswerAccepted, PolicyShared, VerdictAccepted
<1>. QED  BY <1>2, <1>3 DEF AcceptanceInv

\* A reminder that says delivered was accepted by the provider of every channel
\* its policy requires, however many schedulers, crashes, lost leases and changes
\* of the settings there were (the legacy scheduler, which asks no provider of
\* this module, does not run).
THEOREM DeliveredMeansAccepted ==
  ASSUME "fire" \notin Edits
  PROVE  Spec => []DeliveredWasAccepted
<1>1. TypeInv /\ SettleInv /\ AcceptanceInv /\ [Next]_vars => SettleInv' /\ AcceptanceInv'
  BY SettleStep, AnswerAcceptedStep, PolicySharedStep, VerdictAcceptedStep, DeliveredStep
     DEF AcceptanceInv
<1>2. AcceptanceInv => DeliveredWasAccepted
  BY DEF AcceptanceInv
<1>. QED  BY <1>1, <1>2, SettleInit, AcceptanceInit, TypeInvHolds, PTL DEF Spec

-----------------------------------------------------------------------------
(* Repeated acceptances.  A worker that may still call the provider of a   *)
(* channel is counted against the allowance of the channel as if it had    *)
(* been heard to accept already, so the allowance is used up when the      *)
(* worker is given its job and not when the provider answers.              *)

\* w works for reminder r and may yet ask the provider of channel c.
MaySend(w, r, c) ==
  /\ wk[w].r = r
  /\ \/ wk[w].pc \in {"load", "settings", "plan"} /\ ~ Succeeded(r, c)
     \/ /\ wk[w].pc \in {"loop", "recheck", "sending", "finish", "record", "suppressAttempt"}
        /\ c \in wk[w].todo
     \/ wk[w].pc \in {"recheck", "sending"} /\ c = wk[w].ch

Senders(r, c) == {w \in Workers : MaySend(w, r, c)}
Used(r, c) == Heard(r, c) + Cardinality(Senders(r, c))

\* The provider said yes and the row does not say so yet.
InDoubt(w, c) == wk[w].pc = "finish" /\ wk[w].ch = c /\ wk[w].outcome[c] = "success"

\* Nobody becomes a sender but by a claim.
LEMMA SenderOrigin ==
  ASSUME TypeInv, [Next]_vars, NEW w \in Workers, NEW r \in Reminders, NEW c \in Channels,
         MaySend(w, r, c)'
  PROVE  MaySend(w, r, c) \/ (ClaimJob(w, r) /\ ~ Succeeded(r, c)')
<1>. USE DEF MaySend
<1>0. Succeeded(r, c) => Succeeded(r, c)'
  BY SuccessIsKept
<1>1. ~ LetGo(w)
  BY DeliveryAssumption DEF LetGo
<1>2. CASE wk'[w] = wk[w]
  BY <1>0, <1>2
<1>3. CASE WorkerStep(w) \/ Crash(w)
  <2>. USE DEF SameHold, SameTry
  <2>1. ~ (StartRun(w) \/ EndRun(w) \/ SettingsFailure(w) \/ Commit(w) \/ Crash(w))
    BY <1>1, MoveAway
  <2>2. ASSUME NEW q \in Reminders, ClaimJob(w, q)
        PROVE  q = r /\ ~ Succeeded(r, c)'
    BY <2>2, MoveClaim
  <2>3. CASE LoadReminder(w)
    BY <1>0, <2>3, MoveLoad
  <2>4. CASE SnapshotPolicy(w)
    BY <1>0, <1>1, <2>4, MoveSettings
  <2>5. CASE PlanChannels(w)
    <3>1. wk[w].pc = "plan" /\ wk[w].r = r
      BY <2>5, MovePlan
    <3>2. wk'[w].pc = "loop" /\ \A d \in wk'[w].todo : ~ Succeeded(wk[w].r, d)
      BY <2>5, MovePlan
    <3>. QED  BY <3>1, <3>2
  <2>6. ASSUME NEW d \in Channels, BeginAttempt(w, d)
        PROVE  MaySend(w, r, c)
    <3>1. /\ wk[w].pc = "loop" /\ d \in wk[w].todo /\ wk'[w].pc = "recheck"
          /\ wk'[w].ch = d /\ wk'[w].todo = wk[w].todo \ {d} /\ wk'[w].r = wk[w].r
      BY <2>6, MoveBegin
    <3>2. c \in wk'[w].todo \/ c = wk'[w].ch
      BY <3>1
    <3>. QED  BY <3>1, <3>2
  <2>7. CASE StopInLoop(w) \/ Recheck(w) \/ FinishAttempt(w)
    BY <2>7, MoveStop, MoveRecheck, MoveFinish
  <2>8. CASE \E kind \in {"success", "retryable", "permanent"} : ProviderAnswers(w, kind)
    BY <2>8, MoveAnswer
  <2>9. CASE RecordTerminal(w) \/ Evaluate(w) \/ Suppress(w)
    BY <1>1, <2>9, MoveRecord, MoveEvaluate, MoveSuppress
  <2>10. CASE AnswerLost(w)
    BY <1>2, <2>10, LostAnswerStands
  <2>. QED
    BY <1>3, <2>1, <2>2, <2>3, <2>4, <2>5, <2>6, <2>7, <2>8, <2>9, <2>10 DEF WorkerStep
<1>4. CASE Tick \/ Request \/ UNCHANGED vars
  BY <1>2, <1>4, RequestsLeaveWorkers
<1>. QED  BY <1>2, <1>3, <1>4, OthersStand DEF Next

\* Who is answered has asked, and does not ask again.
LEMMA AnswerEndsSender ==
  ASSUME TypeInv, TriesOnce, NEW w \in Workers,
         NEW kind \in {"success", "retryable", "permanent"}, ProviderAnswers(w, kind),
         NEW r, wk[w].r = r, NEW c, wk[w].ch = c
  PROVE  /\ MaySend(w, r, c) /\ ~ MaySend(w, r, c)'
         /\ kind = "success" => InDoubt(w, c)'
<1>1. /\ wk[w].pc = "sending" /\ wk'[w].pc = "finish"
      /\ wk'[w].ch = c /\ wk'[w].todo = wk[w].todo /\ wk'[w].outcome[c] = kind
  BY MoveAnswer DEF SameTry
<1>2. c \notin wk[w].todo
  BY <1>1 DEF TriesOnce
<1>. QED  BY <1>1, <1>2 DEF MaySend, InDoubt

LEMMA SendersFinite ==
  ASSUME NEW r, NEW c
  PROVE  IsFiniteSet(Senders(r, c)) /\ Cardinality(Senders(r, c)) \in Nat
<1>1. Senders(r, c) \subseteq Workers
  BY DEF Senders
<1>2. IsFiniteSet(Senders(r, c))
  BY <1>1, FS_Subset, DeliveryAssumption
<1>. QED  BY <1>2, FS_CardinalityType

\* Unless the reminder is claimed, no step uses up more, and a worker that stops
\* sending without having been heard gives its share back.
LEMMA UsedFalls ==
  ASSUME TypeInv, TriesOnce, [Next]_vars, NEW r \in Reminders, NEW c \in Channels,
         \A w \in Workers : ~ (ClaimJob(w, r) /\ ~ Succeeded(r, c)')
  PROVE  /\ Used(r, c)' <= Used(r, c)
         /\ \A v \in Workers : MaySend(v, r, c) /\ ~ MaySend(v, r, c)' /\ ~ InDoubt(v, c)'
                                 => Used(r, c)' <= Used(r, c) - 1
<1>. DEFINE S == Senders(r, c)
            T == Senders(r, c)'
            n == Heard(r, c)
            m == Heard(r, c)'
<1>1. T \subseteq S
  BY SenderOrigin DEF Senders
<1>2. IsFiniteSet(S) /\ Cardinality(S) \in Nat /\ n \in Int /\ m \in Int
  BY SendersFinite, HeardMoves
<1>3. Used(r, c) = n + Cardinality(S) /\ Used(r, c)' = m + Cardinality(T)
  BY DEF Used
<1>4. \A v \in Workers : MaySend(v, r, c) /\ ~ MaySend(v, r, c)' => v \in S /\ v \notin T
  BY DEF Senders
<1>5. \A U : U \subseteq S => IsFiniteSet(U) /\ Cardinality(U) \in Nat /\ Cardinality(U) <= Cardinality(S)
  BY <1>2, FS_Subset, FS_CardinalityType
<1>6. \A v : v \in S => IsFiniteSet(S \ {v}) /\ Cardinality(S \ {v}) = Cardinality(S) - 1
  BY <1>2, FS_RemoveElement
<1>7. \A v : v \in S /\ v \notin T => Cardinality(T) <= Cardinality(S) - 1
  <2>. SUFFICES ASSUME NEW v \in S, v \notin T PROVE Cardinality(T) <= Cardinality(S) - 1
    OBVIOUS
  <2>1. T \subseteq S \ {v}
    BY <1>1
  <2>2. Cardinality(T) <= Cardinality(S \ {v})
    BY <1>6, <2>1, FS_Subset
  <2>. QED  BY <1>6, <2>2
<1>8. \A u, v : u \in S /\ u \notin T /\ v \in S /\ v \notin T /\ u # v =>
        Cardinality(T) <= Cardinality(S) - 2
  <2>. SUFFICES ASSUME NEW u \in S, u \notin T, NEW v \in S, v \notin T, u # v
                PROVE  Cardinality(T) <= Cardinality(S) - 2
    OBVIOUS
  <2>1. IsFiniteSet(S \ {u}) /\ v \in S \ {u}
    BY <1>6
  <2>2. Cardinality((S \ {u}) \ {v}) = Cardinality(S \ {u}) - 1 /\ IsFiniteSet((S \ {u}) \ {v})
    BY <2>1, FS_RemoveElement
  <2>3. T \subseteq (S \ {u}) \ {v}
    BY <1>1
  <2>4. Cardinality(T) <= Cardinality((S \ {u}) \ {v})
    BY <2>2, <2>3, FS_Subset
  <2>. QED  BY <1>2, <1>6, <2>2, <2>4
<1>9. Cardinality(T) \in Nat /\ Cardinality(T) <= Cardinality(S)
  BY <1>1, <1>5
<1>. HIDE DEF S, T, n, m
<1>10. CASE m = n
  BY <1>2, <1>3, <1>4, <1>7, <1>9, <1>10
<1>11. CASE m # n
  <2>1. /\ m = n + 1
        /\ \E u \in Workers : wk[u].r = r /\ wk[u].ch = c /\ ProviderAnswers(u, "success")
    BY <1>11, HeardMoves DEF m, n
  <2>2. PICK u \in Workers : wk[u].r = r /\ wk[u].ch = c /\ ProviderAnswers(u, "success")
    BY <2>1
  <2>3. MaySend(u, r, c) /\ ~ MaySend(u, r, c)' /\ InDoubt(u, c)'
    BY <2>2, AnswerEndsSender
  <2>4. u \in S /\ u \notin T
    BY <1>4, <2>3
  <2>5. Used(r, c)' <= Used(r, c)
    BY <1>2, <1>3, <1>7, <1>9, <2>1, <2>4
  <2>6. ASSUME NEW v \in Workers, MaySend(v, r, c), ~ MaySend(v, r, c)', ~ InDoubt(v, c)'
        PROVE  Used(r, c)' <= Used(r, c) - 1
    <3>1. v \in S /\ v \notin T /\ v # u
      BY <1>4, <2>3, <2>6
    <3>2. Cardinality(T) <= Cardinality(S) - 2
      BY <1>8, <2>4, <3>1
    <3>. QED  BY <1>2, <1>3, <1>9, <2>1, <3>2
  <2>. QED  BY <2>5, <2>6
<1>. QED  BY <1>10, <1>11

\* A claim uses up one acceptance of every channel that has not succeeded.
LEMMA UsedByClaim ==
  ASSUME TypeInv, [Next]_vars, NEW w \in Workers, NEW r \in Reminders, NEW c \in Channels,
         ClaimJob(w, r)
  PROVE  Used(r, c)' <= Used(r, c) + 1
<1>. DEFINE S == Senders(r, c)
            T == Senders(r, c)'
<1>1. \A v \in Workers : v # w => wk'[v] = wk[v]
  BY OthersStand DEF WorkerStep
<1>2. \A v \in Workers : v # w => ~ ClaimJob(v, r)
  <2>. SUFFICES ASSUME NEW v \in Workers, v # w, ClaimJob(v, r) PROVE FALSE
    OBVIOUS
  <2>1. wk'[v].pc = "load" /\ wk[v].pc = "claim"
    BY MoveClaim
  <2>. QED  BY <1>1, <2>1
<1>3. T \subseteq S \cup {w}
  BY <1>2, SenderOrigin DEF Senders
<1>4. IsFiniteSet(S) /\ Cardinality(S) \in Nat
  BY SendersFinite
<1>5. IsFiniteSet(S \cup {w}) /\ Cardinality(S \cup {w}) <= Cardinality(S) + 1
  BY <1>4, FS_AddElement
<1>6. Cardinality(T) <= Cardinality(S \cup {w}) /\ Cardinality(T) \in Nat
  BY <1>3, <1>5, FS_Subset, FS_CardinalityType
<1>7. Heard(r, c)' = Heard(r, c) /\ Heard(r, c) \in Int
  BY HeardMoves DEF ClaimJob, Heard
<1>8. Cardinality(S \cup {w}) \in Nat
  BY <1>5, FS_CardinalityType
<1>. HIDE DEF S, T
<1>9. Used(r, c)' = Heard(r, c) + Cardinality(T) /\ Used(r, c) = Heard(r, c) + Cardinality(S)
  BY <1>7 DEF Used, S, T
<1>. QED  BY <1>4, <1>5, <1>6, <1>7, <1>8, <1>9

LEMMA UsedType ==
  ASSUME TypeInv, TypeInv', NEW r \in Reminders, NEW c \in Channels
  PROVE  /\ Used(r, c) \in Int /\ lostLeases[r] \in Nat
         /\ Used(r, c)' \in Int /\ lostLeases'[r] \in Nat
<1>1. Senders(r, c)' \subseteq Workers
  BY DEF Senders
<1>2. IsFiniteSet(Senders(r, c)')
  BY <1>1, FS_Subset, DeliveryAssumption
<1>3. Cardinality(Senders(r, c)') \in Nat
  BY <1>2, FS_CardinalityType
<1>4. Heard(r, c) \in Int /\ Heard(r, c)' \in Int
  BY DEF Heard, TypeInv, TypeOK
<1>. QED  BY <1>3, <1>4, SendersFinite DEF Used, TypeInv, TypeOK

LEMMA LostGrows ==
  ASSUME TypeInv, [Next]_vars, NEW r \in Reminders
  PROVE  lostLeases'[r] >= lostLeases[r]
<1>. lostLeases \in [Reminders -> Nat]
  BY DEF TypeInv, TypeOK
<1>0. lostLeases' = lostLeases => lostLeases'[r] >= lostLeases[r]
  OBVIOUS
<1>1. CASE Tick \/ Request \/ UNCHANGED vars
  BY <1>1, RequestsLeaveWorkers
<1>2. ASSUME NEW w \in Workers, WorkerStep(w) \/ Crash(w)
      PROVE  lostLeases'[r] >= lostLeases[r]
  <2>1. CASE StartRun(w)
    BY <2>1 DEF StartRun
  <2>2. CASE \E q \in Reminders : ClaimJob(w, q)
    BY <2>2 DEF ClaimJob
  <2>3. CASE Suppress(w)
    BY <2>3 DEF Suppress
  <2>4. CASE \/ SnapshotPolicy(w) \/ RecordTerminal(w) \/ \E c \in Channels : BeginAttempt(w, c)
    <3>1. lostLeases' = lostLeases
      BY <2>4 DEF SnapshotPolicy, RecordTerminal, BeginAttempt, history
    <3>. QED  BY <1>0, <3>1
  <2>5. CASE \/ EndRun(w) \/ LoadReminder(w) \/ SettingsFailure(w) \/ PlanChannels(w)
             \/ StopInLoop(w) \/ Recheck(w) \/ AnswerLost(w) \/ FinishAttempt(w) \/ Evaluate(w)
             \/ Commit(w) \/ Crash(w)
             \/ \E kind \in {"success", "retryable", "permanent"} : ProviderAnswers(w, kind)
    <3>1. lostLeases' = lostLeases
      BY <2>5 DEF EndRun, LoadReminder, SettingsFailure, PlanChannels, StopInLoop, Recheck,
         FinishAttempt, Evaluate, AnswerLost, Commit, Crash, ProviderAnswers, history
    <3>. QED  BY <1>0, <3>1
  <2>. QED  BY <1>2, <2>1, <2>2, <2>3, <2>4, <2>5 DEF WorkerStep
<1>. QED  BY <1>1, <1>2 DEF Next

-----------------------------------------------------------------------------
(* How a lease ends.                                                       *)

\* A failed reminder has a failed job, and what is not there has no job and was not
\* delivered (what of RowsAgree holds with the legacy scheduler too).
Half(x, j) ==
  /\ x.dstate = "failed" => j.status = "failed"
  /\ x.status = "absent" => j.status = "absent" /\ x.dstate \notin Settled

FailedTogether == \A r \in Reminders : Half(rem[r], job[r])

LEMMA FailedAfterReconcile ==
  ASSUME NEW x \in ReminderRow, NEW j \in JobRow, NEW now \in Nat, Half(x, j),
         x.status \in OpenStatus
  PROVE  Half(ReconciledReminder(x, now), ReconciledJob(ReconciledReminder(x, now), j, now))
<1>. DEFINE y == ReconciledReminder(x, now)
<1>1. y.status \in OpenStatus
  BY ReconciledKeepsOpen
<1>2. y.dstate = "failed" => x.dstate = "failed"
  BY DEF ReconciledReminder, ReminderRow
<1>3. y.dstate = "failed" => ReconciledJob(y, j, now) = j
  <2>. SUFFICES ASSUME y.dstate = "failed" PROVE ReconciledJob(y, j, now) = j
    OBVIOUS
  <2>1. j.status = JobStatusOf(y.dstate)
    BY <1>2 DEF Half, JobStatusOf
  <2>. HIDE DEF y
  <2>. QED  BY <2>1 DEF ReconciledJob, TerminalJob, Settled
<1>. HIDE DEF y
<1>. QED  BY <1>1, <1>2, <1>3 DEF Half, OpenStatus, y

LEMMA FailedRequests ==
  ASSUME TypeInv, FailedTogether, Tick \/ Request
  PROVE  FailedTogether'
<1>. USE DEF FailedTogether
<1>. rem \in [Reminders -> ReminderRow] /\ job \in [Reminders -> JobRow]
  BY DEF TypeInv, TypeOK
<1>0. \A q \in Reminders : CancelledJob(job[q]).status =
        IF job[q].status \in {"queued", "leased"} THEN "cancelled" ELSE job[q].status
  BY JobFields DEF JobStatuses
<1>1. CASE Tick
  BY <1>1 DEF Tick
<1>2. ASSUME NEW r \in Reminders, NEW due \in Dues,
             CreateReminder(r, due) \/ ImportReminder(r, due)
      PROVE  FailedTogether'
  <2>1. \A j : Half(CreatedReminder(due), j)
    BY DEF Half, CreatedReminder, Settled
  <2>. QED  BY <1>2, <2>1 DEF CreateReminder, ImportReminder
<1>3. ASSUME NEW r \in Reminders, NEW due \in Dues, PatchReminder(r, due)
      PROVE  FailedTogether'
  <2>1. \A q \in Reminders : rem'[q].dstate = rem[q].dstate /\ rem'[q].status = rem[q].status
    BY <1>3 DEF PatchReminder, ReminderRow
  <2>2. \A q \in Reminders : job'[q] = job[q] \/ job'[q] = CancelledJob(job[q])
    BY <1>3 DEF PatchReminder
  <2>. QED  BY <1>0, <2>1, <2>2 DEF Half
<1>4. ASSUME NEW r \in Reminders, NEW status \in ClosedStatus, CloseReminder(r, status)
      PROVE  FailedTogether'
  <2>1. \A q \in Reminders : /\ rem'[q].dstate = rem[q].dstate
                             /\ rem'[q].status = "absent" => rem[q].status = "absent"
    BY <1>4 DEF CloseReminder, ReminderRow, ClosedStatus
  <2>2. \A q \in Reminders : job'[q] = job[q] \/ job'[q] = CancelledJob(job[q])
    BY <1>4 DEF CloseReminder
  <2>. QED  BY <1>0, <2>1, <2>2 DEF Half
<1>5. ASSUME NEW r \in Reminders, ManualRetry(r)
      PROVE  FailedTogether'
  <2>1. RequeuedReminder(rem[r]).dstate = "queued" /\ RequeuedReminder(rem[r]).status = "due"
    BY DEF RequeuedReminder, ReminderRow
  <2>. QED  BY <1>5, <2>1 DEF ManualRetry, Half
<1>6. ASSUME NEW r \in Reminders, MarkFired(r)
      PROVE  FailedTogether'
  <2>1. rem'[r].dstate = "delivered" /\ rem'[r].status # "absent"
    BY <1>6 DEF MarkFired, ReminderRow, OpenStatus
  <2>. QED  BY <1>6, <2>1 DEF MarkFired, Half
<1>. QED  BY <1>1, <1>2, <1>3, <1>4, <1>5, <1>6 DEF Request

LEMMA FailedWorkerSteps ==
  ASSUME TypeInv, FailedTogether, NEW w \in Workers, WorkerStep(w)
  PROVE  FailedTogether'
<1>. USE DEF FailedTogether
<1>. rem \in [Reminders -> ReminderRow] /\ job \in [Reminders -> JobRow] /\ clock \in Nat
  BY DEF TypeInv, TypeOK
<1>1. CASE StartRun(w)
  BY <1>1, FailedAfterReconcile DEF StartRun
<1>2. ASSUME NEW r \in Reminders, ClaimJob(w, r)
      PROVE  FailedTogether'
  <2>1. /\ rem' = rem /\ rem[r].dstate \notin Settled /\ rem[r].status # "absent"
        /\ \A q \in Reminders : q # r => job'[q] = job[q]
    BY <1>2 DEF ClaimJob, Claimable, OpenStatus
  <2>. QED  BY <2>1 DEF Half, Settled
<1>3. CASE SnapshotPolicy(w) \/ RecordTerminal(w) \/ \E c \in Channels : BeginAttempt(w, c)
  BY <1>3, StatusKept DEF Half
<1>4. CASE Commit(w)
  <2>. DEFINE s == wk[w]
              x == rem[s.r]
              j == job[s.r]
              y == CommittedReminder(x, s.verdict, s.retryAt)
              k == CommittedJob(j, s.verdict, s.retryAt)
              c == [Unleased(j) EXCEPT !.status = "cancelled"]
  <2>1. s.r \in Reminders /\ x \in ReminderRow /\ j \in JobRow
    BY <1>4 DEF Commit, TypeInv, TypeOK, WorkerShape
  <2>2. y.dstate = s.verdict /\ y.status = "due"
    BY <2>1 DEF CommittedReminder, ReminderRow
  <2>3. s.verdict = "failed" => k.status = "failed"
    BY <2>1, JobFields DEF CommittedJob, JobStatusOf, JobStatuses
  <2>. HIDE DEF y, k, c
  <2>4. Half(y, k)
    BY <2>2, <2>3 DEF Half
  <2>5. HoldsLease(w) => Half(x, c)
    BY <2>1 DEF HoldsLease, Half
  <2>6. \/ rem' = rem /\ job' = job
        \/ HoldsLease(w) /\ rem' = rem /\ job' = [job EXCEPT ![s.r] = c]
        \/ rem' = [rem EXCEPT ![s.r] = y] /\ job' = [job EXCEPT ![s.r] = k]
    BY <1>4 DEF Commit, y, k, c
  <2>. QED  BY <2>1, <2>4, <2>5, <2>6
<1>5. CASE Suppress(w)
  <2>1. wk[w].r \in Reminders
    BY <1>5 DEF Suppress, TypeInv, WorkerShape
  <2>2. HoldsLease(w) => rem[wk[w].r].dstate # "failed" /\ rem[wk[w].r].status # "absent"
    BY <2>1 DEF HoldsLease, Half
  <2>3. rem' = rem /\ \A q \in Reminders : job'[q] = job[q] \/ (HoldsLease(w) /\ q = wk[w].r)
    BY <1>5 DEF Suppress
  <2>. QED  BY <2>2, <2>3 DEF Half
<1>6. CASE \/ EndRun(w) \/ LoadReminder(w) \/ SettingsFailure(w) \/ PlanChannels(w)
           \/ StopInLoop(w) \/ Recheck(w) \/ AnswerLost(w) \/ FinishAttempt(w) \/ Evaluate(w)
           \/ \E kind \in {"success", "retryable", "permanent"} : ProviderAnswers(w, kind)
  BY <1>6 DEF EndRun, LoadReminder, SettingsFailure, PlanChannels, StopInLoop, Recheck,
     FinishAttempt, Evaluate, AnswerLost, ProviderAnswers
<1>. QED  BY <1>1, <1>2, <1>3, <1>4, <1>5, <1>6 DEF WorkerStep

LEMMA FailedStep == ASSUME TypeInv, FailedTogether, [Next]_vars PROVE FailedTogether'
<1>1. CASE UNCHANGED vars \/ \E w \in Workers : Crash(w)
  BY <1>1 DEF vars, Crash, FailedTogether
<1>. QED  BY <1>1, FailedRequests, FailedWorkerSteps DEF Next

\* A lease that ends was lost, ended with its reminder, or was given up by a
\* holder that has finished.
LEMMA LeaseEnds ==
  ASSUME TypeInv, FailedTogether, [Next]_vars, NEW r \in Reminders,
         job[r].status = "leased", job'[r].status # "leased"
  PROVE  \/ lostLeases'[r] = lostLeases[r] + 1
         \/ Over(r)'
         \/ \E w \in Workers : /\ HoldsLease(w) /\ wk[w].r = r
                               /\ wk[w].pc \in {"commit", "suppress"}
<1>. rem \in [Reminders -> ReminderRow] /\ job \in [Reminders -> JobRow] /\ clock \in Nat
     /\ lostLeases \in [Reminders -> Nat]
  BY DEF TypeInv, TypeOK
<1>0. rem[r].dstate # "failed" /\ rem[r].status # "absent" /\ job' # job /\ job'[r] # job[r]
  BY DEF FailedTogether, Half
<1>1. CASE Request
  <2>1. PICK q \in Reminders :
          \/ \E due \in Dues : \/ CreateReminder(q, due) \/ ImportReminder(q, due)
                              \/ PatchReminder(q, due)
          \/ \E status \in ClosedStatus : CloseReminder(q, status)
          \/ ManualRetry(q) \/ MarkFired(q)
    BY <1>1 DEF Request
  <2>2. ~ MarkFired(q) /\ \A due \in Dues : ~ ImportReminder(q, due)
    BY <1>0 DEF MarkFired, ImportReminder
  <2>3. ASSUME NEW due \in Dues, CreateReminder(q, due) PROVE FALSE
    BY <1>0, <2>3 DEF CreateReminder
  <2>4. ASSUME ManualRetry(q) PROVE FALSE
    BY <1>0, <2>4 DEF ManualRetry
  <2>5. ASSUME NEW due \in Dues, PatchReminder(q, due) PROVE Over(r)'
    <3>1. q = r /\ rem[r].status \in ClosedStatus
      BY <1>0, <2>5 DEF PatchReminder
    <3>2. rem'[r].status = rem[r].status
      BY <2>5 DEF PatchReminder, ReminderRow
    <3>. QED  BY <3>1, <3>2 DEF Over
  <2>6. ASSUME NEW status \in ClosedStatus, CloseReminder(q, status) PROVE Over(r)'
    <3>1. q = r
      BY <1>0, <2>6 DEF CloseReminder
    <3>2. rem'[r].status = status
      BY <2>6, <3>1 DEF CloseReminder, ReminderRow
    <3>. QED  BY <3>2 DEF Over
  <2>. QED  BY <2>1, <2>2, <2>3, <2>4, <2>5, <2>6
<1>2. ASSUME Tick \/ UNCHANGED vars \/ \E w \in Workers : Crash(w) PROVE FALSE
  BY <1>0, <1>2 DEF Tick, vars, Crash
<1>3. ASSUME NEW w \in Workers, WorkerStep(w)
      PROVE  \/ lostLeases'[r] = lostLeases[r] + 1
             \/ Over(r)'
             \/ /\ HoldsLease(w) /\ wk[w].r = r
                /\ wk[w].pc \in {"commit", "suppress"}
  <2>1. CASE StartRun(w)
    <3>. DEFINE y == ReconciledReminder(rem[r], clock)
    <3>1. /\ rem[r].status \in OpenStatus /\ rem'[r] = y
          /\ job'[r] = ReconciledJob(y, job[r], clock)
      BY <1>0, <2>1 DEF StartRun
    <3>2. y.dstate # "failed"
      BY <1>0 DEF ReconciledReminder, ReminderRow
    <3>3. CASE y.dstate = "delivered"
      BY <3>1, <3>3 DEF Over
    <3>4. CASE y.dstate \notin Settled
      <4>1. ExpiredLease(job[r], clock)
        <5>. HIDE DEF y
        <5>. QED  BY <1>0, <3>1, <3>4 DEF ReconciledJob
      <4>. QED  BY <2>1, <3>1, <4>1 DEF StartRun
    <3>. QED  BY <3>2, <3>3, <3>4 DEF Settled
  <2>2. ASSUME NEW q \in Reminders, ClaimJob(w, q) PROVE FALSE
    BY <1>0, <2>2, MoveClaim
  <2>3. ASSUME SnapshotPolicy(w) \/ RecordTerminal(w) \/ \E c \in Channels : BeginAttempt(w, c)
        PROVE  FALSE
    BY <2>3, StatusKept
  <2>4. CASE Commit(w)
    <3>1. wk[w].pc = "commit" /\ HoldsLease(w)
      BY <1>0, <2>4 DEF Commit
    <3>2. wk[w].r = r
      BY <1>0, <2>4 DEF Commit
    <3>. QED  BY <3>1, <3>2
  <2>5. CASE Suppress(w)
    <3>1. wk[w].pc \in {"suppress", "suppressAttempt"} /\ HoldsLease(w) /\ wk[w].r = r
      BY <1>0, <2>5 DEF Suppress
    <3>. QED  BY <2>5, <3>1 DEF Suppress
  <2>6. ASSUME \/ EndRun(w) \/ LoadReminder(w) \/ SettingsFailure(w) \/ PlanChannels(w)
               \/ StopInLoop(w) \/ Recheck(w) \/ AnswerLost(w) \/ FinishAttempt(w) \/ Evaluate(w)
               \/ \E kind \in {"success", "retryable", "permanent"} : ProviderAnswers(w, kind)
        PROVE  FALSE
    BY <1>0, <2>6 DEF EndRun, LoadReminder, SettingsFailure, PlanChannels, StopInLoop, Recheck,
       FinishAttempt, Evaluate, AnswerLost, ProviderAnswers
  <2>. QED  BY <1>3, <2>1, <2>2, <2>3, <2>4, <2>5, <2>6 DEF WorkerStep
<1>. QED  BY <1>1, <1>2, <1>3 DEF Next

\* Without a lease, what is over stays over.
LEMMA OverStands ==
  ASSUME TypeInv, FailedTogether, [Next]_vars, NEW r \in Reminders,
         job[r].status # "leased", Over(r)
  PROVE  Over(r)'
<1>. rem \in [Reminders -> ReminderRow] /\ job \in [Reminders -> JobRow] /\ clock \in Nat
  BY DEF TypeInv, TypeOK
<1>0. rem[r].status # "absent" /\ (rem'[r] = rem[r] => Over(r)')
  BY DEF FailedTogether, Half, Over, Settled, ClosedStatus
<1>. USE DEF Over
<1>1. CASE Request
  <2>1. PICK q \in Reminders :
          \/ \E due \in Dues : \/ CreateReminder(q, due) \/ ImportReminder(q, due)
                              \/ PatchReminder(q, due)
          \/ \E status \in ClosedStatus : CloseReminder(q, status)
          \/ ManualRetry(q) \/ MarkFired(q)
    BY <1>1 DEF Request
  <2>2. CASE q # r
    <3>1. rem'[r] = rem[r]
      BY <2>1, <2>2 DEF CreateReminder, ImportReminder, PatchReminder, CloseReminder,
         ManualRetry, MarkFired
    <3>. QED  BY <1>0, <3>1
  <2>3. CASE q = r
    <3>1. \A due \in Dues : ~ CreateReminder(r, due) /\ ~ ImportReminder(r, due)
      BY <1>0 DEF CreateReminder, ImportReminder
    <3>2. ~ ManualRetry(r)
      BY DEF ManualRetry, OpenStatus, ClosedStatus
    <3>3. ASSUME NEW due \in Dues, PatchReminder(r, due) PROVE Over(r)'
      BY <3>3 DEF PatchReminder, ReminderRow
    <3>4. ASSUME NEW status \in ClosedStatus, CloseReminder(r, status) PROVE Over(r)'
      BY <3>4 DEF CloseReminder, ReminderRow
    <3>5. MarkFired(r) => Over(r)'
      BY DEF MarkFired, ReminderRow
    <3>. QED  BY <2>1, <2>3, <3>1, <3>2, <3>3, <3>4, <3>5
  <2>. QED  BY <2>2, <2>3
<1>2. CASE Tick \/ UNCHANGED vars \/ \E w \in Workers : Crash(w)
  BY <1>0, <1>2 DEF Tick, vars, Crash
<1>3. ASSUME NEW w \in Workers, WorkerStep(w)
      PROVE  Over(r)'
  <2>1. CASE StartRun(w)
    <3>1. CASE rem[r].status \in ClosedStatus
      BY <1>0, <2>1, <3>1 DEF StartRun, OpenStatus, ClosedStatus
    <3>2. CASE rem[r].dstate = "delivered"
      <4>1. ReconciledReminder(rem[r], clock).dstate = "delivered"
        BY <3>2 DEF ReconciledReminder, ReminderRow
      <4>. QED  BY <1>0, <2>1, <4>1 DEF StartRun
    <3>. QED  BY <3>1, <3>2
  <2>2. CASE Commit(w)
    <3>1. wk[w].r = r => ~ HoldsLease(w)
      BY DEF HoldsLease
    <3>2. rem'[r] = rem[r]
      BY <2>2, <3>1 DEF Commit
    <3>. QED  BY <1>0, <3>2
  <2>3. CASE SnapshotPolicy(w) \/ RecordTerminal(w) \/ \E c \in Channels : BeginAttempt(w, c)
    BY <1>0, <2>3, StatusKept
  <2>4. CASE \/ EndRun(w) \/ LoadReminder(w) \/ SettingsFailure(w) \/ PlanChannels(w)
             \/ StopInLoop(w) \/ Recheck(w) \/ AnswerLost(w) \/ FinishAttempt(w) \/ Evaluate(w)
             \/ Suppress(w)
             \/ \E kind \in {"success", "retryable", "permanent"} : ProviderAnswers(w, kind)
             \/ \E q \in Reminders : ClaimJob(w, q)
    <3>1. rem' = rem
      BY <2>4 DEF EndRun, LoadReminder, SettingsFailure, PlanChannels, StopInLoop, Recheck,
         FinishAttempt, Evaluate, AnswerLost, ProviderAnswers, Suppress, ClaimJob
    <3>. QED  BY <1>0, <3>1
  <2>. QED  BY <1>3, <2>1, <2>2, <2>3, <2>4 DEF WorkerStep
<1>. QED  BY <1>1, <1>2, <1>3 DEF Next

\* A job is claimed from a queue, or from a holder that has lost it.
LEMMA ClaimOrigin ==
  ASSUME TypeInv, NEW w \in Workers, NEW r \in Reminders, ClaimJob(w, r)
  PROVE  /\ ~ Over(r)
         /\ job[r].status = "queued" \/ lostLeases'[r] = lostLeases[r] + 1
<1>. lostLeases \in [Reminders -> Nat]
  BY DEF TypeInv, TypeOK
<1>. QED  BY DEF ClaimJob, Claimable, Over, OpenStatus, ClosedStatus, Settled

-----------------------------------------------------------------------------
(* The allowance of a channel: one acceptance, and one for every lost      *)
(* lease.  While nobody has the reminder, or its holder will not ask this  *)
(* channel again, one acceptance is still free unless it has succeeded.    *)

WithinAllowance ==
  \A r \in Reminders, c \in Channels : Used(r, c) <= 1 + lostLeases[r]
FreeBetweenLeases ==
  \A r \in Reminders, c \in Channels :
    job[r].status # "leased" /\ ~ Over(r) /\ ~ Succeeded(r, c) => Used(r, c) <= lostLeases[r]
FreeAfterTrying ==
  \A w \in Workers, r \in Reminders, c \in Channels :
    /\ HoldsLease(w) /\ wk[w].r = r
    /\ ~ MaySend(w, r, c) /\ ~ InDoubt(w, c) /\ ~ Succeeded(r, c)
    => Used(r, c) <= lostLeases[r]

AllowanceInv == WithinAllowance /\ FreeBetweenLeases /\ FreeAfterTrying

LEMMA AllowanceStep ==
  ASSUME TypeInv, TypeInv', AttemptInv, FailedTogether, AllowanceInv, [Next]_vars
  PROVE  WithinAllowance' /\ FreeBetweenLeases'
<1>. SUFFICES ASSUME NEW r \in Reminders, NEW c \in Channels
              PROVE  /\ Used(r, c)' <= 1 + lostLeases'[r]
                     /\ job'[r].status # "leased" /\ ~ Over(r)' /\ ~ Succeeded(r, c)' =>
                          Used(r, c)' <= lostLeases'[r]
  BY DEF WithinAllowance, FreeBetweenLeases
<1>1. /\ Used(r, c) \in Int /\ lostLeases[r] \in Nat
      /\ Used(r, c)' \in Int /\ lostLeases'[r] \in Nat /\ lostLeases'[r] >= lostLeases[r]
  BY UsedType, LostGrows
<1>2. Used(r, c) <= 1 + lostLeases[r]
  BY DEF AllowanceInv, WithinAllowance
<1>3. Succeeded(r, c) => Succeeded(r, c)'
  BY SuccessIsKept
<1>4. CASE \E w \in Workers : ClaimJob(w, r) /\ ~ Succeeded(r, c)'
  <2>1. PICK w \in Workers : ClaimJob(w, r) /\ ~ Succeeded(r, c)'
    BY <1>4
  <2>2. job'[r].status = "leased"
    BY <2>1, MoveClaim
  <2>3. Used(r, c)' <= Used(r, c) + 1
    BY <2>1, UsedByClaim
  <2>4. ~ Over(r) /\ (job[r].status = "queued" \/ lostLeases'[r] = lostLeases[r] + 1)
    BY <2>1, ClaimOrigin
  <2>5. job[r].status = "queued" => Used(r, c) <= lostLeases[r]
    BY <1>3, <2>1, <2>4 DEF AllowanceInv, FreeBetweenLeases
  <2>. QED  BY <1>1, <1>2, <2>2, <2>3, <2>4, <2>5
<1>5. CASE \A w \in Workers : ~ (ClaimJob(w, r) /\ ~ Succeeded(r, c)')
  <2>1. Used(r, c)' <= Used(r, c)
    BY <1>5, UsedFalls DEF AttemptInv
  <2>2. ASSUME job'[r].status # "leased", ~ Over(r)', ~ Succeeded(r, c)'
        PROVE  Used(r, c)' <= lostLeases'[r]
    <3>1. CASE job[r].status # "leased"
      <4>1. ~ Over(r)
        BY <2>2, <3>1, OverStands
      <4>2. Used(r, c) <= lostLeases[r]
        BY <1>3, <2>2, <3>1, <4>1 DEF AllowanceInv, FreeBetweenLeases
      <4>. QED  BY <1>1, <2>1, <4>2
    <3>2. CASE lostLeases'[r] = lostLeases[r] + 1
      BY <1>1, <1>2, <2>1, <3>2
    <3>3. ASSUME NEW w \in Workers, HoldsLease(w), wk[w].r = r, wk[w].pc \in {"commit", "suppress"}
          PROVE  Used(r, c)' <= lostLeases'[r]
      <4>1. ~ MaySend(w, r, c) /\ ~ InDoubt(w, c)
        BY <3>3 DEF MaySend, InDoubt
      <4>2. Used(r, c) <= lostLeases[r]
        BY <1>3, <2>2, <3>3, <4>1 DEF AllowanceInv, FreeAfterTrying
      <4>. QED  BY <1>1, <2>1, <4>2
    <3>. QED  BY <2>2, <3>1, <3>2, <3>3, LeaseEnds
  <2>. QED  BY <1>1, <1>2, <2>1, <2>2
<1>. QED  BY <1>4, <1>5

\* A success a worker still has to record is recorded when it moves on.
LEMMA DoubtEnds ==
  ASSUME TypeInv, AttemptInv, [Next]_vars, NEW w \in Workers, NEW r \in Reminders, NEW c \in Channels,
         wk[w].r = r, InDoubt(w, c), ~ InDoubt(w, c)', wk'[w].r = r
  PROVE  Succeeded(r, c)'
<1>1. wk'[w] # wk[w]
  BY DEF InDoubt
<1>2. WorkerStep(w) \/ Crash(w)
  BY <1>1, RequestsLeaveWorkers, OthersStand DEF Next
<1>3. ~ LetGo(w)
  BY DeliveryAssumption DEF LetGo
<1>4. wk[w].pc = "finish" /\ wk[w].ch = c /\ wk[w].outcome[c] = "success"
  BY DEF InDoubt
<1>5. ~ (\E q \in Reminders : ClaimJob(w, q)) /\ ~ (\E d \in Channels : BeginAttempt(w, d))
  BY <1>4 DEF ClaimJob, BeginAttempt
<1>6. FinishAttempt(w)
  BY <1>2, <1>3, <1>4, <1>5, MoveAway DEF WorkerStep, LoadReminder, SnapshotPolicy, PlanChannels,
     StopInLoop, Recheck, AnswerLost, ProviderAnswers, RecordTerminal, Evaluate, Suppress
<1>7. attempts' = Finished(w, "succeeded")
  BY <1>4, <1>6, MoveFinish
<1>8. PICK a \in attempts : OwnRow(w, a)
  BY <1>4 DEF AttemptInv, RowsHeld, Trying
<1>9. PICK f \in [attempts -> AttemptRow] :
        /\ Finished(w, "succeeded") = {f[b] : b \in attempts}
        /\ \A b \in attempts : f[b].rem = b.rem /\ f[b].ch = b.ch /\ f[b].num = b.num
        /\ \A b \in attempts : OwnRow(w, b) => f[b].status = "succeeded"
  BY FinishedRows
<1>10. f[a] \in attempts' /\ f[a].rem = r /\ f[a].ch = c /\ f[a].status = "succeeded"
  BY <1>4, <1>7, <1>8, <1>9 DEF OwnRow
<1>. QED  BY <1>10 DEF Succeeded

LEMMA AfterTryingStep ==
  ASSUME TypeInv, TypeInv', AttemptInv, AllowanceInv, [Next]_vars
  PROVE  FreeAfterTrying'
<1>. SUFFICES ASSUME NEW w \in Workers, NEW r \in Reminders, NEW c \in Channels,
                     HoldsLease(w)', wk'[w].r = r,
                     ~ MaySend(w, r, c)', ~ InDoubt(w, c)', ~ Succeeded(r, c)'
              PROVE  Used(r, c)' <= lostLeases'[r]
  BY DEF FreeAfterTrying
<1>1. /\ Used(r, c) \in Int /\ lostLeases[r] \in Nat
      /\ Used(r, c)' \in Int /\ lostLeases'[r] \in Nat /\ lostLeases'[r] >= lostLeases[r]
  BY UsedType, LostGrows
<1>2. Used(r, c) <= 1 + lostLeases[r]
  BY DEF AllowanceInv, WithinAllowance
<1>3. ~ Succeeded(r, c)
  BY SuccessIsKept
<1>4. \A q \in Reminders : ~ ClaimJob(w, q)
  <2>. SUFFICES ASSUME NEW q \in Reminders, ClaimJob(w, q) PROVE FALSE
    OBVIOUS
  <2>1. wk'[w].pc = "load"
    BY MoveClaim
  <2>. QED  BY <2>1 DEF MaySend
<1>5. HoldsLease(w) /\ wk[w].r = r
  BY <1>4, LeaseKept
<1>6. \A v \in Workers : ~ ClaimJob(v, r)
  <2>. SUFFICES ASSUME NEW v \in Workers, ClaimJob(v, r) PROVE FALSE
    OBVIOUS
  <2>1. job'[r].owner = v
    BY MoveClaim
  <2>2. job'[r].owner = w
    BY DEF HoldsLease
  <2>. QED  BY <1>4, <2>1, <2>2
<1>7. ~ InDoubt(w, c)
  BY <1>5, DoubtEnds
<1>8. Used(r, c)' <= Used(r, c) /\ (MaySend(w, r, c) => Used(r, c)' <= Used(r, c) - 1)
  BY <1>6, UsedFalls DEF AttemptInv
<1>9. CASE MaySend(w, r, c)
  BY <1>1, <1>2, <1>8, <1>9
<1>10. CASE ~ MaySend(w, r, c)
  <2>1. Used(r, c) <= lostLeases[r]
    BY <1>3, <1>5, <1>7, <1>10 DEF AllowanceInv, FreeAfterTrying
  <2>. QED  BY <1>1, <1>8, <2>1
<1>. QED  BY <1>9, <1>10

LEMMA AllowanceInit == Init => FailedTogether /\ AllowanceInv
<1>. SUFFICES ASSUME Init PROVE FailedTogether /\ AllowanceInv
  OBVIOUS
<1>1. /\ NotHolding("idle", None, 0).r = NoReminder /\ NoJob.status = "absent"
      /\ NotHolding("idle", None, 0).pc = "idle"
  BY DEF NotHolding, NoJob
<1>2. \A w \in Workers : wk[w].r = NoReminder
  BY <1>1 DEF Init
<1>3. \A r \in Reminders, c \in Channels : Senders(r, c) = {}
  BY <1>2, DeliveryAssumption DEF Senders, MaySend
<1>4. \A r \in Reminders, c \in Channels : Used(r, c) = 0
  <2>. SUFFICES ASSUME NEW r \in Reminders, NEW c \in Channels PROVE Used(r, c) = 0
    OBVIOUS
  <2>1. accepted[r][c] = 0 /\ unheard[r][c] = 0
    BY DEF Init
  <2>2. Cardinality(Senders(r, c)) = 0
    BY <1>3, FS_EmptySet
  <2>. QED  BY <2>1, <2>2 DEF Used, Heard
<1>5. AllowanceInv
  BY <1>4 DEF Init, AllowanceInv, WithinAllowance, FreeBetweenLeases, FreeAfterTrying
<1>6. FailedTogether
  BY <1>1 DEF Init, FailedTogether, Half, Settled
<1>. QED  BY <1>5, <1>6

\* No channel takes a reminder more often than answers and leases were lost, plus
\* once: for any number of schedulers and crashes, however long providers take to
\* answer and whatever the owner does meanwhile.  There is no other way to a
\* duplicate.
THEOREM DuplicatesAreOwedToLoss == Spec => []DuplicatesNeedLoss
<1>1. TypeInv /\ AttemptInv /\ FailedTogether /\ AllowanceInv /\ [Next]_vars =>
        AttemptInv' /\ FailedTogether' /\ AllowanceInv'
  BY TypeStep, AttemptStep, FailedStep, AllowanceStep, AfterTryingStep DEF AllowanceInv
<1>2. TypeInv /\ AllowanceInv => DuplicatesNeedLoss
  <2>. SUFFICES ASSUME TypeInv, AllowanceInv, NEW r \in Reminders, NEW c \in Channels
                PROVE  accepted[r][c] <= 1 + unheard[r][c] + lostLeases[r]
    BY DEF DuplicatesNeedLoss
  <2>1. Used(r, c) <= 1 + lostLeases[r]
    BY DEF AllowanceInv, WithinAllowance
  <2>2. /\ accepted[r][c] \in Nat /\ unheard[r][c] \in Nat
        /\ Cardinality(Senders(r, c)) \in Nat /\ lostLeases[r] \in Nat
    BY SendersFinite DEF TypeInv, TypeOK
  <2>. QED  BY <2>1, <2>2 DEF Used, Heard
<1>. QED  BY <1>1, <1>2, AttemptInit, AllowanceInit, TypeInvHolds, PTL DEF Spec

-----------------------------------------------------------------------------
(* The caps of a delivery cycle.  First what a step does to the cycle of a *)
(* job and to the rows of a cycle: cycles are numbered without a gap, so a *)
(* cycle that is opened has no rows yet.                                   *)

Cycles(r) == {a.cycle : a \in {b \in attempts : b.rem = r}}
InCycle(r, c, k) == {a \in attempts : a.rem = r /\ a.ch = c /\ a.cycle = k}
Tries(r, c) == InCycle(r, c, job[r].cycle)

CyclesInOrder ==
  \A r \in Reminders : \E n \in Nat : Cycles(r) = 1..n /\ job[r].cycle <= n

SameCycle(k, j) == k.cycle = j.cycle /\ k.window = j.window

\* No attempt is started on reminder r.
NoneBegun(r) == \A w \in Workers, c \in Channels : BeginAttempt(w, c) => wk[w].r # r

\* start_delivery_attempt: the row, and the cycle it may open.
LEMMA BeginRow ==
  ASSUME TypeInv, NEW w \in Workers, NEW c \in Channels, BeginAttempt(w, c),
         NEW r, wk[w].r = r
  PROVE  /\ r \in Reminders /\ ~ Over(r) /\ rem' = rem /\ lostLeases' = lostLeases
         /\ wk[w].now \in Nat
         /\ \E row \in AttemptRow, k \in Nat :
              /\ row.rem = r /\ row.ch = c /\ row.cycle = k /\ row.at = wk[w].now
              /\ attempts' = attempts \cup {row}
              /\ \/ job[r].cycle # 0 /\ k = job[r].cycle /\ job' = job
                 \/ /\ job[r].cycle = 0 /\ k = Cardinality(Cycles(r)) + 1
                    /\ job'[r].cycle = k /\ job'[r].window = wk[w].now
<1>. DEFINE cycle == IF job[r].cycle # 0 THEN job[r].cycle ELSE Cardinality(Cycles(r)) + 1
            num == Cardinality({a \in {b \in attempts : b.rem = r} : a.ch = c}) + 1
            row == [rem |-> r, ch |-> c, num |-> num, cycle |-> cycle,
                    status |-> "started", at |-> wk[w].now]
<1>1. r \in Reminders /\ wk[w].now \in Nat /\ job[r] \in JobRow
  BY DEF BeginAttempt, TypeInv, TypeOK, WorkerShape
<1>2. /\ ~ Over(r) /\ rem' = rem /\ lostLeases' = lostLeases
  BY DEF BeginAttempt, DueAndActive, Over, OpenStatus, ClosedStatus, Settled, history
<1>3. Cardinality(Cycles(r)) \in Nat
  BY CountsAreNat DEF Cycles
<1>4. cycle \in Nat
  BY <1>1, <1>3 DEF JobRow
<1>5. num \in Nat
  <2>1. {a \in {b \in attempts : b.rem = r} : a.ch = c} = RowsOf(r, c)
    BY DEF RowsOf
  <2>2. num = Cardinality(RowsOf(r, c)) + 1
    BY <2>1
  <2>. HIDE DEF num
  <2>. QED  BY <2>2, RowsFinite
<1>6. /\ attempts' = attempts \cup {row}
      /\ job' = IF job[r].cycle # 0 THEN job
                ELSE [job EXCEPT ![r].cycle = cycle, ![r].window = wk[w].now]
  BY DEF BeginAttempt, Cycles
<1>. HIDE DEF cycle, num
<1>7. /\ row \in AttemptRow /\ row.rem = r /\ row.ch = c /\ row.cycle = cycle
      /\ row.at = wk[w].now
  BY <1>1, <1>4, <1>5 DEF AttemptRow
<1>8. \/ job[r].cycle # 0 /\ cycle = job[r].cycle /\ job' = job
      \/ /\ job[r].cycle = 0 /\ cycle = Cardinality(Cycles(r)) + 1
         /\ job'[r].cycle = cycle /\ job'[r].window = wk[w].now
  <2>1. CASE job[r].cycle # 0
    BY <1>6, <2>1 DEF cycle
  <2>2. CASE job[r].cycle = 0
    <3>1. job' = [job EXCEPT ![r] = [@ EXCEPT !.cycle = cycle, !.window = wk[w].now]]
      BY <1>1, <1>6, <2>2 DEF TypeInv, TypeOK
    <3>2. LET k == [job[r] EXCEPT !.cycle = cycle, !.window = wk[w].now]
          IN  k.cycle = cycle /\ k.window = wk[w].now
      BY <1>1 DEF JobRow
    <3>3. job'[r].cycle = cycle /\ job'[r].window = wk[w].now
      BY <1>1, <3>1, <3>2 DEF TypeInv, TypeOK
    <3>. QED  BY <2>2, <3>3 DEF cycle
  <2>. QED  BY <2>1, <2>2
<1>. HIDE DEF row
<1>. QED  BY <1>1, <1>2, <1>4, <1>6, <1>7, <1>8

\* The writes on a job that leave its cycle alone.
LEMMA CycleAfterWrite ==
  ASSUME NEW j \in JobRow, NEW x, NEW y, NEW z
  PROVE  /\ SameCycle([j EXCEPT !.policy = x], j)
         /\ SameCycle([j EXCEPT !.terminal = x], j)
         /\ SameCycle([j EXCEPT !.status = "leased", !.owner = x, !.token = y, !.expires = z], j)
         /\ SameCycle(Unleased(j), j)
         /\ SameCycle([Unleased(j) EXCEPT !.status = x], j)
         /\ SameCycle([Unleased(j) EXCEPT !.status = x, !.avail = y], j)
         /\ SameCycle(CancelledJob(j), j)
  BY DEF SameCycle, Unleased, CancelledJob, JobRow

\* The next reconciliation opens a cancelled job without a cycle, and changes no
\* other.
LEMMA CycleAfterReconcile ==
  ASSUME NEW x \in ReminderRow, NEW j \in JobRow, NEW now \in Nat
  PROVE  LET k == ReconciledJob(x, j, now) IN
         \/ SameCycle(k, j)
         \/ k.cycle = 0 /\ k.window = None /\ k.status # "leased"
<1>. DEFINE queued == [Unleased(j) EXCEPT !.status = "queued", !.avail = AvailableAt(x, now)]
            fresh == [queued EXCEPT !.window = None, !.cycle = 0]
<1>1. SameCycle(queued, j)
  BY CycleAfterWrite
<1>2. fresh.cycle = 0 /\ fresh.window = None /\ fresh.status # "leased"
  BY DEF Unleased, JobRow
<1>3. LET k == QueuedJob(AvailableAt(x, now))
      IN  k.cycle = 0 /\ k.window = None /\ k.status # "leased"
  BY DEF QueuedJob, NoJob
<1>4. SameCycle(TerminalJob(x, j, now), j)
  <2>1. Unleased(j).avail = j.avail
    BY DEF Unleased, JobRow
  <2>. QED  BY <2>1, CycleAfterWrite DEF TerminalJob, SameCycle
<1>5. SameCycle(j, j)
  BY DEF SameCycle
<1>. HIDE DEF queued, fresh
<1>. QED  BY <1>1, <1>2, <1>3, <1>4, <1>5 DEF ReconciledJob, queued, fresh

\* A job keeps its cycle until it has none, unless a first attempt opens one.
LEMMA CycleMoves ==
  ASSUME TypeInv, Next, NEW r \in Reminders, NoneBegun(r)
  PROVE  \/ SameCycle(job'[r], job[r])
         \/ job'[r].cycle = 0 /\ job'[r].window = None /\ job'[r].status # "leased"
<1>. rem \in [Reminders -> ReminderRow] /\ job \in [Reminders -> JobRow] /\ clock \in Nat
  BY DEF TypeInv, TypeOK
<1>. DEFINE Goal == \/ SameCycle(job'[r], job[r])
                    \/ job'[r].cycle = 0 /\ job'[r].window = None /\ job'[r].status # "leased"
<1>0. job'[r] = job[r] => Goal
  BY DEF SameCycle
<1>00. ASSUME NEW q \in Reminders, NEW k, job' = [job EXCEPT ![q] = k], SameCycle(k, job[q])
       PROVE  Goal
  BY <1>0, <1>00
<1>1. CASE Request
  <2>1. PICK q \in Reminders :
          \/ \E due \in Dues : \/ CreateReminder(q, due) \/ ImportReminder(q, due)
                              \/ PatchReminder(q, due)
          \/ \E status \in ClosedStatus : CloseReminder(q, status)
          \/ ManualRetry(q) \/ MarkFired(q)
    BY <1>1 DEF Request
  <2>2. \/ job' = job
        \/ \E t : job' = [job EXCEPT ![q] = QueuedJob(t)]
        \/ job' = [job EXCEPT ![q] = CancelledJob(job[q])]
    BY <2>1 DEF CreateReminder, ImportReminder, PatchReminder, CloseReminder,
       ManualRetry, MarkFired
  <2>3. ASSUME NEW t, job' = [job EXCEPT ![q] = QueuedJob(t)] PROVE Goal
    <3>1. LET k == QueuedJob(t) IN k.cycle = 0 /\ k.window = None /\ k.status # "leased"
      BY DEF QueuedJob, NoJob
    <3>. QED  BY <1>0, <2>3, <3>1
  <2>4. CASE job' = [job EXCEPT ![q] = CancelledJob(job[q])]
    BY <1>00, <2>4, CycleAfterWrite
  <2>. QED  BY <1>0, <2>2, <2>3, <2>4
<1>2. ASSUME NEW w \in Workers, WorkerStep(w)
      PROVE  Goal
  <2>. DEFINE s == wk[w]
              j == job[s.r]
  <2>1. CASE StartRun(w)
    <3>1. job'[r] = job[r] \/ job'[r] = ReconciledJob(ReconciledReminder(rem[r], clock), job[r], clock)
      BY <2>1 DEF StartRun
    <3>2. ReconciledReminder(rem[r], clock) \in ReminderRow
      BY ReconciledReminderType
    <3>. QED  BY <1>0, <3>1, <3>2, CycleAfterReconcile
  <2>2. ASSUME NEW q \in Reminders, ClaimJob(w, q) PROVE Goal
    <3>1. PICK t : job' = [job EXCEPT ![q] = [job[q] EXCEPT !.status = "leased", !.owner = w,
                                                !.token = t, !.expires = wk[w].now + Lease]]
      BY <2>2 DEF ClaimJob
    <3>. QED  BY <1>00, <3>1, CycleAfterWrite
  <2>3. CASE SnapshotPolicy(w)
    <3>1. s.r \in Reminders /\ j \in JobRow
      BY <2>3 DEF SnapshotPolicy, TypeInv, TypeOK, WorkerShape
    <3>2. job' = job \/ \E p : job' = [job EXCEPT ![s.r] = [j EXCEPT !.policy = p]]
      BY <3>1, <2>3 DEF SnapshotPolicy
    <3>3. \A p : SameCycle([j EXCEPT !.policy = p], j)
      BY <3>1, CycleAfterWrite
    <3>. QED  BY <1>0, <1>00, <3>1, <3>2, <3>3
  <2>4. CASE RecordTerminal(w)
    <3>1. s.r \in Reminders /\ j \in JobRow
      BY <2>4 DEF RecordTerminal, TypeInv, TypeOK, WorkerShape
    <3>2. job' = job \/ \E t : job' = [job EXCEPT ![s.r] = [j EXCEPT !.terminal = t]]
      BY <3>1, <2>4 DEF RecordTerminal
    <3>3. \A t : SameCycle([j EXCEPT !.terminal = t], j)
      BY <3>1, CycleAfterWrite
    <3>. QED  BY <1>0, <1>00, <3>1, <3>2, <3>3
  <2>5. ASSUME NEW c \in Channels, BeginAttempt(w, c)
        PROVE  Goal
    <3>1. s.r # r
      BY <2>5 DEF NoneBegun
    <3>2. job' = job \/ \E k, t : job' = [job EXCEPT ![s.r] = [@ EXCEPT !.cycle = k, !.window = t]]
      BY <2>5, MoveBegin
    <3>. QED  BY <1>0, <3>1, <3>2
  <2>6. CASE Commit(w)
    <3>1. s.r \in Reminders /\ j \in JobRow
      BY <2>6 DEF Commit, TypeInv, TypeOK, WorkerShape
    <3>2. SameCycle(CommittedJob(j, s.verdict, s.retryAt), j)
          /\ SameCycle([Unleased(j) EXCEPT !.status = "cancelled"], j)
      BY <3>1, CycleAfterWrite DEF CommittedJob
    <3>3. \/ job' = job
          \/ job' = [job EXCEPT ![s.r] = CommittedJob(j, s.verdict, s.retryAt)]
          \/ job' = [job EXCEPT ![s.r] = [Unleased(j) EXCEPT !.status = "cancelled"]]
      BY <2>6 DEF Commit
    <3>. QED  BY <1>0, <1>00, <3>1, <3>2, <3>3
  <2>7. CASE Suppress(w)
    <3>1. s.r \in Reminders /\ j \in JobRow
      BY <2>7 DEF Suppress, TypeInv, TypeOK, WorkerShape
    <3>2. job' = job \/ \E x : job' = [job EXCEPT ![s.r] = [Unleased(j) EXCEPT !.status = x]]
      BY <2>7 DEF Suppress
    <3>3. \A x : SameCycle([Unleased(j) EXCEPT !.status = x], j)
      BY <3>1, CycleAfterWrite
    <3>. QED  BY <1>0, <1>00, <3>1, <3>2, <3>3
  <2>8. CASE \/ EndRun(w) \/ LoadReminder(w) \/ SettingsFailure(w) \/ PlanChannels(w)
             \/ StopInLoop(w) \/ Recheck(w) \/ AnswerLost(w) \/ FinishAttempt(w) \/ Evaluate(w)
             \/ \E kind \in {"success", "retryable", "permanent"} : ProviderAnswers(w, kind)
    <3>1. job' = job
      BY <2>8 DEF EndRun, LoadReminder, SettingsFailure, PlanChannels, StopInLoop, Recheck,
         FinishAttempt, Evaluate, AnswerLost, ProviderAnswers
    <3>. QED  BY <1>0, <3>1
  <2>. QED  BY <1>2, <2>1, <2>2, <2>3, <2>4, <2>5, <2>6, <2>7, <2>8 DEF WorkerStep
<1>3. CASE Tick \/ \E w \in Workers : Crash(w)
  BY <1>0, <1>3 DEF Tick, Crash
<1>. QED  BY <1>1, <1>2, <1>3 DEF Next

\* Without a new attempt the rows of a reminder keep their cycles.
LEMMA RowsInCycle ==
  ASSUME TypeInv, [Next]_vars, NEW r \in Reminders, NoneBegun(r)
  PROVE  /\ Cycles(r)' = Cycles(r)
         /\ \A c \in Channels, k \in Nat :
              Cardinality(InCycle(r, c, k)') <= Cardinality(InCycle(r, c, k))
<1>. DEFINE Goal == /\ Cycles(r)' = Cycles(r)
                    /\ \A c \in Channels, k \in Nat :
                         Cardinality(InCycle(r, c, k)') <= Cardinality(InCycle(r, c, k))
<1>0. \A c, k : IsFiniteSet(InCycle(r, c, k)) /\ Cardinality(InCycle(r, c, k)) \in Nat
  <2>. SUFFICES ASSUME NEW c, NEW k
                PROVE  IsFiniteSet(InCycle(r, c, k)) /\ Cardinality(InCycle(r, c, k)) \in Nat
    OBVIOUS
  <2>1. IsFiniteSet(attempts) /\ InCycle(r, c, k) \subseteq attempts
    BY DEF TypeInv, TypeOK, InCycle
  <2>2. IsFiniteSet(InCycle(r, c, k))
    BY <2>1, FS_Subset
  <2>. QED  BY <2>2, FS_CardinalityType
<1>1. ASSUME Cycles(r)' = Cycles(r), \A c \in Channels, k \in Nat : InCycle(r, c, k)' = InCycle(r, c, k)
      PROVE  Goal
  BY <1>0, <1>1
<1>2. CASE attempts' = attempts
  BY <1>1, <1>2 DEF Cycles, InCycle
<1>3. ASSUME NEW w \in Workers, NEW d \in Channels, BeginAttempt(w, d)
      PROVE  Goal
  <2>1. wk[w].r # r
    BY <1>3 DEF NoneBegun
  <2>2. PICK row : row.rem = wk[w].r /\ attempts' = attempts \cup {row}
    <3>1. \E row \in AttemptRow :
            /\ row.rem = wk[w].r /\ row.ch = d /\ row.num = wk'[w].num /\ row.status = "started"
            /\ attempts' = attempts \cup {row}
      BY <1>3, MoveBegin
    <3>. QED  BY <3>1
  <2>3. {b \in attempts : b.rem = r}' = {b \in attempts : b.rem = r}
    BY <2>1, <2>2
  <2>4. Cycles(r)' = Cycles(r)
    BY <2>3 DEF Cycles
  <2>5. \A c, k : InCycle(r, c, k)' = InCycle(r, c, k)
    BY <2>1, <2>2 DEF InCycle
  <2>. QED  BY <1>1, <2>4, <2>5
<1>4. ASSUME NEW w \in Workers, NEW status \in {"succeeded", "failed"}, attempts' = Finished(w, status)
      PROVE  Goal
  <2>1. PICK f \in [attempts -> AttemptRow] :
          /\ Finished(w, status) = {f[a] : a \in attempts}
          /\ \A a \in attempts : f[a].rem = a.rem /\ f[a].ch = a.ch /\ f[a].num = a.num
          /\ \A a \in attempts : f[a].cycle = a.cycle /\ f[a].at = a.at
    BY FinishedRows
  <2>2. attempts' = {f[a] : a \in attempts}
    BY <1>4, <2>1
  <2>3. Cycles(r)' = Cycles(r)
    <3>1. \A n \in Cycles(r) : n \in Cycles(r)'
      BY <2>1, <2>2 DEF Cycles
    <3>2. \A n \in Cycles(r)' : n \in Cycles(r)
      BY <2>1, <2>2 DEF Cycles
    <3>. QED  BY <3>1, <3>2
  <2>4. ASSUME NEW c \in Channels, NEW k \in Nat
        PROVE  Cardinality(InCycle(r, c, k)') <= Cardinality(InCycle(r, c, k))
    <3>. DEFINE S == InCycle(r, c, k)
                T == InCycle(r, c, k)'
                g == [a \in S |-> f[a]]
    <3>1. \A a \in S : f[a] \in T
      BY <2>1, <2>2 DEF InCycle
    <3>2. \A b \in T : \E a \in S : f[a] = b
      BY <2>1, <2>2 DEF InCycle
    <3>3. IsFiniteSet(S)
      BY <1>0
    <3>. HIDE DEF S, T
    <3>4. g \in Surjection(S, T)
      BY <3>1, <3>2 DEF Surjection
    <3>5. Cardinality(T) <= Cardinality(S)
      BY <3>3, <3>4, FS_Surjection
    <3>. QED  BY <3>5 DEF S, T
  <2>. QED  BY <2>3, <2>4
<1>5. CASE Tick \/ Request \/ UNCHANGED vars
  BY <1>2, <1>5, RequestsLeaveWorkers
<1>6. ASSUME NEW w \in Workers, WorkerStep(w) \/ Crash(w)
      PROVE  Goal
  <2>1. AtSameAttempt(w) => attempts' = attempts
    BY DEF AtSameAttempt
  <2>2. RowFinished(w) => \E status \in {"succeeded", "failed"} : attempts' = Finished(w, status)
    BY DEF RowFinished
  <2>. QED  BY <1>2, <1>3, <1>4, <1>6, <2>1, <2>2, AttemptMoves
<1>. QED  BY <1>5, <1>6 DEF Next

LEMMA CyclesStep ==
  ASSUME TypeInv, CyclesInOrder, [Next]_vars
  PROVE  CyclesInOrder'
<1>. SUFFICES ASSUME NEW r \in Reminders
              PROVE  \E n \in Nat : Cycles(r)' = 1..n /\ job'[r].cycle <= n
  BY DEF CyclesInOrder, Cycles
<1>1. PICK n \in Nat : Cycles(r) = 1..n /\ job[r].cycle <= n
  BY DEF CyclesInOrder
<1>2. job[r].cycle \in Nat
  BY DEF TypeInv, TypeOK, JobRow
<1>3. CASE NoneBegun(r)
  <2>1. Cycles(r)' = 1..n
    BY <1>1, <1>3, RowsInCycle
  <2>2. job'[r].cycle = job[r].cycle \/ job'[r].cycle = 0
    <3>1. CASE Next
      BY <1>3, <3>1, CycleMoves DEF SameCycle
    <3>. QED  BY <3>1 DEF vars
  <2>. QED  BY <1>1, <2>1, <2>2
<1>4. CASE ~ NoneBegun(r)
  <2>1. PICK w \in Workers, c \in Channels : BeginAttempt(w, c) /\ wk[w].r = r
    BY <1>4 DEF NoneBegun
  <2>2. PICK row \in AttemptRow, k \in Nat :
          /\ row.rem = r /\ row.cycle = k
          /\ attempts' = attempts \cup {row}
          /\ \/ job[r].cycle # 0 /\ k = job[r].cycle /\ job' = job
             \/ job[r].cycle = 0 /\ k = Cardinality(Cycles(r)) + 1 /\ job'[r].cycle = k
    <3>. HIDE DEF Cycles
    <3>. QED  BY <2>1, BeginRow
  <2>3. Cardinality(1..n) = n
    BY FS_Interval
  <2>4. {b \in attempts : b.rem = r}' = {b \in attempts : b.rem = r} \cup {row}
    BY <2>2
  <2>5. Cycles(r)' = Cycles(r) \cup {k}
    BY <2>2, <2>4 DEF Cycles
  <2>6. CASE job[r].cycle # 0
    <3>1. k \in 1..n /\ job'[r].cycle <= n
      BY <1>1, <1>2, <2>2, <2>6
    <3>. QED  BY <1>1, <2>5, <3>1
  <2>7. CASE job[r].cycle = 0
    <3>1. k = n + 1 /\ job'[r].cycle = n + 1
      BY <1>1, <2>2, <2>3, <2>7
    <3>2. Cycles(r)' = 1..(n + 1)
      BY <1>1, <2>5, <3>1
    <3>. QED  BY <3>1, <3>2
  <2>. QED  BY <2>6, <2>7
<1>. QED  BY <1>3, <1>4

LEMMA TriesType ==
  ASSUME TypeInv, NEW r, NEW c
  PROVE  IsFiniteSet(Tries(r, c)) /\ Cardinality(Tries(r, c)) \in Nat
<1>1. IsFiniteSet(attempts) /\ Tries(r, c) \subseteq attempts
  BY DEF TypeInv, TypeOK, Tries, InCycle
<1>2. IsFiniteSet(Tries(r, c))
  BY <1>1, FS_Subset
<1>. QED  BY <1>2, FS_CardinalityType

\* A job without a cycle has no tries in it.
LEMMA NoCycleNoTries ==
  ASSUME CyclesInOrder, NEW r \in Reminders, NEW c, job[r].cycle = 0
  PROVE  Cardinality(Tries(r, c)) = 0
<1>1. PICK n \in Nat : Cycles(r) = 1..n
  BY DEF CyclesInOrder
<1>2. \A a \in attempts : a.rem = r => a.cycle \in 1..n
  BY <1>1 DEF Cycles
<1>3. Tries(r, c) = {}
  BY <1>2 DEF Tries, InCycle
<1>. QED  BY <1>3, FS_EmptySet

\* The tries of the current cycle grow by one, and only by an attempt.
LEMMA TriesMove ==
  ASSUME TypeInv, TypeInv', CyclesInOrder, [Next]_vars, NEW r \in Reminders, NEW c \in Channels
  PROVE  \/ Cardinality(Tries(r, c)') <= Cardinality(Tries(r, c))
         \/ /\ Cardinality(Tries(r, c)') <= Cardinality(Tries(r, c)) + 1
            /\ \E w \in Workers : BeginAttempt(w, c) /\ wk[w].r = r
<1>. DEFINE S == Tries(r, c)
            T == Tries(r, c)'
<1>1. IsFiniteSet(S) /\ Cardinality(S) \in Nat
  BY TriesType
<1>2. job[r].cycle \in Nat
  BY DEF TypeInv, TypeOK, JobRow
<1>3. CASE NoneBegun(r)
  <2>1. job'[r].cycle = job[r].cycle \/ job'[r].cycle = 0
    <3>1. CASE Next
      BY <1>3, <3>1, CycleMoves DEF SameCycle
    <3>. QED  BY <3>1 DEF vars
  <2>2. CASE job'[r].cycle = job[r].cycle
    <3>1. \A k \in Nat : Cardinality(InCycle(r, c, k)') <= Cardinality(InCycle(r, c, k))
      BY <1>3, RowsInCycle
    <3>2. PICK k \in Nat : k = job[r].cycle
      BY <1>2
    <3>3. InCycle(r, c, k)' = T /\ InCycle(r, c, k) = S
      BY <2>2, <3>2 DEF Tries, InCycle
    <3>4. Cardinality(T) <= Cardinality(S)
      BY <3>1, <3>3
    <3>. QED  BY <3>4
  <2>3. CASE job'[r].cycle = 0
    <3>1. CyclesInOrder'
      BY CyclesStep
    <3>2. PICK n \in Nat : Cycles(r)' = 1..n
      BY <3>1 DEF CyclesInOrder, Cycles
    <3>3. \A a \in attempts' : a.rem = r => a.cycle \in 1..n
      BY <3>2 DEF Cycles
    <3>4. T = {}
      BY <2>3, <3>3 DEF Tries, InCycle
    <3>5. Cardinality(T) = 0
      BY <3>4, FS_EmptySet
    <3>. HIDE DEF S, T
    <3>6. Cardinality(T) <= Cardinality(S)
      BY <1>1, <3>5
    <3>. QED  BY <3>6 DEF S, T
  <2>. QED  BY <2>1, <2>2, <2>3
<1>4. CASE ~ NoneBegun(r)
  <2>1. PICK w \in Workers, d \in Channels : BeginAttempt(w, d) /\ wk[w].r = r
    BY <1>4 DEF NoneBegun
  <2>2. PICK row \in AttemptRow, k \in Nat :
          /\ row.rem = r /\ row.ch = d /\ row.cycle = k
          /\ attempts' = attempts \cup {row}
          /\ \/ job[r].cycle # 0 /\ k = job[r].cycle /\ job' = job
             \/ job[r].cycle = 0 /\ k = Cardinality(Cycles(r)) + 1 /\ job'[r].cycle = k
    BY <2>1, BeginRow
  <2>3. ASSUME NEW a \in T
        PROVE  a \in S \/ (a = row /\ d = c)
    <3>1. CASE job[r].cycle # 0
      BY <2>2, <2>3, <3>1 DEF Tries, InCycle
    <3>2. CASE job[r].cycle = 0
      <4>1. PICK n \in Nat : Cycles(r) = 1..n
        BY DEF CyclesInOrder
      <4>2. Cardinality(1..n) = n
        BY FS_Interval
      <4>3. k = n + 1 /\ job'[r].cycle = k
        BY <2>2, <3>2, <4>1, <4>2
      <4>4. \A b \in attempts : b.rem = r => b.cycle \in 1..n
        BY <4>1 DEF Cycles
      <4>5. \A b \in attempts : b.rem = r => b.cycle # k
        BY <4>3, <4>4
      <4>. QED  BY <2>2, <2>3, <4>3, <4>5 DEF Tries, InCycle
    <3>. QED  BY <3>1, <3>2
  <2>. HIDE DEF S, T
  <2>4. IsFiniteSet(S \cup {row}) /\ Cardinality(S \cup {row}) <= Cardinality(S) + 1
    <3>1. /\ IsFiniteSet(S \cup {row})
          /\ Cardinality(S \cup {row}) = IF row \in S THEN Cardinality(S) ELSE Cardinality(S) + 1
      BY <1>1, FS_AddElement, Zenon
    <3>. QED  BY <1>1, <3>1
  <2>5. CASE d = c
    <3>0. T \subseteq S \cup {row}
      BY <2>3
    <3>1. Cardinality(T) <= Cardinality(S \cup {row})
      BY <2>4, <3>0, FS_Subset
    <3>2. Cardinality(T) \in Nat /\ Cardinality(S \cup {row}) \in Nat
      BY <2>4, <3>0, FS_Subset, FS_CardinalityType
    <3>3. Cardinality(T) <= Cardinality(S) + 1
      BY <1>1, <2>4, <3>1, <3>2
    <3>. QED  BY <2>1, <2>5, <3>3 DEF S, T
  <2>6. CASE d # c
    <3>1. T \subseteq S
      BY <2>3, <2>6
    <3>2. Cardinality(T) <= Cardinality(S)
      BY <1>1, <3>1, FS_Subset
    <3>. QED  BY <3>2 DEF S, T
  <2>. QED  BY <2>5, <2>6
<1>. QED  BY <1>3, <1>4

-----------------------------------------------------------------------------
(* Who may still try a channel.  A worker is counted from its plan on; who *)
(* has lost its lease is counted before it has planned as well, since its  *)
(* plan is not held against the tries of the others.                       *)

Before(w) == wk[w].pc \in {"load", "settings", "plan"}
Inside(w) ==
  wk[w].pc \in {"loop", "recheck", "sending", "finish", "record", "suppressAttempt"}

MayTry(w, r, c) == wk[w].r = r /\ (Before(w) \/ (Inside(w) /\ c \in wk[w].todo))

Stale(r, c) == {w \in Workers : MayTry(w, r, c) /\ ~ HoldsLease(w)}
Planned(r, c) == {w \in Workers : MayTry(w, r, c) /\ ~ (HoldsLease(w) /\ Before(w))}

\* What is over and not leased is never taken up again.
Alive(r) == job[r].status = "leased" \/ ~ Over(r)

\* Only a claim lets a worker try, and only its plan takes it further.
LEMMA TryOrigin ==
  ASSUME TypeInv, [Next]_vars, NEW w \in Workers, NEW r \in Reminders, NEW c \in Channels,
         MayTry(w, r, c)'
  PROVE  /\ MayTry(w, r, c) \/ ClaimJob(w, r)
         /\ Before(w) /\ ~ Before(w)' => PlanChannels(w) /\ wk'[w].pc = "loop"
         /\ Before(w)' => Before(w) \/ ClaimJob(w, r)
<1>. USE DEF MayTry, Before, Inside
<1>1. ~ LetGo(w)
  BY DeliveryAssumption DEF LetGo
<1>2. CASE wk'[w] = wk[w]
  BY <1>2
<1>3. CASE WorkerStep(w) \/ Crash(w)
  <2>. USE DEF SameHold, SameTry
  <2>1. ~ (StartRun(w) \/ EndRun(w) \/ SettingsFailure(w) \/ Commit(w) \/ Crash(w))
    BY <1>1, MoveAway
  <2>2. ASSUME NEW q \in Reminders, ClaimJob(w, q)
        PROVE  q = r /\ wk'[w].pc = "load" /\ wk[w].pc = "claim"
    BY <2>2, MoveClaim
  <2>3. CASE LoadReminder(w)
    BY <2>3, MoveLoad
  <2>4. CASE SnapshotPolicy(w)
    BY <1>1, <2>4, MoveSettings
  <2>5. CASE PlanChannels(w)
    BY <2>5, MovePlan
  <2>6. ASSUME NEW d \in Channels, BeginAttempt(w, d)
        PROVE  /\ wk[w].pc = "loop" /\ wk'[w].pc = "recheck"
               /\ wk'[w].todo = wk[w].todo \ {d} /\ wk'[w].r = wk[w].r
    BY <2>6, MoveBegin
  <2>7. CASE StopInLoop(w) \/ Recheck(w) \/ FinishAttempt(w)
    BY <2>7, MoveStop, MoveRecheck, MoveFinish
  <2>8. CASE \E kind \in {"success", "retryable", "permanent"} : ProviderAnswers(w, kind)
    BY <2>8, MoveAnswer
  <2>9. CASE RecordTerminal(w) \/ Evaluate(w) \/ Suppress(w)
    BY <1>1, <2>9, MoveRecord, MoveEvaluate, MoveSuppress
  <2>10. CASE AnswerLost(w)
    BY <1>2, <2>10, LostAnswerStands
  <2>. QED
    BY <1>3, <2>1, <2>2, <2>3, <2>4, <2>5, <2>6, <2>7, <2>8, <2>9, <2>10 DEF WorkerStep
<1>4. CASE Tick \/ Request \/ UNCHANGED vars
  BY <1>2, <1>4, RequestsLeaveWorkers
<1>. QED  BY <1>2, <1>3, <1>4, OthersStand DEF Next

\* A claim gives its worker the lease.
LEMMA ClaimHolds ==
  ASSUME TypeInv, NEW w \in Workers, NEW r \in Reminders, ClaimJob(w, r)
  PROVE  /\ HoldsLease(w)' /\ Before(w)'
         /\ wk'[w].cycle = job[r].cycle /\ wk'[w].window = job[r].window
         /\ wk'[w].now = wk[w].now
         /\ job'[r].cycle = job[r].cycle /\ job'[r].window = job[r].window
<1>. DEFINE holding(t) == [NotHolding("load", wk[w].now, wk[w].left - 1) EXCEPT
                             !.r = r, !.token = t, !.window = job[r].window, !.cycle = job[r].cycle,
                             !.policy = job[r].policy, !.terminal = job[r].terminal]
            leased(t) == [job[r] EXCEPT !.status = "leased", !.owner = w, !.token = t,
                                        !.expires = wk[w].now + Lease]
<1>1. PICK t \in Tokens : /\ wk' = [wk EXCEPT ![w] = holding(t)]
                          /\ job' = [job EXCEPT ![r] = leased(t)]
  BY DEF ClaimJob
<1>2. /\ holding(t).pc = "load" /\ holding(t).r = r /\ holding(t).token = t
      /\ holding(t).cycle = job[r].cycle /\ holding(t).window = job[r].window
      /\ holding(t).now = wk[w].now
  BY DEF NotHolding
<1>3. /\ leased(t).status = "leased" /\ leased(t).owner = w /\ leased(t).token = t
      /\ leased(t).cycle = job[r].cycle /\ leased(t).window = job[r].window
  BY DEF TypeInv, TypeOK, JobRow
<1>. HIDE DEF holding, leased
<1>. QED  BY <1>1, <1>2, <1>3 DEF HoldsLease, Before, TypeInv, TypeOK

\* What is alive was alive before, and a worker that lost its lease in between was
\* counted in lostLeases.
LEMMA StaleOrigin ==
  ASSUME TypeInv, FailedTogether, [Next]_vars, NEW r \in Reminders, NEW c \in Channels, Alive(r)'
  PROVE  /\ Alive(r)
         /\ \A w \in Workers : MayTry(w, r, c)' /\ HoldsLease(w) /\ ~ HoldsLease(w)' =>
              lostLeases'[r] = lostLeases[r] + 1
<1>1. Alive(r)
  <2>. SUFFICES ASSUME job[r].status # "leased", Over(r) PROVE FALSE
    BY DEF Alive
  <2>1. job'[r].status = "leased"
    BY OverStands DEF Alive, Over
  <2>2. \A w \in Workers : ~ ClaimJob(w, r)
    BY ClaimOrigin
  <2>3. CASE Next
    BY <2>1, <2>2, <2>3, LeaseOrigin DEF SameLease
  <2>. QED  BY <2>1, <2>3 DEF vars
<1>2. ASSUME NEW w \in Workers, MayTry(w, r, c)', HoldsLease(w), ~ HoldsLease(w)'
      PROVE  lostLeases'[r] = lostLeases[r] + 1
  <2>1. \A q \in Reminders : ~ ClaimJob(w, q)
    BY <1>2, ClaimHolds
  <2>2. wk'[w].r = r /\ MayTry(w, r, c) /\ wk[w].r = r
    BY <1>2, <2>1, TryOrigin DEF MayTry
  <2>3. wk'[w].token = wk[w].token
    BY <2>1, <2>2, HoldKept
  <2>4. job[r].status = "leased" /\ job[r].owner = w /\ job[r].token = wk[w].token
    BY <1>2, <2>2 DEF HoldsLease
  <2>5. CASE job'[r].status # "leased"
    <3>1. \A v \in Workers : HoldsLease(v) /\ wk[v].r = r => v = w
      BY <2>4 DEF HoldsLease
    <3>2. wk[w].pc \notin {"commit", "suppress"}
      BY <2>2 DEF MayTry, Before, Inside
    <3>3. ~ Over(r)'
      BY <2>5 DEF Alive, Over
    <3>. QED  BY <2>4, <2>5, <3>1, <3>2, <3>3, LeaseEnds
  <2>6. CASE job'[r].status = "leased"
    <3>1. ~ SameLease(job'[r], job[r])
      BY <1>2, <2>2, <2>3, <2>4, <2>6 DEF SameLease, HoldsLease
    <3>2. PICK v \in Workers : ClaimJob(v, r)
      <4>1. CASE Next
        BY <2>6, <3>1, <4>1, LeaseOrigin
      <4>2. CASE UNCHANGED vars
        BY <3>1, <4>2 DEF vars, SameLease
      <4>. QED  BY <4>1, <4>2
    <3>. QED  BY <2>4, <3>2, ClaimOrigin
  <2>. QED  BY <2>5, <2>6
<1>. QED  BY <1>1, <1>2

LEMMA WorkersCount ==
  ASSUME NEW S, NEW T, S \subseteq Workers, T \subseteq Workers
  PROVE  /\ Cardinality(S) \in Nat /\ Cardinality(T) \in Nat
         /\ T \subseteq S => Cardinality(T) <= Cardinality(S)
         /\ \A w : T \subseteq S \cup {w} => Cardinality(T) <= Cardinality(S) + 1
         /\ \A w : T \subseteq S /\ w \in S /\ w \notin T => Cardinality(T) <= Cardinality(S) - 1
<1>1. /\ IsFiniteSet(S) /\ IsFiniteSet(T)
      /\ Cardinality(S) \in Nat /\ Cardinality(T) \in Nat
  BY FS_Subset, FS_CardinalityType, DeliveryAssumption
<1>2. T \subseteq S => Cardinality(T) <= Cardinality(S)
  BY <1>1, FS_Subset
<1>3. ASSUME NEW w, T \subseteq S \cup {w}
      PROVE  Cardinality(T) <= Cardinality(S) + 1
  <2>1. /\ IsFiniteSet(S \cup {w})
        /\ Cardinality(S \cup {w}) = IF w \in S THEN Cardinality(S) ELSE Cardinality(S) + 1
    BY <1>1, FS_AddElement, Zenon
  <2>2. Cardinality(T) <= Cardinality(S \cup {w})
    BY <1>3, <2>1, FS_Subset
  <2>. QED  BY <1>1, <2>1, <2>2
<1>4. ASSUME NEW w, T \subseteq S, w \in S, w \notin T
      PROVE  Cardinality(T) <= Cardinality(S) - 1
  <2>1. IsFiniteSet(S \ {w}) /\ Cardinality(S \ {w}) = Cardinality(S) - 1
    BY <1>1, <1>4, FS_RemoveElement
  <2>2. T \subseteq S \ {w}
    BY <1>4
  <2>3. Cardinality(T) <= Cardinality(S \ {w})
    BY <2>1, <2>2, FS_Subset
  <2>. QED  BY <2>1, <2>3
<1>. QED  BY <1>1, <1>2, <1>3, <1>4

\* A try takes its worker off the list of those who may still make it.
LEMMA BeginEndsTry ==
  ASSUME TypeInv, NEW w \in Workers, NEW r, NEW c \in Channels,
         BeginAttempt(w, c), wk[w].r = r
  PROVE  /\ MayTry(w, r, c) /\ Inside(w) /\ ~ Before(w) /\ ~ MayTry(w, r, c)'
         /\ lostLeases' = lostLeases
<1>1. /\ wk[w].pc = "loop" /\ c \in wk[w].todo /\ wk'[w].pc = "recheck"
      /\ wk'[w].todo = wk[w].todo \ {c}
  BY MoveBegin
<1>2. lostLeases' = lostLeases
  BY DEF BeginAttempt, history
<1>. QED  BY <1>1, <1>2 DEF MayTry, Inside, Before

\* Every holder that joins the stale workers is counted in lostLeases.
LEMMA StaleMoves ==
  ASSUME TypeInv, TypeInv', FailedTogether, [Next]_vars, NEW r \in Reminders, NEW c \in Channels,
         Alive(r)'
  PROVE  /\ Cardinality(Stale(r, c)) \in Nat /\ Cardinality(Stale(r, c)') \in Nat
         /\ Cardinality(Stale(r, c)') + lostLeases[r] <= Cardinality(Stale(r, c)) + lostLeases'[r]
         /\ \A w \in Workers : BeginAttempt(w, c) /\ wk[w].r = r /\ ~ HoldsLease(w) =>
              Cardinality(Stale(r, c)') <= Cardinality(Stale(r, c)) - 1
<1>. DEFINE S == Stale(r, c)
            T == Stale(r, c)'
            h == job[r].owner
<1>1. S \subseteq Workers /\ T \subseteq Workers
  BY DEF Stale
<1>2. lostLeases[r] \in Nat /\ lostLeases'[r] \in Nat /\ lostLeases'[r] >= lostLeases[r]
  BY LostGrows DEF TypeInv, TypeOK
<1>3. ASSUME NEW w \in T
      PROVE  w \in S \/ (lostLeases'[r] = lostLeases[r] + 1 /\ w = h)
  <2>1. w \in Workers /\ MayTry(w, r, c)' /\ ~ HoldsLease(w)'
    BY <1>3 DEF Stale
  <2>2. MayTry(w, r, c)
    BY <2>1, TryOrigin, ClaimHolds
  <2>3. CASE HoldsLease(w)
    BY <2>1, <2>2, <2>3, StaleOrigin DEF HoldsLease, MayTry
  <2>. QED  BY <2>1, <2>2, <2>3 DEF Stale
<1>4. \A w \in Workers : BeginAttempt(w, c) /\ wk[w].r = r /\ ~ HoldsLease(w) =>
        w \in S /\ w \notin T /\ lostLeases'[r] = lostLeases[r]
  BY BeginEndsTry DEF Stale
<1>. HIDE DEF S, T, h
<1>5. Cardinality(S) \in Nat /\ Cardinality(T) \in Nat
  BY <1>1, WorkersCount
<1>6. CASE T \subseteq S
  <2>1. Cardinality(T) <= Cardinality(S)
    BY <1>1, <1>6, WorkersCount
  <2>2. \A w \in Workers : BeginAttempt(w, c) /\ wk[w].r = r /\ ~ HoldsLease(w) =>
          Cardinality(T) <= Cardinality(S) - 1
    BY <1>1, <1>4, <1>6, WorkersCount
  <2>. QED  BY <1>2, <1>5, <2>1, <2>2 DEF S, T
<1>7. CASE ~ (T \subseteq S)
  <2>1. lostLeases'[r] = lostLeases[r] + 1
    BY <1>3, <1>7
  <2>2. T \subseteq S \cup {h}
    BY <1>3
  <2>3. Cardinality(T) <= Cardinality(S) + 1
    BY <1>1, <2>2, WorkersCount
  <2>4. \A w \in Workers : ~ (BeginAttempt(w, c) /\ wk[w].r = r /\ ~ HoldsLease(w))
    BY <1>2, <1>4, <2>1
  <2>. QED  BY <1>2, <1>5, <2>1, <2>3, <2>4 DEF S, T
<1>. QED  BY <1>6, <1>7

\* w, under its lease, has planned to try channel c.
PlansTry(w, r, c) ==
  /\ PlanChannels(w) /\ HoldsLease(w) /\ wk[w].r = r /\ Before(w)
  /\ wk'[w].pc = "loop" /\ c \in wk'[w].todo

\* But for a plan, the same of those who may still try.
LEMMA PlannedMoves ==
  ASSUME TypeInv, TypeInv', FailedTogether, [Next]_vars, NEW r \in Reminders, NEW c \in Channels,
         Alive(r)'
  PROVE  /\ Cardinality(Planned(r, c)) \in Nat /\ Cardinality(Planned(r, c)') \in Nat
         /\ \/ \E w \in Workers : PlansTry(w, r, c)
            \/ /\ Cardinality(Planned(r, c)') + lostLeases[r]
                    <= Cardinality(Planned(r, c)) + lostLeases'[r]
               /\ \A w \in Workers : BeginAttempt(w, c) /\ wk[w].r = r =>
                    Cardinality(Planned(r, c)') <= Cardinality(Planned(r, c)) - 1
<1>. DEFINE S == Planned(r, c)
            T == Planned(r, c)'
            h == job[r].owner
<1>1. S \subseteq Workers /\ T \subseteq Workers
  BY DEF Planned
<1>2. lostLeases[r] \in Nat /\ lostLeases'[r] \in Nat /\ lostLeases'[r] >= lostLeases[r]
  BY LostGrows DEF TypeInv, TypeOK
<1>3. ASSUME NEW w \in T
      PROVE  w \in S \/ (lostLeases'[r] = lostLeases[r] + 1 /\ w = h) \/ PlansTry(w, r, c)
  <2>1. w \in Workers /\ MayTry(w, r, c)' /\ ~ (HoldsLease(w)' /\ Before(w)')
    BY <1>3 DEF Planned, Before
  <2>2. MayTry(w, r, c)
    BY <2>1, TryOrigin, ClaimHolds
  <2>3. CASE ~ (HoldsLease(w) /\ Before(w))
    BY <2>1, <2>2, <2>3 DEF Planned
  <2>4. CASE HoldsLease(w) /\ ~ HoldsLease(w)'
    BY <2>1, <2>2, <2>4, StaleOrigin DEF HoldsLease, MayTry
  <2>5. CASE HoldsLease(w) /\ Before(w) /\ HoldsLease(w)'
    <3>1. PlanChannels(w) /\ wk'[w].pc = "loop"
      BY <2>1, <2>5, TryOrigin
    <3>2. c \in wk'[w].todo
      BY <2>1, <3>1 DEF MayTry, Before
    <3>. QED  BY <2>2, <2>5, <3>1, <3>2 DEF PlansTry, MayTry
  <2>. QED  BY <2>3, <2>4, <2>5
<1>4. \A w \in Workers : BeginAttempt(w, c) /\ wk[w].r = r =>
        w \in S /\ w \notin T /\ lostLeases'[r] = lostLeases[r]
  BY BeginEndsTry DEF Planned
<1>. HIDE DEF S, T, h
<1>5. Cardinality(S) \in Nat /\ Cardinality(T) \in Nat
  BY <1>1, WorkersCount
<1>6. CASE \E w \in Workers : PlansTry(w, r, c)
  BY <1>5, <1>6 DEF S, T
<1>7. CASE T \subseteq S
  <2>1. Cardinality(T) <= Cardinality(S)
    BY <1>1, <1>7, WorkersCount
  <2>2. \A w \in Workers : BeginAttempt(w, c) /\ wk[w].r = r => Cardinality(T) <= Cardinality(S) - 1
    BY <1>1, <1>4, <1>7, WorkersCount
  <2>. QED  BY <1>2, <1>5, <2>1, <2>2 DEF S, T
<1>8. CASE ~ (T \subseteq S) /\ ~ \E w \in Workers : PlansTry(w, r, c)
  <2>1. lostLeases'[r] = lostLeases[r] + 1 /\ T \subseteq S \cup {h}
    BY <1>1, <1>3, <1>8
  <2>2. Cardinality(T) <= Cardinality(S) + 1
    BY <1>1, <2>1, WorkersCount
  <2>3. \A w \in Workers : ~ (BeginAttempt(w, c) /\ wk[w].r = r)
    BY <1>2, <1>4, <2>1
  <2>. QED  BY <1>2, <1>5, <2>1, <2>2, <2>3 DEF S, T
<1>. QED  BY <1>6, <1>7, <1>8

\* What _channel_plan has checked when it lets the channels be tried.
LEMMA PlanChecks ==
  ASSUME TypeInv, NEW w \in Workers, PlanChannels(w), wk'[w].pc = "loop"
  PROVE  /\ ~ WindowOver(wk[w]) /\ wk'[w].now = wk[w].now
         /\ \A c \in wk'[w].todo : AttemptCount(wk[w].r, c, wk[w].cycle) < MaxAttempts
         /\ job' = job /\ attempts' = attempts /\ lostLeases' = lostLeases
<1>. DEFINE s == wk[w]
            pending == {c \in RequiredChannels(s.policy) \cup OptionalChannels(s.policy) :
                          ~ Succeeded(s.r, c) /\ c \notin s.terminal}
            exhausted == \/ WindowOver(s)
                         \/ \E c \in pending : AttemptCount(s.r, c, s.cycle) >= MaxAttempts
            failing == [s EXCEPT !.pc = "commit", !.verdict = "failed"]
            looping(t) == [s EXCEPT !.pc = "loop", !.todo = t]
<1>1. wk' = [wk EXCEPT ![w] = IF exhausted THEN failing ELSE looping(pending)]
  BY DEF PlanChannels
<1>2. failing.pc = "commit"
  BY DEF TypeInv, TypeOK, WorkerState
<1>3. \A t : looping(t).todo = t /\ looping(t).now = s.now
  BY DEF TypeInv, TypeOK, WorkerState
<1>4. \A c : AttemptCount(s.r, c, s.cycle) \in Nat
  BY CountsAreNat
<1>. HIDE DEF failing, looping, pending, exhausted
<1>5. wk'[w] = IF exhausted THEN failing ELSE looping(pending)
  BY <1>1 DEF TypeInv, TypeOK
<1>6. ~ exhausted
  BY <1>2, <1>5
<1>7. wk'[w].todo = pending /\ wk'[w].now = s.now
  BY <1>3, <1>5, <1>6
<1>8. ~ WindowOver(s) /\ \A c \in pending : ~ (AttemptCount(s.r, c, s.cycle) >= MaxAttempts)
  BY <1>6 DEF exhausted
<1>9. MaxAttempts \in Nat
  BY DeliveryAssumption
<1>10. \A c \in wk'[w].todo : AttemptCount(s.r, c, s.cycle) < MaxAttempts
  BY <1>4, <1>7, <1>8, <1>9
<1>11. job' = job /\ attempts' = attempts /\ lostLeases' = lostLeases
  BY DEF PlanChannels, history
<1>. QED  BY <1>7, <1>8, <1>10, <1>11

\* The holder's plan adds nobody but the holder to the stale workers.
LEMMA PlanAddsOne ==
  ASSUME TypeInv, NEW w \in Workers, NEW r \in Reminders, NEW c \in Channels, PlansTry(w, r, c)
  PROVE  Cardinality(Planned(r, c)') <= Cardinality(Stale(r, c)) + 1
<1>1. job' = job /\ wk[w].r = r /\ HoldsLease(w) /\ \A v \in Workers : v # w => wk'[v] = wk[v]
  BY PlanChecks, OthersStand DEF PlansTry, WorkerStep
<1>2. ASSUME NEW v \in Workers, v # w, v \in Planned(r, c)'
      PROVE  v \in Stale(r, c)
  <2>1. MayTry(v, r, c)
    BY <1>1, <1>2 DEF Planned, MayTry, Before, Inside
  <2>2. ~ HoldsLease(v)
    BY <1>1, <1>2, <2>1 DEF HoldsLease, MayTry
  <2>. QED  BY <2>1, <2>2 DEF Stale
<1>3. /\ Planned(r, c)' \subseteq Workers /\ Stale(r, c) \subseteq Workers
      /\ Planned(r, c)' \subseteq Stale(r, c) \cup {w}
  BY <1>2 DEF Planned, Stale
<1>4. \A S, T : S \subseteq Workers /\ T \subseteq Workers /\ T \subseteq S \cup {w} =>
        Cardinality(T) <= Cardinality(S) + 1
  BY WorkersCount
<1>. HIDE DEF Planned, Stale
<1>. QED  BY <1>3, <1>4

-----------------------------------------------------------------------------
(* The budget.  Of the tries of a cycle, and of those to come, all but     *)
(* MaxAttempts belong to workers that lost their lease.                    *)

CapKept ==
  \A r \in Reminders, c \in Channels : Alive(r) =>
    Cardinality(Tries(r, c)) + Cardinality(Planned(r, c)) <= MaxAttempts + lostLeases[r]
StaleAreLost ==
  \A r \in Reminders, c \in Channels : Alive(r) =>
    Cardinality(Stale(r, c)) <= lostLeases[r]
\* Before it plans, a holder may not know the cycle of its job: a stale worker has
\* opened it, and nobody else has tried in it.
DriftIsLost ==
  \A w \in Workers, r \in Reminders, c \in Channels :
    (wk[w].r = r /\ HoldsLease(w) /\ Before(w) /\ wk[w].cycle # job[r].cycle) =>
      Cardinality(Tries(r, c)) + Cardinality(Stale(r, c)) <= lostLeases[r]

BudgetInv == BudgetPerCycle /\ CyclesInOrder /\ CapKept /\ StaleAreLost /\ DriftIsLost

LEMMA CapTypes ==
  ASSUME TypeInv, TypeInv', NEW r \in Reminders, NEW c \in Channels
  PROVE  /\ Cardinality(Tries(r, c)) \in Nat /\ Cardinality(Tries(r, c)') \in Nat
         /\ lostLeases[r] \in Nat /\ lostLeases'[r] \in Nat /\ MaxAttempts \in Nat \ {0}
<1>1. Tries(r, c)' \subseteq attempts' /\ IsFiniteSet(attempts')
  BY DEF TypeInv, TypeOK, Tries, InCycle
<1>2. IsFiniteSet(Tries(r, c)')
  BY <1>1, FS_Subset
<1>3. Cardinality(Tries(r, c)') \in Nat
  BY <1>2, FS_CardinalityType
<1>. QED  BY <1>3, TriesType, DeliveryAssumption DEF TypeInv, TypeOK

LEMMA StaleStep ==
  ASSUME TypeInv, TypeInv', FailedTogether, BudgetInv, [Next]_vars
  PROVE  StaleAreLost'
<1>. SUFFICES ASSUME NEW r \in Reminders, NEW c \in Channels, Alive(r)'
              PROVE  Cardinality(Stale(r, c)') <= lostLeases'[r]
  BY DEF StaleAreLost, Alive, Over, Stale, MayTry, Before, Inside
<1>1. Cardinality(Stale(r, c)) <= lostLeases[r]
  BY StaleOrigin DEF BudgetInv, StaleAreLost
<1>2. /\ Cardinality(Stale(r, c)) \in Nat /\ Cardinality(Stale(r, c)') \in Nat
      /\ Cardinality(Stale(r, c)') + lostLeases[r] <= Cardinality(Stale(r, c)) + lostLeases'[r]
  BY StaleMoves
<1>3. lostLeases[r] \in Nat /\ lostLeases'[r] \in Nat
  BY CapTypes
<1>. QED  BY <1>1, <1>2, <1>3

LEMMA CapStep ==
  ASSUME TypeInv, TypeInv', FailedTogether, BudgetInv, [Next]_vars,
         NEW r \in Reminders, NEW c \in Channels, Alive(r)'
  PROVE  Cardinality(Tries(r, c)') + Cardinality(Planned(r, c)') <= MaxAttempts + lostLeases'[r]
<1>. DEFINE t == Cardinality(Tries(r, c))
            u == Cardinality(Tries(r, c)')
            p == Cardinality(Planned(r, c))
            q == Cardinality(Planned(r, c)')
            s == Cardinality(Stale(r, c))
            n == lostLeases[r]
            m == lostLeases'[r]
<1>1. /\ t \in Nat /\ u \in Nat /\ p \in Nat /\ q \in Nat /\ s \in Nat
      /\ n \in Nat /\ m \in Nat /\ MaxAttempts \in Nat \ {0}
  BY CapTypes, StaleMoves, PlannedMoves
<1>2. Alive(r) /\ t + p <= MaxAttempts + n /\ s <= n
  BY StaleOrigin DEF BudgetInv, CapKept, StaleAreLost
<1>3. \/ u <= t
      \/ u <= t + 1 /\ \E w \in Workers : BeginAttempt(w, c) /\ wk[w].r = r
  BY TriesMove DEF BudgetInv
<1>. HIDE DEF t, u, p, q, s, n, m
<1>4. ASSUME NEW w \in Workers, PlansTry(w, r, c)
      PROVE  u + q <= MaxAttempts + m
  <2>1. /\ q <= s + 1
    BY <1>4, PlanAddsOne DEF q, s
  <2>2. u = t /\ m = n /\ AttemptCount(r, c, wk[w].cycle) < MaxAttempts
    BY <1>4, PlanChecks DEF PlansTry, u, t, m, n, Tries, InCycle
  <2>3. CASE wk[w].cycle = job[r].cycle
    <3>1. t < MaxAttempts
      <4>1. CASE job[r].cycle = 0
        BY <1>1, <4>1, NoCycleNoTries DEF BudgetInv, t
      <4>2. CASE job[r].cycle # 0
        BY <2>2, <2>3, <4>2 DEF AttemptCount, t, Tries, InCycle
      <4>. QED  BY <4>1, <4>2
    <3>. QED  BY <1>1, <1>2, <2>1, <2>2, <3>1
  <2>4. CASE wk[w].cycle # job[r].cycle
    <3>1. t + s <= n
      BY <1>4, <2>4 DEF BudgetInv, DriftIsLost, PlansTry, t, s, n
    <3>. QED  BY <1>1, <2>1, <2>2, <3>1
  <2>. QED  BY <2>3, <2>4
<1>5. ASSUME ~ \E w \in Workers : PlansTry(w, r, c)
      PROVE  u + q <= MaxAttempts + m
  <2>1. /\ q + n <= p + m
        /\ \A w \in Workers : BeginAttempt(w, c) /\ wk[w].r = r => q <= p - 1
    BY <1>5, PlannedMoves DEF q, n, p, m
  <2>2. CASE u <= t
    BY <1>1, <1>2, <2>1, <2>2
  <2>3. ASSUME u <= t + 1, NEW w \in Workers, BeginAttempt(w, c), wk[w].r = r
        PROVE  u + q <= MaxAttempts + m
    <3>1. q <= p - 1 /\ m = n
      BY <2>1, <2>3, BeginEndsTry DEF m, n
    <3>. QED  BY <1>1, <1>2, <2>3, <3>1
  <2>. QED  BY <1>3, <2>2, <2>3
<1>. QED  BY <1>4, <1>5 DEF u, q, m

\* A worker's copies before its plan: of the claim, or of the time it read the settings.
LEMMA CopyMoves ==
  ASSUME TypeInv, [Next]_vars, NEW w \in Workers, NEW r \in Reminders,
         wk'[w].r = r, Before(w)', ~ ClaimJob(w, r)
  PROVE  /\ Before(w) /\ wk[w].r = r /\ wk'[w].now = wk[w].now
         /\ \/ wk'[w].cycle = wk[w].cycle /\ wk'[w].window = wk[w].window
            \/ /\ wk'[w].cycle = job[r].cycle /\ wk'[w].window = job[r].window
               /\ job'[r].cycle = job[r].cycle /\ job'[r].window = job[r].window
<1>1. \A c \in Channels : MayTry(w, r, c)'
  BY DEF MayTry, Before, Inside
<1>2. PICK c \in Channels : MayTry(w, r, c)'
  BY <1>1 DEF Channels
<1>3. Before(w) /\ wk[w].r = r
  BY <1>2, TryOrigin DEF MayTry
<1>4. CASE wk'[w] = wk[w]
  BY <1>3, <1>4
<1>5. CASE LoadReminder(w)
  <2>. DEFINE s == wk[w]
              next == IF s.policy = NoPolicy THEN "settings" ELSE "plan"
              going == [s EXCEPT !.version = rem[s.r].version, !.pc = next]
              stopping == [s EXCEPT !.pc = "suppress", !.verdict = SuppressAs(rem[s.r])]
  <2>1. wk' = [wk EXCEPT ![w] = going] \/ wk' = [wk EXCEPT ![w] = stopping]
    BY <1>5 DEF LoadReminder
  <2>2. /\ going.now = s.now /\ going.cycle = s.cycle /\ going.window = s.window
        /\ stopping.now = s.now /\ stopping.cycle = s.cycle /\ stopping.window = s.window
    BY DEF TypeInv, TypeOK, WorkerState
  <2>. HIDE DEF going, stopping
  <2>. QED  BY <1>3, <2>1, <2>2 DEF TypeInv, TypeOK
<1>6. CASE SnapshotPolicy(w)
  <2>. DEFINE j == job[r]
              kept(p) == IF j.policy = NoPolicy THEN p ELSE j.policy
              holding(p) == [wk[w] EXCEPT !.pc = "plan", !.policy = p, !.window = j.window,
                                          !.cycle = j.cycle, !.terminal = j.terminal]
              noted(p) == [j EXCEPT !.policy = p]
  <2>1. HoldsLease(w)
    <3>1. ~ LetGo(w)
      BY DeliveryAssumption DEF LetGo
    <3>. QED  BY <1>6, <3>1, MoveSettings
  <2>2. PICK p \in Settings : /\ wk' = [wk EXCEPT ![w] = holding(kept(p))]
                              /\ job' = [job EXCEPT ![r] = noted(kept(p))]
    BY <1>3, <1>6, <2>1 DEF SnapshotPolicy
  <2>3. \A x : /\ holding(x).now = wk[w].now /\ holding(x).cycle = j.cycle
               /\ holding(x).window = j.window
    BY DEF TypeInv, TypeOK, WorkerState
  <2>4. \A x : noted(x).cycle = j.cycle /\ noted(x).window = j.window
    BY DEF TypeInv, TypeOK, JobRow
  <2>. HIDE DEF holding, noted, kept
  <2>. QED  BY <1>3, <2>2, <2>3, <2>4 DEF TypeInv, TypeOK
<1>7. CASE PlanChannels(w)
  BY <1>7, MovePlan DEF Before
<1>8. CASE WorkerStep(w) \/ Crash(w)
  <2>1. ~ LetGo(w)
    BY DeliveryAssumption DEF LetGo
  <2>2. wk[w].pc \in {"load", "settings", "plan"}
    BY <1>3 DEF Before
  <2>3. ~ (StartRun(w) \/ EndRun(w) \/ SettingsFailure(w) \/ Commit(w) \/ Crash(w))
    BY <2>1, MoveAway
  <2>4. /\ \A q \in Reminders : ~ ClaimJob(w, q)
        /\ \A d \in Channels : ~ BeginAttempt(w, d)
        /\ \A kind \in {"success", "retryable", "permanent"} : ~ ProviderAnswers(w, kind)
        /\ ~ (StopInLoop(w) \/ Recheck(w) \/ FinishAttempt(w) \/ RecordTerminal(w)
              \/ Evaluate(w) \/ Suppress(w) \/ AnswerLost(w))
    BY <2>2 DEF ClaimJob, AnswerLost, BeginAttempt, ProviderAnswers, StopInLoop, Recheck, FinishAttempt,
       RecordTerminal, Evaluate, Suppress
  <2>. QED  BY <1>5, <1>6, <1>7, <1>8, <2>3, <2>4 DEF WorkerStep
<1>9. CASE Tick \/ Request \/ UNCHANGED vars
  BY <1>4, <1>9, RequestsLeaveWorkers
<1>. QED  BY <1>4, <1>8, <1>9, OthersStand DEF Next

LEMMA DriftStep ==
  ASSUME TypeInv, TypeInv', FailedTogether, BudgetInv, [Next]_vars,
         NEW w \in Workers, NEW r \in Reminders, NEW c \in Channels,
         wk'[w].r = r, HoldsLease(w)', Before(w)', wk'[w].cycle # job'[r].cycle
  PROVE  Cardinality(Tries(r, c)') + Cardinality(Stale(r, c)') <= lostLeases'[r]
<1>. DEFINE t == Cardinality(Tries(r, c))
            u == Cardinality(Tries(r, c)')
            p == Cardinality(Stale(r, c))
            q == Cardinality(Stale(r, c)')
            n == lostLeases[r]
            m == lostLeases'[r]
<1>1. \A x \in Reminders : ~ ClaimJob(w, x)
  <2>. SUFFICES ASSUME NEW x \in Reminders, ClaimJob(w, x) PROVE FALSE
    OBVIOUS
  <2>1. x = r
    BY MoveClaim
  <2>. QED  BY <2>1, ClaimHolds
<1>2. Before(w) /\ wk[w].r = r /\ wk'[w].cycle = wk[w].cycle
  BY <1>1, CopyMoves
<1>3. HoldsLease(w) /\ job[r].status = "leased" /\ job'[r].status = "leased" /\ job[r].owner = w
  BY <1>1, <1>2, LeaseKept DEF HoldsLease
<1>4. Alive(r) /\ Alive(r)'
  BY <1>3 DEF Alive
<1>5. /\ t \in Nat /\ u \in Nat /\ p \in Nat /\ q \in Nat /\ n \in Nat /\ m \in Nat /\ m >= n
      /\ q + n <= p + m
  BY <1>4, CapTypes, StaleMoves, LostGrows
<1>6. \A v \in Workers : BeginAttempt(v, c) /\ wk[v].r = r => q <= p - 1
  <2>. SUFFICES ASSUME NEW v \in Workers, BeginAttempt(v, c), wk[v].r = r PROVE q <= p - 1
    OBVIOUS
  <2>1. v # w
    BY <1>2, BeginEndsTry
  <2>2. ~ HoldsLease(v)
    BY <1>3, <2>1 DEF HoldsLease
  <2>. QED  BY <1>4, <2>2, StaleMoves
<1>7. t + p <= n
  <2>1. CASE wk[w].cycle # job[r].cycle
    BY <1>2, <1>3, <2>1 DEF BudgetInv, DriftIsLost
  <2>2. CASE wk[w].cycle = job[r].cycle
    <3>1. job'[r].cycle # job[r].cycle
      BY <1>2, <2>2
    <3>2. ~ NoneBegun(r)
      <4>1. CASE Next
        BY <1>3, <3>1, <4>1, CycleMoves DEF SameCycle
      <4>. QED  BY <3>1, <4>1 DEF vars
    <3>3. PICK v \in Workers, d \in Channels : BeginAttempt(v, d) /\ wk[v].r = r
      BY <3>2 DEF NoneBegun
    <3>4. job[r].cycle = 0
      BY <3>1, <3>3, BeginRow
    <3>5. t = 0
      BY <3>4, NoCycleNoTries DEF BudgetInv
    <3>6. p <= n
      BY <1>4 DEF BudgetInv, StaleAreLost
    <3>. HIDE DEF t, p, n
    <3>. QED  BY <1>5, <3>5, <3>6
  <2>. QED  BY <2>1, <2>2
<1>8. u <= t \/ (u <= t + 1 /\ \E v \in Workers : BeginAttempt(v, c) /\ wk[v].r = r)
  BY TriesMove DEF BudgetInv
<1>. HIDE DEF t, u, p, q, n, m
<1>9. CASE u <= t
  <2>1. u + q <= m
    BY <1>5, <1>7, <1>9
  <2>. QED  BY <2>1 DEF u, q, m
<1>10. CASE u <= t + 1 /\ \E v \in Workers : BeginAttempt(v, c) /\ wk[v].r = r
  <2>1. q <= p - 1
    BY <1>6, <1>10
  <2>2. u + q <= m
    BY <1>5, <1>7, <1>10, <2>1
  <2>. QED  BY <2>2 DEF u, q, m
<1>. QED  BY <1>8, <1>9, <1>10

LEMMA BudgetStep ==
  ASSUME TypeInv, TypeInv', FailedTogether, BudgetInv, [Next]_vars
  PROVE  BudgetInv'
<1>1. CyclesInOrder'
  BY CyclesStep DEF BudgetInv
<1>2. CapKept'
  BY CapStep DEF CapKept, Alive, Over, Planned, MayTry, Before, Inside, Tries, InCycle
<1>3. StaleAreLost'
  BY StaleStep
<1>4. DriftIsLost'
  BY DriftStep DEF DriftIsLost, Before, Stale, MayTry, Inside, Tries, InCycle
<1>5. BudgetPerCycle'
  <2>. SUFFICES ASSUME NEW r \in Reminders, NEW c \in Channels
                PROVE  Cardinality(Tries(r, c)') <= MaxAttempts + lostLeases'[r]
    BY DEF BudgetPerCycle, Tries, InCycle
  <2>. DEFINE t == Cardinality(Tries(r, c))
              u == Cardinality(Tries(r, c)')
  <2>1. /\ t \in Nat /\ u \in Nat /\ lostLeases[r] \in Nat /\ lostLeases'[r] \in Nat
        /\ lostLeases'[r] >= lostLeases[r] /\ MaxAttempts \in Nat
    BY CapTypes, LostGrows
  <2>2. t <= MaxAttempts + lostLeases[r]
    BY DEF BudgetInv, BudgetPerCycle, Tries, InCycle
  <2>3. CASE Alive(r)'
    <3>1. u + Cardinality(Planned(r, c)') <= MaxAttempts + lostLeases'[r]
      BY <2>3, CapStep
    <3>2. Cardinality(Planned(r, c)') \in Nat
      BY <2>3, PlannedMoves
    <3>. HIDE DEF u
    <3>3. u <= MaxAttempts + lostLeases'[r]
      BY <2>1, <3>1, <3>2
    <3>. QED  BY <3>3 DEF u
  <2>4. CASE ~ Alive(r)'
    <3>1. \A w \in Workers : ~ (BeginAttempt(w, c) /\ wk[w].r = r)
      BY <2>4, BeginRow DEF Alive, Over
    <3>2. u <= t
      BY <3>1, TriesMove DEF BudgetInv
    <3>. HIDE DEF u, t
    <3>3. u <= MaxAttempts + lostLeases'[r]
      BY <2>1, <2>2, <3>2
    <3>. QED  BY <3>3 DEF u
  <2>. QED  BY <2>3, <2>4
<1>. QED  BY <1>1, <1>2, <1>3, <1>4, <1>5 DEF BudgetInv

LEMMA BudgetInit == Init => BudgetInv
<1>. SUFFICES ASSUME Init PROVE BudgetInv
  OBVIOUS
<1>1. NotHolding("idle", None, 0).pc = "idle" /\ NoJob.cycle = 0
  BY DEF NotHolding, NoJob
<1>2. \A w \in Workers : wk[w].pc = "idle"
  BY <1>1 DEF Init
<1>3. \A r, c : Stale(r, c) = {} /\ Planned(r, c) = {}
  BY <1>2 DEF Stale, Planned, MayTry, Before, Inside
<1>4. \A r, c : Tries(r, c) = {}
  BY DEF Init, Tries, InCycle
<1>5. \A r, c : /\ Cardinality(Stale(r, c)) = 0 /\ Cardinality(Planned(r, c)) = 0
                /\ Cardinality(Tries(r, c)) = 0
  BY <1>3, <1>4, FS_EmptySet
<1>6. \A r \in Reminders : lostLeases[r] = 0 /\ MaxAttempts \in Nat
  BY DeliveryAssumption DEF Init
<1>7. CapKept /\ StaleAreLost
  BY <1>5, <1>6 DEF CapKept, StaleAreLost
<1>8. DriftIsLost
  BY <1>2 DEF DriftIsLost, Before
<1>9. CyclesInOrder
  <2>. SUFFICES ASSUME NEW r \in Reminders
                PROVE  \E n \in Nat : Cycles(r) = 1..n /\ job[r].cycle <= n
    BY DEF CyclesInOrder
  <2>1. Cycles(r) = {} /\ 1..0 = {} /\ job[r].cycle = 0
    BY <1>1 DEF Init, Cycles
  <2>. QED  BY <2>1
<1>10. BudgetPerCycle
  BY <1>5, <1>6 DEF BudgetPerCycle, Tries, InCycle
<1>. QED  BY <1>7, <1>8, <1>9, <1>10 DEF BudgetInv

\* In one delivery cycle no channel is tried more often than MaxAttempts, plus once
\* for every holder that lost its lease: for any number of schedulers, however long
\* they are held up and in whatever order they plan, open cycles and try.
THEOREM BudgetIsKept == Spec => []BudgetPerCycle
<1>1. TypeInv /\ TypeInv' /\ FailedTogether /\ BudgetInv /\ [Next]_vars =>
        FailedTogether' /\ BudgetInv'
  BY FailedStep, BudgetStep
<1>2. BudgetInv => BudgetPerCycle
  BY DEF BudgetInv
<1>3. Init => FailedTogether
  BY AllowanceInit
<1>. QED  BY <1>1, <1>2, <1>3, BudgetInit, TypeInvHolds, PTL DEF Spec

-----------------------------------------------------------------------------
(* The window.  One scheduler plans with the window of the cycle it tries  *)
(* in, or opens a new one, and its run has one time from plan to try.  Two *)
(* do not: one that was held up before its first attempt may open a window *)
(* that the run of the other has left behind.                              *)

OneScheduler == \A v, w \in Workers : v = w

WindowKnown == \A r \in Reminders : job[r].cycle # 0 => job[r].window # None
CopiesMatch ==
  \A w \in Workers, r \in Reminders : wk[w].r = r /\ Before(w) =>
    \/ job[r].cycle = 0
    \/ wk[w].cycle = job[r].cycle /\ wk[w].window = job[r].window
InWindow ==
  \A w \in Workers, r \in Reminders : wk[w].r = r /\ Inside(w) =>
    job[r].cycle = 0 \/ wk[w].now < job[r].window + Window

WindowInv == WindowPerCycle /\ WindowKnown /\ CopiesMatch /\ InWindow

\* From the plan to the last try a worker has one time and one reminder.
LEMMA InsideMoves ==
  ASSUME TypeInv, [Next]_vars, NEW w \in Workers, Inside(w)'
  PROVE  /\ wk'[w].r = wk[w].r /\ wk'[w].now = wk[w].now
         /\ Inside(w) \/ PlanChannels(w)
<1>. USE DEF Inside
<1>1. CASE wk'[w] = wk[w]
  BY <1>1
<1>2. CASE WorkerStep(w) \/ Crash(w)
  <2>. DEFINE s == wk[w]
  <2>. USE DEF SameHold, TypeInv, TypeOK, WorkerState
  <2>1. ~ LetGo(w)
    BY DEF LetGo
  <2>2. ~ (StartRun(w) \/ EndRun(w) \/ SettingsFailure(w) \/ Commit(w) \/ Crash(w))
    BY <2>1, MoveAway
  <2>3. ~ (LoadReminder(w) \/ SnapshotPolicy(w) \/ StopInLoop(w) \/ Evaluate(w))
    BY <2>1, MoveLoad, MoveSettings, MoveStop, MoveEvaluate
  <2>4. \A q \in Reminders : ~ ClaimJob(w, q)
    BY MoveClaim
  <2>5. CASE PlanChannels(w)
    BY <2>5, MovePlan, PlanChecks
  <2>6. ASSUME NEW d \in Channels, BeginAttempt(w, d)
        PROVE  wk'[w].r = s.r /\ wk'[w].now = s.now /\ Inside(w)
    <3>1. wk[w].pc = "loop" /\ wk'[w].r = s.r
      BY <2>6, MoveBegin
    <3>2. \E k, m : wk' = [wk EXCEPT ![w] = [@ EXCEPT !.pc = "recheck", !.todo = s.todo \ {d},
                                               !.ch = d, !.num = k, !.ordinal[d] = m]]
      BY <2>6 DEF BeginAttempt
    <3>. QED  BY <3>1, <3>2
  <2>7. CASE Recheck(w)
    <3>1. wk[w].pc = "recheck" /\ wk'[w].r = s.r
      BY <2>7, MoveRecheck
    <3>. DEFINE giving == [s EXCEPT !.pc = "suppressAttempt", !.outcome[s.ch] = "suppressed",
                                    !.verdict = SuppressAs(rem[s.r])]
                forced == [s EXCEPT !.pc = "finish", !.outcome[s.ch] = "permanent"]
                calling == [s EXCEPT !.pc = "sending"]
    <3>2. \/ wk' = [wk EXCEPT ![w] = giving]
          \/ wk' = [wk EXCEPT ![w] = forced]
          \/ wk' = [wk EXCEPT ![w] = calling]
      BY <2>7 DEF Recheck
    <3>3. giving.now = s.now /\ forced.now = s.now /\ calling.now = s.now
      OBVIOUS
    <3>. HIDE DEF giving, forced, calling
    <3>4. wk'[w].now = s.now
      BY <3>2, <3>3
    <3>. QED  BY <3>1, <3>4
  <2>8. ASSUME NEW kind \in {"success", "retryable", "permanent"}, ProviderAnswers(w, kind)
        PROVE  wk'[w].r = s.r /\ wk'[w].now = s.now /\ Inside(w)
    <3>1. wk[w].pc = "sending" /\ wk'[w].r = s.r
      BY <2>8, MoveAnswer
    <3>2. wk'[w].now = s.now
      BY <2>8 DEF ProviderAnswers
    <3>. QED  BY <3>1, <3>2
  <2>9. CASE FinishAttempt(w)
    <3>1. wk[w].pc = "finish" /\ wk'[w].r = s.r
      BY <2>9, MoveFinish
    <3>2. wk'[w].now = s.now
      BY <2>9 DEF FinishAttempt, Goto
    <3>. QED  BY <3>1, <3>2
  <2>10. CASE RecordTerminal(w)
    <3>1. wk[w].pc = "record" /\ wk'[w].r = s.r
      BY <2>1, <2>10, MoveRecord
    <3>2. HoldsLease(w)
      <4>1. ~ AbortRun(w)
        BY <2>1, MoveAway
      <4>. QED  BY <2>10, <4>1 DEF RecordTerminal
    <3>. DEFINE recorded == [s EXCEPT !.pc = "loop", !.terminal = s.terminal \cup {s.ch},
                                      !.window = job[s.r].window, !.cycle = job[s.r].cycle]
    <3>3. wk'[w] = recorded
      BY <2>10, <3>2 DEF RecordTerminal
    <3>4. recorded.now = s.now
      OBVIOUS
    <3>. HIDE DEF recorded
    <3>. QED  BY <3>1, <3>3, <3>4
  <2>11. CASE Suppress(w)
    <3>1. wk[w].pc = "suppressAttempt" /\ wk'[w].r = s.r
      BY <2>1, <2>11, MoveSuppress
    <3>2. wk'[w].now = s.now
      BY <2>11, <3>1 DEF Suppress, Goto
    <3>. QED  BY <3>1, <3>2
  <2>12. CASE AnswerLost(w)
    BY <1>1, <2>12, LostAnswerStands
  <2>. QED
    BY <1>2, <2>2, <2>3, <2>4, <2>5, <2>6, <2>7, <2>8, <2>9, <2>10, <2>11, <2>12 DEF WorkerStep
<1>3. CASE Tick \/ Request \/ UNCHANGED vars
  BY <1>1, <1>3, RequestsLeaveWorkers
<1>. QED  BY <1>1, <1>2, <1>3, OthersStand DEF Next

\* Without a new attempt a reminder has the rows it had, some of them finished.
LEMMA RowOrigin ==
  ASSUME TypeInv, [Next]_vars, NEW r \in Reminders, NoneBegun(r),
         NEW a \in attempts', a.rem = r
  PROVE  \E b \in attempts : b.rem = r /\ b.cycle = a.cycle /\ b.at = a.at
<1>. DEFINE Goal == \E b \in attempts : b.rem = r /\ b.cycle = a.cycle /\ b.at = a.at
<1>1. CASE attempts' = attempts
  BY <1>1
<1>2. ASSUME NEW w \in Workers, NEW d \in Channels, BeginAttempt(w, d)
      PROVE  Goal
  <2>1. wk[w].r # r
    BY <1>2 DEF NoneBegun
  <2>2. \E row \in AttemptRow :
          /\ row.rem = wk[w].r /\ row.ch = d /\ row.num = wk'[w].num /\ row.status = "started"
          /\ attempts' = attempts \cup {row}
    BY <1>2, MoveBegin
  <2>. QED  BY <2>1, <2>2
<1>3. ASSUME NEW w \in Workers, NEW status \in {"succeeded", "failed"}, attempts' = Finished(w, status)
      PROVE  Goal
  <2>1. PICK f \in [attempts -> AttemptRow] :
          /\ Finished(w, status) = {f[b] : b \in attempts}
          /\ \A b \in attempts : f[b].rem = b.rem /\ f[b].ch = b.ch /\ f[b].num = b.num
          /\ \A b \in attempts : f[b].cycle = b.cycle /\ f[b].at = b.at
    BY FinishedRows
  <2>2. PICK b \in attempts : a = f[b]
    BY <1>3, <2>1
  <2>. QED  BY <2>1, <2>2
<1>4. CASE Tick \/ Request \/ UNCHANGED vars
  BY <1>1, <1>4, RequestsLeaveWorkers
<1>5. ASSUME NEW w \in Workers, WorkerStep(w) \/ Crash(w)
      PROVE  Goal
  <2>1. AtSameAttempt(w) => attempts' = attempts
    BY DEF AtSameAttempt
  <2>2. RowFinished(w) => \E status \in {"succeeded", "failed"} : attempts' = Finished(w, status)
    BY DEF RowFinished
  <2>. QED  BY <1>1, <1>2, <1>3, <1>5, <2>1, <2>2, AttemptMoves
<1>. QED  BY <1>4, <1>5 DEF Next

\* Cycles of one reminder: the rows of a cycle are in 1..n, the job is in one of them
\* or in none.
LEMMA RowCycles ==
  ASSUME CyclesInOrder, NEW r \in Reminders
  PROVE  \E n \in Nat : Cardinality(Cycles(r)) = n
                        /\ \A a \in attempts : a.rem = r => a.cycle \in 1..n
<1>1. PICK n \in Nat : Cycles(r) = 1..n
  BY DEF CyclesInOrder
<1>2. Cardinality(1..n) = n
  BY FS_Interval
<1>3. \A a \in attempts : a.rem = r => a.cycle \in 1..n
  BY <1>1 DEF Cycles
<1>. QED  BY <1>1, <1>2, <1>3

LEMMA WindowStep ==
  ASSUME OneScheduler, TypeInv, TypeInv', CyclesInOrder, WindowInv, [Next]_vars
  PROVE  WindowInv'
<1>0. Window \in Nat \ {0}
  BY DeliveryAssumption
<1>1. \A r \in Reminders : /\ job[r].cycle \in Nat /\ job[r].window \in OptTime
                           /\ job[r].window # None => job[r].window \in Nat
  BY DEF TypeInv, TypeOK, JobRow, OptTime
<1>2. ASSUME NEW r \in Reminders, NoneBegun(r)
      PROVE  SameCycle(job'[r], job[r]) \/ (job'[r].cycle = 0 /\ job'[r].window = None)
  <2>1. CASE Next
    BY <1>2, <2>1, CycleMoves
  <2>. QED  BY <2>1 DEF vars, SameCycle
<1>3. ASSUME NEW r \in Reminders, ~ NoneBegun(r)
      PROVE  \E w \in Workers, c \in Channels : BeginAttempt(w, c) /\ wk[w].r = r
  BY <1>3 DEF NoneBegun
<1>4. ASSUME NEW w \in Workers, NEW c \in Channels, BeginAttempt(w, c), NEW r, wk[w].r = r
      PROVE  /\ r \in Reminders /\ wk[w].now \in Nat /\ Inside(w) /\ ~ Before(w)
             /\ \/ job[r].cycle # 0 /\ job' = job
                \/ job[r].cycle = 0 /\ job'[r].window = wk[w].now
             /\ \A a \in attempts' : a.rem = r /\ a.cycle = job'[r].cycle =>
                  \/ a.at = wk[w].now
                  \/ a \in attempts /\ job' = job /\ job[r].cycle # 0
  <2>1. Inside(w) /\ ~ Before(w)
    BY <1>4, BeginEndsTry
  <2>2. PICK row \in AttemptRow, k \in Nat :
          /\ row.at = wk[w].now
          /\ attempts' = attempts \cup {row}
          /\ \/ job[r].cycle # 0 /\ k = job[r].cycle /\ job' = job
             \/ /\ job[r].cycle = 0 /\ k = Cardinality(Cycles(r)) + 1
                /\ job'[r].cycle = k /\ job'[r].window = wk[w].now
    BY <1>4, BeginRow
  <2>3. r \in Reminders /\ wk[w].now \in Nat
    BY <1>4, BeginRow
  <2>4. ASSUME NEW a \in attempts', a.rem = r, a.cycle = job'[r].cycle, a.at # wk[w].now
        PROVE  a \in attempts /\ job' = job /\ job[r].cycle # 0
    <3>1. a \in attempts
      BY <2>2, <2>4
    <3>2. PICK n \in Nat : Cardinality(Cycles(r)) = n /\ a.cycle \in 1..n
      BY <2>3, <2>4, <3>1, RowCycles
    <3>3. ~ (k = n + 1 /\ job'[r].cycle = k)
      BY <2>4, <3>2
    <3>. QED  BY <2>2, <3>1, <3>2, <3>3
  <2>. QED  BY <2>1, <2>2, <2>3, <2>4
<1>5. WindowKnown'
  <2>. SUFFICES ASSUME NEW r \in Reminders, job'[r].cycle # 0 PROVE job'[r].window # None
    BY DEF WindowKnown
  <2>1. CASE NoneBegun(r)
    BY <1>2, <2>1 DEF WindowInv, WindowKnown, SameCycle
  <2>2. CASE ~ NoneBegun(r)
    <3>1. PICK w \in Workers, c \in Channels : BeginAttempt(w, c) /\ wk[w].r = r
      BY <1>3, <2>2
    <3>2. job'[r].window = wk[w].now \/ (job' = job /\ job[r].cycle # 0)
      BY <1>4, <3>1
    <3>3. wk[w].now \in Nat
      BY <1>4, <3>1
    <3>. QED  BY <3>2, <3>3 DEF WindowInv, WindowKnown, None
  <2>. QED  BY <2>1, <2>2
<1>6. WindowPerCycle'
  <2>. SUFFICES ASSUME NEW a \in attempts', NEW r \in Reminders, a.rem = r, a.cycle = job'[r].cycle
                PROVE  job'[r].window # None /\ a.at < job'[r].window + Window
    BY DEF WindowPerCycle, TypeInv, TypeOK, AttemptRow
  <2>1. CASE NoneBegun(r)
    <3>1. PICK b \in attempts : b.rem = r /\ b.cycle = a.cycle /\ b.at = a.at
      BY <2>1, RowOrigin
    <3>2. PICK n \in Nat : b.cycle \in 1..n
      BY <3>1, RowCycles
    <3>3. job'[r].cycle # 0
      BY <3>1, <3>2
    <3>4. SameCycle(job'[r], job[r])
      BY <1>2, <2>1, <3>3
    <3>. QED  BY <3>1, <3>4 DEF WindowInv, WindowPerCycle, SameCycle
  <2>2. CASE ~ NoneBegun(r)
    <3>1. PICK w \in Workers, c \in Channels : BeginAttempt(w, c) /\ wk[w].r = r
      BY <1>3, <2>2
    <3>2. /\ wk[w].now \in Nat
          /\ \/ job[r].cycle # 0 /\ job' = job
             \/ job[r].cycle = 0 /\ job'[r].window = wk[w].now
          /\ a.at = wk[w].now \/ (a \in attempts /\ job' = job)
      BY <1>4, <3>1
    <3>3. CASE job[r].cycle # 0 /\ job' = job
      <4>1. job[r].window \in Nat
        BY <1>1, <3>3 DEF WindowInv, WindowKnown
      <4>2. wk[w].now < job[r].window + Window
        BY <1>4, <3>1, <3>3 DEF WindowInv, InWindow
      <4>3. a \in attempts => a.at < job[r].window + Window
        BY <3>3 DEF WindowInv, WindowPerCycle
      <4>. QED  BY <3>2, <3>3, <4>1, <4>2, <4>3 DEF None
    <3>4. CASE job[r].cycle = 0 /\ job'[r].window = wk[w].now
      <4>1. a.at = wk[w].now
        BY <1>4, <3>1, <3>4
      <4>. QED  BY <1>0, <3>2, <3>4, <4>1 DEF None
    <3>. QED  BY <3>2, <3>3, <3>4
  <2>. QED  BY <2>1, <2>2
<1>7. CopiesMatch'
  <2>. SUFFICES ASSUME NEW w \in Workers, NEW r \in Reminders, wk'[w].r = r, Before(w)'
                PROVE  \/ job'[r].cycle = 0
                       \/ wk'[w].cycle = job'[r].cycle /\ wk'[w].window = job'[r].window
    BY DEF CopiesMatch, Before
  <2>1. CASE ClaimJob(w, r)
    BY <2>1, ClaimHolds
  <2>2. CASE ~ ClaimJob(w, r)
    <3>1. /\ Before(w) /\ wk[w].r = r
          /\ \/ wk'[w].cycle = wk[w].cycle /\ wk'[w].window = wk[w].window
             \/ /\ wk'[w].cycle = job[r].cycle /\ wk'[w].window = job[r].window
                /\ job'[r].cycle = job[r].cycle /\ job'[r].window = job[r].window
      BY <2>2, CopyMoves
    <3>2. NoneBegun(r)
      <4>. SUFFICES ASSUME NEW v \in Workers, NEW c \in Channels, BeginAttempt(v, c), wk[v].r = r
                    PROVE  FALSE
        BY DEF NoneBegun
      <4>1. ~ Before(v)
        BY <1>4
      <4>2. v = w
        BY DEF OneScheduler
      <4>. QED  BY <3>1, <4>1, <4>2
    <3>3. SameCycle(job'[r], job[r]) \/ job'[r].cycle = 0
      BY <1>2, <3>2
    <3>. QED  BY <3>1, <3>3 DEF WindowInv, CopiesMatch, SameCycle
  <2>. QED  BY <2>1, <2>2
<1>8. InWindow'
  <2>. SUFFICES ASSUME NEW w \in Workers, NEW r \in Reminders, wk'[w].r = r, Inside(w)',
                       job'[r].cycle # 0
                PROVE  wk'[w].now < job'[r].window + Window
    BY DEF InWindow, Inside
  <2>1. wk[w].r = r /\ wk'[w].now = wk[w].now /\ (Inside(w) \/ PlanChannels(w))
    BY InsideMoves
  <2>2. CASE PlanChannels(w)
    <3>1. wk[w].pc = "plan" /\ wk'[w].pc = "loop"
      BY <2>2, MovePlan DEF Inside
    <3>2. ~ WindowOver(wk[w]) /\ job' = job
      BY <2>2, <3>1, PlanChecks
    <3>3. wk[w].window = job[r].window
      BY <2>1, <3>1, <3>2 DEF WindowInv, CopiesMatch, Before
    <3>4. job[r].window \in Nat
      BY <1>1, <3>2 DEF WindowInv, WindowKnown
    <3>5. wk[w].now \in Nat
      BY <3>1 DEF TypeInv, WorkerShape
    <3>. QED  BY <1>0, <2>1, <3>2, <3>3, <3>4, <3>5 DEF WindowOver, None
  <2>3. CASE Inside(w) /\ NoneBegun(r)
    <3>1. SameCycle(job'[r], job[r])
      BY <1>2, <2>3
    <3>. QED  BY <2>1, <2>3, <3>1 DEF WindowInv, InWindow, SameCycle
  <2>4. CASE Inside(w) /\ ~ NoneBegun(r)
    <3>1. PICK v \in Workers, c \in Channels : BeginAttempt(v, c) /\ wk[v].r = r
      BY <1>3, <2>4
    <3>2. v = w
      BY DEF OneScheduler
    <3>3. wk[w].now \in Nat /\ (job' = job \/ job'[r].window = wk[w].now)
      BY <1>4, <3>1, <3>2
    <3>4. CASE job' = job
      BY <2>1, <2>4, <3>4 DEF WindowInv, InWindow
    <3>5. CASE job'[r].window = wk[w].now
      BY <1>0, <2>1, <3>3, <3>5
    <3>. QED  BY <3>3, <3>4, <3>5
  <2>. QED  BY <2>1, <2>2, <2>3, <2>4
<1>. QED  BY <1>5, <1>6, <1>7, <1>8 DEF WindowInv

LEMMA WindowInit == Init => WindowInv
<1>. SUFFICES ASSUME Init PROVE WindowInv
  OBVIOUS
<1>1. NotHolding("idle", None, 0).pc = "idle" /\ NoJob.cycle = 0
  BY DEF NotHolding, NoJob
<1>2. \A w \in Workers : ~ Before(w) /\ ~ Inside(w)
  BY <1>1 DEF Init, Before, Inside
<1>. QED  BY <1>1, <1>2 DEF Init, WindowInv, WindowPerCycle, WindowKnown, CopiesMatch, InWindow

\* With the one scheduler the program runs, both caps of a cycle hold: the attempts
\* of a channel stay within the budget, and none starts when the retry window of
\* its cycle is over, whatever the owner and crashes do in between.
THEOREM CapsAreKept == OneScheduler => (Spec => []CapsPerCycle)
<1>. SUFFICES ASSUME OneScheduler PROVE Spec => []CapsPerCycle
  OBVIOUS
<1>1. /\ TypeInv /\ TypeInv' /\ FailedTogether /\ BudgetInv /\ WindowInv /\ [Next]_vars
      => FailedTogether' /\ BudgetInv' /\ WindowInv'
  BY FailedStep, BudgetStep, WindowStep DEF BudgetInv
<1>2. BudgetInv /\ WindowInv => CapsPerCycle
  BY DEF BudgetInv, WindowInv, CapsPerCycle
<1>3. Init => FailedTogether
  BY AllowanceInit
<1>. QED  BY <1>1, <1>2, <1>3, BudgetInit, WindowInit, TypeInvHolds, PTL DEF Spec
=============================================================================
