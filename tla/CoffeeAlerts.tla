---------------------------- MODULE CoffeeAlerts ----------------------------
(***************************************************************************)
(* The alerts of the coffee machine, services/coffee_alerts.py, with the   *)
(* state file they live in, services/app_state.py.                         *)
(*                                                                         *)
(* Home Assistant tells the bot that the machine went on or off; handlers  *)
(* ask Home Assistant back, change the state under a lock, save it in a    *)
(* thread and schedule one task per alert.  A task sends on each channel   *)
(* and marks what it sent.  Events come late, twice or not at all, saves   *)
(* fail, the process ends, and a cancelled task leaves its thread behind.  *)
(***************************************************************************)
EXTENDS Naturals, FiniteSets

CONSTANTS
  Alerts,           \* a subset of "warmed_up", "long_running"
  Delay,            \* Delay[a]: time from the activation to alert a
  HasPhones,        \* phones are configured
  Tries,            \* COFFEE_ALERT_RETRY_DELAYS_SECONDS has as many entries
  Handlers,         \* coroutines that serve requests
  Boot,             \* the coroutine of main() that runs restore
  Tasks,            \* identities of alert tasks, numbers
  NoTask,
  Kinds,            \* requests that clients make
  MaxTime, MaxChanges, MaxEdits, MaxFaults  \* bounds on time, the machine, clients, faults

Channels == {"telegram", "iphone"}
Waiters == Handlers \cup {Boot}
Actors == Waiters \cup Tasks

ASSUME AlertAssumption ==
  /\ Alerts \subseteq {"warmed_up", "long_running"}
  /\ Delay \in [Alerts -> Nat] /\ HasPhones \in BOOLEAN
  /\ Tries \in Nat \ {0}
  /\ Tasks \subseteq Nat /\ IsFiniteSet(Tasks) /\ NoTask \notin Tasks
  /\ Boot \notin Handlers /\ Waiters \cap Tasks = {}
  /\ Kinds \subseteq {"on", "off", "set", "legacy"}
  /\ MaxTime \in Nat /\ MaxChanges \in Nat /\ MaxEdits \in Nat /\ MaxFaults \in Nat

VARIABLES
  ha,        \* the switch, and the helper with the time of the last activation
  inbox,     \* events on their way from Home Assistant
  mem, disk, \* AppStateStore._state and the file
  line,      \* AppStateStore._lock: <<x, y>> if x asked for it before y, or is y
  orphans,   \* saves whose task was cancelled: what their threads will write
  tasks,     \* CoffeeAlertScheduler._tasks
  tk,        \* the tasks themselves
  hd,        \* local variables of the handlers
  timing,    \* the timing policy: known, not loaded yet, or lost by a failed roll-back
  clock, changes, edits, faults,
  told,      \* history: alert, channel and cycle of each message that was accepted
  lost,      \* history: those of told that the state does not, or may not, remember
  excused,   \* history: alerts whose timers the code gave up
  behind     \* history: a save failed, or an orphan wrote an old state

outside == <<ha, inbox, changes>>
file == <<mem, disk, line, orphans, behind>>
alarms == <<tasks, tk, told, lost, excused>>
rest == <<timing, clock, edits, faults>>
vars == <<outside, file, alarms, hd, rest>>

State == [on : BOOLEAN, since : Nat, by : {"helper", "switch"}, sent : SUBSET (Alerts \X Channels),
          enabled : SUBSET Alerts, channels : SUBSET (Alerts \X Channels)]

(* _is_alert_delivered: all effective channels are marked, or there is none. *)
Effective(m, a) ==
  {c \in Channels : <<a, c>> \in m.channels /\ (c = "iphone" => HasPhones)}
Delivered(m, a) == \A c \in Effective(m, a) : <<a, c>> \in m.sent
Outstanding(m) == {a \in m.enabled : ~Delivered(m, a)}

TurnedOn(m, since, by) == [m EXCEPT !.on = TRUE, !.since = since, !.by = by, !.sent = {}]
TurnedOff(m) == [m EXCEPT !.on = FALSE, !.since = 0, !.sent = {}]

Free == [pc |-> "free", alert |-> "none", due |-> 0, cycle |-> 0, channel |-> "telegram",
         tries |-> 0]
Blank == [on |-> FALSE, since |-> 0, by |-> "helper", sent |-> {}, enabled |-> {}, channels |-> {}]
Request(pc, kind, alert) ==
  [pc |-> pc, kind |-> kind, alert |-> alert, since |-> 0, want |-> Blank]
Idle == Request("idle", "none", "none")
Triple(t) == <<tk[t].alert, tk[t].channel, tk[t].cycle>>

(* The lock is given in the order of the requests; who is cancelled leaves. *)
InLine(q, x) == <<x, x>> \in q
Join(q, x) == q \cup {<<y, x>> : y \in {z \in Actors : InLine(q, z)} \cup {x}}
Leave(q, gone) == {p \in q : p[1] \notin gone /\ p[2] \notin gone}
Holds(x) == InLine(line, x) /\ \A y \in Actors : InLine(line, y) => <<x, y>> \in line

-----------------------------------------------------------------------------
(* Tasks.                                                                  *)
(* Mutant: nothing is cancelled.                                           *)
NoTasks == {}
(* Mutant: only tasks that still sleep are cancelled.                      *)
AwakeTasks == {tasks[a] : a \in {b \in Alerts : tasks[b] # NoTask /\ tk[tasks[b]].pc = "sleep"}}
LiveTasks == {tasks[a] : a \in Alerts} \ {NoTask}
Ended(t) == tk[t].pc \in {"free", "ended"}

(* _cancel_tasks, then a new task for each alert of need in the cycle of m. *)
(* A save goes on in its thread; a message on its way is not recalled.     *)
NewTask(a, m) ==
  [Free EXCEPT !.pc = "sleep", !.alert = a, !.cycle = m.since,
               !.due = IF m.since + Delay[a] > clock THEN m.since + Delay[a] ELSE clock]
Injections(S, T) == {f \in [S -> T] : \A x, y \in S : f[x] = f[y] => x = y}
Spread(S, T) == CHOOSE f \in Injections(S, T) : TRUE
Renew(need, m, queue) ==
  LET spare == {t \in Tasks : tk[t].pc = "free"}
      gone == {t \in LiveTasks : ~Ended(t)}
  IN  /\ Injections(need, spare) # {}
      /\ LET new == Spread(need, spare)
         IN  /\ tasks' = [a \in Alerts |-> IF a \in need THEN new[a] ELSE NoTask]
             /\ tk' = [t \in Tasks |->
                         IF \E a \in need : new[a] = t
                         THEN NewTask(CHOOSE a \in need : new[a] = t, m)
                         ELSE IF t \in gone THEN [tk[t] EXCEPT !.pc = "ended"] ELSE tk[t]]
      /\ line' = Leave(queue, gone)
      /\ orphans' = orphans \cup {mem : t \in {u \in gone : tk[u].pc = "save"}}
      /\ lost' = lost \cup {Triple(t) : t \in {u \in gone : tk[u].pc \in {"accepted", "mark"}}}

(* Mutant: one channel that was served is enough.                          *)
NeededIfUnsent(m) ==
  IF m.since # 0 THEN {a \in m.enabled : \A c \in Channels : <<a, c>> \notin m.sent} ELSE {}
(* _schedule_active_alerts.                                                *)
Needed(m) == IF m.since # 0 THEN Outstanding(m) ELSE {}
Reschedule(m, policy, queue) ==
  /\ Renew(IF policy = "known" THEN Needed(m) ELSE {}, m, queue)
  /\ excused' = IF policy = "lost" THEN Alerts ELSE {}

(* Mutant: the callback removes whatever has the name.                     *)
DropByName(t) ==
  /\ tk[t].pc = "ended"
  /\ tk' = [tk EXCEPT ![t] = Free]
  /\ tasks' = [tasks EXCEPT ![tk[t].alert] = NoTask]
  /\ UNCHANGED <<outside, file, told, lost, excused, hd, rest>>
(* The callback of a task that ended or was cancelled, _drop_task.         *)
DropTask(t) ==
  /\ tk[t].pc = "ended"
  /\ tk' = [tk EXCEPT ![t] = Free]
  /\ tasks' = [a \in Alerts |-> IF tasks[a] = t THEN NoTask ELSE tasks[a]]
  /\ UNCHANGED <<outside, file, told, lost, excused, hd, rest>>

Goes(t, pc) == tk' = [tk EXCEPT ![t] = [@ EXCEPT !.pc = pc]]

(* From one channel to the next, and from one attempt to the next.         *)
ToSend(t, m) ==
  {c \in Channels : /\ <<tk[t].alert, c>> \in m.channels /\ <<tk[t].alert, c>> \notin m.sent
                    /\ c = "iphone" => HasPhones}
SendOn(t, c) ==
  tk' = [tk EXCEPT ![t] = [@ EXCEPT !.pc = "send", !.channel = c, !.cycle = mem.since]]
EndAttempt(t, m) ==
  IF Delivered(m, tk[t].alert) THEN Goes(t, "ended") /\ UNCHANGED excused
  ELSE IF tk[t].tries + 1 < Tries
       THEN /\ tk' = [tk EXCEPT ![t] = [@ EXCEPT !.pc = "sleep", !.due = clock,
                                                 !.tries = tk[t].tries + 1]]
            /\ UNCHANGED excused
       ELSE Goes(t, "ended") /\ excused' = excused \cup {tk[t].alert}
AfterChannel(t, m) ==
  IF tk[t].channel = "telegram" /\ "iphone" \in ToSend(t, m)
  THEN SendOn(t, "iphone") /\ UNCHANGED excused
  ELSE EndAttempt(t, m)

Wake(t) ==
  /\ tk[t].pc = "sleep" /\ tk[t].due <= clock
  /\ IF ~mem.on \/ Delivered(mem, tk[t].alert) THEN Goes(t, "ended")
     ELSE SendOn(t, IF "telegram" \in ToSend(t, mem) THEN "telegram" ELSE "iphone")
  /\ UNCHANGED <<outside, file, tasks, told, lost, excused, hd, rest>>

Accepted(t) ==
  /\ tk[t].pc = "send"
  /\ told' = told \cup {Triple(t)}
  /\ Goes(t, "accepted")
  /\ UNCHANGED <<outside, file, tasks, lost, excused, hd, rest>>
Answered(t) ==
  /\ tk[t].pc = "accepted"
  /\ Goes(t, "mark") /\ line' = Join(line, t)
  /\ UNCHANGED <<outside, mem, disk, orphans, behind, tasks, told, lost, excused, hd, rest>>
(* No answer, whether or not the message was accepted.                     *)
SendFails(t) ==
  /\ tk[t].pc \in {"send", "accepted"}
  /\ faults < MaxFaults /\ faults' = faults + 1
  /\ lost' = IF tk[t].pc = "accepted" THEN lost \cup {Triple(t)} ELSE lost
  /\ AfterChannel(t, mem)
  /\ UNCHANGED <<outside, file, tasks, told, hd, timing, clock, edits>>

(* Mutant: each mark sets the flag of Telegram.                            *)
MarkedTelegram(m, a, c) == [m EXCEPT !.sent = @ \cup {<<a, "telegram">>}]
(* mark_coffee_..._sent under the lock: memory first, then the file.       *)
Marked(m, a, c) == [m EXCEPT !.sent = @ \cup {<<a, c>>}]
Mark(t) ==
  /\ tk[t].pc = "mark" /\ Holds(t)
  /\ LET a == tk[t].alert
         c == tk[t].channel
     IN  \/ /\ ~mem.on \/ <<a, c>> \in mem.sent
            /\ line' = Leave(line, {t}) /\ AfterChannel(t, mem)
            /\ UNCHANGED mem
         \/ /\ mem.on /\ <<a, c>> \notin mem.sent
            /\ mem' = Marked(mem, a, c)
            /\ Goes(t, "save")
            /\ UNCHANGED <<line, excused>>
  /\ lost' = IF mem.on /\ tk[t].cycle = mem.since THEN lost ELSE lost \cup {Triple(t)}
  /\ UNCHANGED <<outside, disk, orphans, behind, tasks, told, hd, rest>>

Saved(t) ==
  /\ tk[t].pc = "save"
  /\ disk' = mem /\ line' = Leave(line, {t}) /\ behind' = FALSE
  /\ AfterChannel(t, mem)
  /\ UNCHANGED <<outside, mem, orphans, tasks, told, lost, hd, rest>>
SaveBreaks(t) ==
  /\ tk[t].pc = "save"
  /\ faults < MaxFaults /\ faults' = faults + 1
  /\ line' = Leave(line, {t}) /\ behind' = TRUE
  /\ Goes(t, "ended") /\ excused' = excused \cup {tk[t].alert}
  /\ UNCHANGED <<outside, mem, disk, orphans, tasks, told, lost, hd, timing, clock, edits>>

OrphanWrites(o) ==
  /\ o \in orphans /\ orphans' = orphans \ {o}
  /\ disk' = o /\ behind' = (behind \/ o # mem)
  /\ UNCHANGED <<outside, mem, line, alarms, hd, rest>>

TaskStep(t) ==
  DropTask(t) \/ Wake(t) \/ Accepted(t) \/ Answered(t) \/ Mark(t) \/ Saved(t)

-----------------------------------------------------------------------------
(* The machine.  Home Assistant sets the helper when it turns on, and      *)
(* sends an event for each change.                                         *)
Switch ==
  /\ changes < MaxChanges /\ changes' = changes + 1
  /\ \/ /\ ~ha.on /\ clock > ha.since
        /\ \A a \in Alerts : clock + Delay[a] <= MaxTime
        /\ ha' = [on |-> TRUE, since |-> clock] /\ inbox' = inbox \cup {"on"}
     \/ ha.on /\ ha' = [ha EXCEPT !.on = FALSE] /\ inbox' = inbox \cup {"off"}
  /\ UNCHANGED <<file, alarms, hd, rest>>

Tick ==
  /\ clock < MaxTime /\ clock' = clock + 1
  /\ UNCHANGED <<outside, file, alarms, hd, timing, edits, faults>>

-----------------------------------------------------------------------------
(* Handlers.                                                               *)
Booting == hd[Boot].pc # "idle"
Moves(h, rec) == hd' = [hd EXCEPT ![h] = rec]
To(h, pc) == Moves(h, [hd[h] EXCEPT !.pc = pc])
Ends(h) == Moves(h, Idle)
Start(h, rec) ==
  /\ h \in Handlers /\ hd[h].pc = "idle" /\ ~Booting
  /\ Moves(h, rec)

(* handle_state, called for an event.  A webhook may be sent twice, and    *)
(* Telegram calls it beside the event of its own command.                  *)
Hear(h, again) ==
  /\ \E s \in inbox \cap Kinds :
       /\ inbox' = IF again THEN inbox ELSE inbox \ {s}
       /\ IF s = "on"
          THEN /\ Start(h, Request("switch", "on", "none"))
               /\ UNCHANGED <<file, alarms>>
          ELSE /\ Start(h, Request("lock", "off", "none"))
               /\ Renew({}, mem, Join(line, h))
               /\ UNCHANGED <<mem, disk, behind, told, excused>>
  /\ IF again THEN edits < MaxEdits /\ edits' = edits + 1 ELSE UNCHANGED edits
  /\ UNCHANGED <<ha, changes, timing, clock, faults>>
EventLost ==
  /\ faults < MaxFaults /\ faults' = faults + 1
  /\ \E s \in inbox : inbox' = inbox \ {s}
  /\ UNCHANGED <<ha, changes, file, alarms, hd, timing, clock, edits>>

(* Notification settings: the PATCH route and the buttons of Telegram.     *)
Settings == {[mem EXCEPT !.enabled = e] : e \in SUBSET Alerts}
            \cup {[mem EXCEPT !.channels = c] : c \in {Alerts \X Channels, Alerts \X {"telegram"}}}
Change(h) ==
  /\ "set" \in Kinds /\ edits < MaxEdits /\ edits' = edits + 1
  /\ Start(h, Request("lock", "set", "none"))
  /\ line' = Join(line, h)
  /\ UNCHANGED <<outside, mem, disk, orphans, behind, alarms, timing, clock, faults>>
(* A new policy reschedules, and so does a setting of PushWard; a policy   *)
(* that comes back as it was does not (reschedule_active_alerts).          *)
RescheduleActive(m, policy, queue) ==
  IF m.on /\ m.since # 0 THEN Reschedule(m, policy, queue)
  ELSE line' = queue /\ UNCHANGED <<orphans, tasks, tk, lost, excused>>
NewPolicy ==
  /\ ~Booting /\ edits < MaxEdits /\ edits' = edits + 1
  /\ timing' = "known"
  /\ \/ RescheduleActive(mem, "known", line)
     \/ timing = "lost" /\ UNCHANGED <<line, orphans, tasks, tk, lost, excused>>
  /\ UNCHANGED <<outside, mem, disk, behind, told, hd, clock, faults>>
PolicyLost ==
  /\ faults < MaxFaults /\ faults' = faults + 1
  /\ timing = "known" /\ timing' = "lost"
  /\ UNCHANGED <<outside, file, alarms, hd, clock, edits>>

(* The legacy route of an alert.                                           *)
AskForAlert(h, a) ==
  /\ "legacy" \in Kinds /\ edits < MaxEdits /\ edits' = edits + 1
  /\ a \in mem.enabled
  /\ Start(h, Request("switch", "legacy", a))
  /\ UNCHANGED <<outside, file, alarms, timing, clock, faults>>

-----------------------------------------------------------------------------
(* _canonical_activation_time: the switch, then the helper.                *)
Unconfirmed(h) ==
  \/ /\ hd[h].kind = "boot" /\ mem.on /\ mem.since # 0
     /\ Reschedule(mem, timing, line)
     /\ Ends(h)
     /\ UNCHANGED <<mem, disk, behind, told>>
  \/ /\ ~(hd[h].kind = "boot" /\ mem.on /\ mem.since # 0)
     /\ Ends(h)
     /\ UNCHANGED <<file, alarms>>

QueueUp(h, since) ==
  /\ Moves(h, [hd[h] EXCEPT !.pc = "lock", !.since = since])
  /\ line' = Join(line, h)

(* restore finds the machine off: _clear_local_cycle_if_needed.            *)
ClearCycle(h) ==
  IF ~mem.on /\ mem.since = 0 THEN Ends(h) /\ UNCHANGED <<file, alarms>>
  ELSE /\ Moves(h, [hd[h] EXCEPT !.pc = "lock", !.kind = "off"])
       /\ Renew({}, mem, Join(line, h))
       /\ UNCHANGED <<mem, disk, behind, told, excused>>

Legacy(h) == hd[h].kind = "legacy"
LegacySends(h, m) ==
  IF <<hd[h].alert, "telegram">> \in m.sent THEN Ends(h)
  ELSE Moves(h, [hd[h] EXCEPT !.pc = "send", !.since = m.since])
LegacyAsks(h) ==
  /\ Legacy(h)
  /\ \/ ~(ha.on /\ timing = "known" /\ clock >= ha.since + Delay[hd[h].alert]) /\ Ends(h) /\ UNCHANGED file
     \/ /\ ha.on /\ timing = "known" /\ clock >= ha.since + Delay[hd[h].alert]
        /\ \/ mem.on /\ LegacySends(h, mem) /\ UNCHANGED file
           \/ ~mem.on /\ QueueUp(h, ha.since) /\ UNCHANGED <<mem, disk, orphans, behind>>
  /\ UNCHANGED alarms

ReadSwitch(h) ==
  /\ hd[h].pc = "switch"
  /\ \/ ~Legacy(h) /\ ha.on /\ To(h, "helper") /\ UNCHANGED <<file, alarms>>
     \/ hd[h].kind = "on" /\ ~ha.on /\ Unconfirmed(h)
     \/ hd[h].kind = "boot" /\ ~ha.on /\ ClearCycle(h)
     \/ LegacyAsks(h)
  /\ UNCHANGED <<outside, rest>>

(* _adopt_canonical_activation.                                            *)
Known == mem.on /\ mem.since = ha.since /\ mem.by = "helper"
ReadHelper(h) ==
  /\ hd[h].pc = "helper"
  /\ \/ /\ Known
        /\ IF hd[h].kind = "boot" THEN Reschedule(mem, timing, line) ELSE UNCHANGED <<line, orphans, tasks, tk, lost, excused>>
        /\ Ends(h)
     \/ /\ ~Known
        /\ QueueUp(h, ha.since)
        /\ UNCHANGED <<orphans, tasks, tk, lost, excused>>
  /\ UNCHANGED <<outside, mem, disk, behind, told, rest>>

(* The switch or the helper cannot be read, or is not what it should be.   *)
ReadFails(h) ==
  /\ hd[h].pc \in {"switch", "helper"}
  /\ faults < MaxFaults /\ faults' = faults + 1
  /\ IF Legacy(h) THEN Ends(h) /\ UNCHANGED <<file, alarms>> ELSE Unconfirmed(h)
  /\ UNCHANGED <<outside, timing, clock, edits>>

(* Mutant: settings become visible before they are saved.                  *)
VisibleAtOnce(h, m) == Moves(h, [hd[h] EXCEPT !.pc = "save", !.want = m]) /\ mem' = m
(* Under the lock: mark_coffee_machine_on and _off change memory and save  *)
(* it; settings are saved first and become visible afterwards.             *)
Candidate(h, m) == Moves(h, [hd[h] EXCEPT !.pc = "save", !.want = m]) /\ UNCHANGED mem
Forgotten == {x \in told : x[3] = mem.since}
Enter(h) ==
  /\ hd[h].pc = "lock" /\ Holds(h)
  /\ \/ /\ hd[h].kind \in {"on", "boot", "legacy"}
        /\ mem' = TurnedOn(mem, hd[h].since, IF Legacy(h) THEN "switch" ELSE "helper")
        /\ lost' = lost \cup Forgotten /\ To(h, "save")
     \/ /\ hd[h].kind = "off"
        /\ mem' = TurnedOff(mem) /\ lost' = lost \cup Forgotten /\ To(h, "save")
     \/ /\ hd[h].kind = "set"
        /\ \E m \in Settings \ {mem} : Candidate(h, m)
        /\ UNCHANGED lost
  /\ UNCHANGED <<outside, disk, line, orphans, behind, tasks, tk, told, excused, rest>>

SaveDone(h) ==
  /\ hd[h].pc = "save"
  /\ behind' = FALSE
  /\ \/ /\ hd[h].kind \in {"on", "boot"}
        /\ disk' = mem /\ Reschedule(mem, timing, Leave(line, {h})) /\ Ends(h)
        /\ UNCHANGED mem
     \/ /\ hd[h].kind = "off"
        /\ disk' = mem /\ line' = Leave(line, {h}) /\ Ends(h)
        /\ UNCHANGED <<mem, orphans, tasks, tk, lost, excused>>
     \/ /\ hd[h].kind = "set"
        /\ disk' = hd[h].want /\ mem' = hd[h].want /\ Ends(h)
        /\ RescheduleActive(hd[h].want, timing, Leave(line, {h}))
     \/ /\ hd[h].kind = "legacy"
        /\ disk' = mem /\ line' = Leave(line, {h})
        /\ LegacySends(h, mem) /\ excused' = Alerts
        /\ UNCHANGED <<mem, orphans, tasks, tk, lost>>
  /\ UNCHANGED <<outside, told, rest>>

SaveFails(h) ==
  /\ hd[h].pc = "save"
  /\ faults < MaxFaults /\ faults' = faults + 1
  /\ line' = Leave(line, {h})
  /\ Ends(h)
  /\ IF hd[h].kind = "set" THEN UNCHANGED <<behind, excused>>
     ELSE behind' = TRUE /\ excused' = Alerts
  /\ UNCHANGED <<outside, mem, disk, orphans, tasks, tk, told, lost, timing, clock, edits>>

(* The legacy route sends and marks by itself, beside a task that may do   *)
(* the same, and nobody cancels it.                                        *)
LegacyTriple(h) == <<hd[h].alert, "telegram", hd[h].since>>
LegacyStep(h) ==
  \/ /\ hd[h].pc = "send" /\ To(h, "accepted")
     /\ told' = told \cup {LegacyTriple(h)} /\ lost' = lost \cup {LegacyTriple(h)}
     /\ UNCHANGED <<file, tasks, tk, excused, outside, rest>>
  \/ /\ hd[h].pc = "accepted" /\ To(h, "mark") /\ line' = Join(line, h)
     /\ UNCHANGED <<mem, disk, orphans, behind, alarms, outside, rest>>
  \/ /\ hd[h].pc = "mark" /\ Holds(h)
     /\ \/ /\ ~mem.on \/ <<hd[h].alert, "telegram">> \in mem.sent
           /\ line' = Leave(line, {h}) /\ Ends(h) /\ UNCHANGED mem
        \/ /\ mem.on /\ <<hd[h].alert, "telegram">> \notin mem.sent
           /\ mem' = Marked(mem, hd[h].alert, "telegram")
           /\ To(h, "marked") /\ UNCHANGED line
     /\ UNCHANGED <<disk, orphans, behind, alarms, outside, rest>>
  \/ /\ hd[h].pc = "marked"
     /\ disk' = mem /\ behind' = FALSE /\ line' = Leave(line, {h}) /\ Ends(h)
     /\ UNCHANGED <<mem, orphans, alarms, outside, rest>>
LegacyFails(h) ==
  /\ hd[h].pc \in {"send", "accepted", "marked"}
  /\ faults < MaxFaults /\ faults' = faults + 1
  /\ Ends(h)
  /\ IF hd[h].pc = "marked" THEN line' = Leave(line, {h}) /\ behind' = TRUE ELSE UNCHANGED <<line, behind>>
  /\ UNCHANGED <<outside, mem, disk, orphans, alarms, timing, clock, edits>>

-----------------------------------------------------------------------------
(* The process ends; main() loads the file, asks for the policy and        *)
(* restores before it serves requests.                                     *)
Restart ==
  /\ faults < MaxFaults /\ faults' = faults + 1
  /\ mem' = disk /\ line' = {} /\ orphans' = {} /\ behind' = FALSE
  /\ tasks' = [a \in Alerts |-> NoTask] /\ tk' = [t \in Tasks |-> Free]
  /\ hd' = [h \in Waiters |->
              IF h = Boot THEN Request("switch", "boot", "none") ELSE Idle]
  /\ lost' = lost \cup {x \in told : disk.since # x[3] \/ <<x[1], x[2]>> \notin disk.sent}
  /\ timing' \in {"none", "known"} /\ excused' = {}
  /\ UNCHANGED <<outside, disk, told, clock, edits>>

Init ==
  /\ ha = [on |-> FALSE, since |-> 0] /\ inbox = {}
  /\ mem = [on |-> FALSE, since |-> 0, by |-> "helper", sent |-> {}, enabled |-> Alerts,
            channels |-> Alerts \X Channels]
  /\ disk = mem /\ line = {} /\ orphans = {} /\ behind = FALSE
  /\ tasks = [a \in Alerts |-> NoTask] /\ tk = [t \in Tasks |-> Free]
  /\ hd = [h \in Waiters |-> Idle]
  /\ timing \in {"none", "known"} /\ clock = 1 /\ changes = 0 /\ edits = 0 /\ faults = 0
  /\ told = {} /\ lost = {} /\ excused = {}

HandlerStep(h) == ReadSwitch(h) \/ ReadHelper(h) \/ Enter(h) \/ SaveDone(h) \/ LegacyStep(h)
Trouble ==
  \/ \E t \in Tasks : SendFails(t) \/ SaveBreaks(t)
  \/ \E h \in Waiters : ReadFails(h) \/ SaveFails(h) \/ LegacyFails(h)
  \/ EventLost \/ PolicyLost \/ Restart
Next ==
  \/ \E t \in Tasks : TaskStep(t)
  \/ \E h \in Waiters : HandlerStep(h)
  \/ \E h \in Handlers : \E again \in BOOLEAN : Hear(h, again)
  \/ \E h \in Handlers : Change(h) \/ \E a \in Alerts : AskForAlert(h, a)
  \/ \E o \in orphans : OrphanWrites(o)
  \/ Switch \/ Tick \/ NewPolicy \/ Trouble

Spec == Init /\ [][Next]_vars

(* Coroutines that can run do, every call ends by a timeout, time passes,  *)
(* and Home Assistant delivers the events that do not get lost.            *)
FairSpec ==
  /\ Spec /\ WF_vars(Tick)
  /\ \A t \in Tasks : WF_vars(TaskStep(t))
  /\ \A h \in Waiters : WF_vars(HandlerStep(h))
  /\ WF_vars(\E h \in Handlers : Hear(h, FALSE))

-----------------------------------------------------------------------------
(* The state file and its copy have their shape, and so have the tasks and  *)
(* the handlers; a task at work has an alert, and so has a legacy request.  *)
TaskState ==
  [pc : {"free", "sleep", "send", "accepted", "mark", "save", "ended"},
   alert : Alerts \cup {"none"}, due : Nat, cycle : Nat, channel : Channels, tries : Nat]
HandlerState ==
  [pc : {"idle", "switch", "helper", "lock", "save", "send", "accepted", "mark", "marked"},
   kind : {"none", "on", "off", "set", "legacy", "boot"}, alert : Alerts \cup {"none"},
   since : Nat, want : State]
AlertTypeOK ==
  /\ ha \in [on : BOOLEAN, since : Nat] /\ inbox \subseteq {"on", "off"}
  /\ mem \in State /\ disk \in State /\ orphans \subseteq State
  /\ line \subseteq Actors \X Actors /\ behind \in BOOLEAN
  /\ tasks \in [Alerts -> Tasks \cup {NoTask}]
  /\ tk \in [Tasks -> TaskState] /\ hd \in [Waiters -> HandlerState]
  /\ \A t \in Tasks : ~Ended(t) => tk[t].alert \in Alerts
  /\ \A h \in Waiters : hd[h].kind = "legacy" => hd[h].alert \in Alerts
  /\ told \subseteq Alerts \X Channels \X Nat /\ lost \subseteq Alerts \X Channels \X Nat
  /\ excused \subseteq Alerts /\ timing \in {"none", "known", "lost"}
  /\ clock \in Nat /\ changes \in Nat /\ edits \in Nat /\ faults \in Nat

(* A cycle's alert reaches a channel twice only if the mark of the first   *)
(* was lost: by a reschedule in the middle, an answer that did not come, a *)
(* crash, or a late event that ended the cycle (_wait_and_send).           *)
RepeatsNeedLoss ==
  [][\A t \in Tasks :
       tk[t].pc = "send" /\ tk'[t].pc = "accepted" /\ Triple(t) \in told
         => Triple(t) \in lost]_vars

(* A handler that is about to replace the timers has changed the cycle.    *)
Adopting == \E h \in Waiters : hd[h].pc = "save" /\ hd[h].kind # "set"

(* A task wakes up for the cycle it was scheduled for -- so never before   *)
(* its time -- unless the next cycle is just being saved, its save failed, *)
(* or only the legacy route saw it.                                        *)
SendsForItsCycle ==
  [][\A t \in Tasks :
       tk[t].pc = "sleep" /\ tk'[t].pc = "send" /\ tk[t].alert \notin excused /\ ~Adopting
         => tk[t].cycle = mem.since]_vars

(* A task marks a channel as served in the cycle in which it was: a new    *)
(* cycle never starts with an alert crossed off (mark_coffee_..._sent).    *)
MarksAreTrue ==
  [][\A t \in Tasks :
       tk[t].pc = "mark" /\ tk'[t].pc = "save" /\ tk[t].alert \notin excused
         => <<tk[t].alert, tk[t].channel, mem.since>> \in told]_vars

(* A task that still runs is the one the scheduler knows of, so that the   *)
(* next off or reschedule reaches it (_cancel_tasks, _drop_task).          *)
NoStrayTask == \A t \in Tasks : ~Ended(t) => tasks[tk[t].alert] = t

(* When nobody holds the lock the file is what memory is, unless a save    *)
(* failed or a cancelled one came late: a restart forgets nothing.         *)
FileFollows == line = {} /\ orphans = {} /\ ~behind => disk = mem

(* In the end every alert of a running cycle has reached its channels,     *)
(* whatever was rescheduled, restarted or repeated before.                 *)
AlertsSettle ==
  <>[](mem.on /\ timing = "known" => \A a \in Outstanding(mem) : a \in excused)
=============================================================================
