--------------------------- MODULE PushWardMirror ---------------------------
(***************************************************************************)
(* The live activity and the widget that show the coffee machine on a      *)
(* phone: services/pushward.py, pushward_http.py and pushward_widgets.py,  *)
(* driven by the handlers of services/coffee_alerts.py.                    *)
(*                                                                         *)
(* A loop creates and updates the activity while the machine is on; when   *)
(* it goes off a cleanup shows that, ends the activity, and leaves a task  *)
(* that deletes it.  Starting cancels the cleanup, stopping cancels the    *)
(* loop, but a request that is on its way is not recalled, and each task   *)
(* reads the state of the machine when it wakes up.                        *)
(***************************************************************************)
EXTENDS Naturals, Sequences, FiniteSets, SequencesExt

CONSTANTS
  Handlers,   \* coroutines that serve requests
  Boot,       \* the coroutine of main() that restores
  Marks,      \* alerts that update the activity: "warmed_up", "long_running"
  Shots,      \* identities of the widget's one-shot tasks
  Configs,    \* what is enabled, whether requests go directly to PushWard, and
              \* bounds: how often the machine changes, clients ask, a fault occurs
  None        \* no content, no cycle

Waiters == Handlers \cup {Boot}
Tasks == {"loop", "cleanup", "deleter", "widget"} \cup Marks \cup Shots

ASSUME MirrorAssumption ==
  /\ Boot \notin Handlers
  /\ Marks \subseteq {"warmed_up", "long_running"}
  /\ Shots \cap ({"loop", "cleanup", "deleter", "widget"} \cup Marks) = {}
  /\ Configs \subseteq [activity : BOOLEAN, widget : BOOLEAN, direct : BOOLEAN,
                         changes : Nat, edits : Nat, faults : Nat]
  /\ None \notin Nat

VARIABLES
  config,     \* the configuration, never changed
  ha, inbox,  \* the switch with its helper, and events on their way
  mem, disk,  \* AppStateStore: cycle of the machine, 0 when it is off
  line,       \* who holds AppStateStore._lock, and who waits for it
  hd,         \* the handlers
  kick,       \* reschedule_active_alerts has created a task that will start
  client,     \* _cycle_id, _activity_active, _degraded
  task,       \* the tasks: where they are, and the request they wait for
  strays,     \* requests whose tasks were cancelled or died
  act, wid,   \* what PushWard shows: the activity, the widget
  policy,     \* the timing policy is known
  changes, edits, faults,
  excused,    \* history: why the activity may stay behind
  late        \* history: why the widget may stay behind

machine == <<config, ha, inbox, changes>>
store == <<mem, disk, line>>
shown == <<act, wid, late>>
rest == <<policy, edits, faults>>
vars == <<machine, store, hd, kick, client, task, strays, shown, rest, excused>>

Idle == [pc |-> "idle", kind |-> "none", since |-> 0]
Done == [pc |-> "none", op |-> "none", content |-> None, res |-> "none", was |-> FALSE]
New == [Done EXCEPT !.pc = "new"]
Alive(x) == task[x].pc # "none"
On == mem # 0

Travelling(S) == {[op |-> task[x].op, content |-> task[x].content] :
                    x \in {y \in S : task[y].pc = "call"}}
Stop(S) == strays' = strays \cup Travelling(S)

-----------------------------------------------------------------------------
(* PushWard.  An update revives an activity that ended but is still there. *)
Exists(op) == IF op \in {"patch", "post"} THEN wid # None ELSE act.st # "none"
Apply(op, content) ==
  /\ act' = CASE op = "create" -> [st |-> "ongoing", shows |-> None]
              [] op \in {"update", "off"} /\ Exists(op) -> [st |-> "ongoing", shows |-> content]
              [] op = "end" /\ Exists(op) -> [st |-> "ended", shows |-> None]
              [] op = "delete" -> [st |-> "none", shows |-> None]
              [] OTHER -> act
  /\ wid' = IF op = "post" \/ (op = "patch" /\ Exists(op)) THEN content ELSE wid
(* Right, or overwritten by an older request, or what it needs has failed. *)
Judge(fails) == late' = (wid' # mem /\ (late \/ wid = mem \/ fails))
Reply(op) == IF op \in {"create", "post"} \/ Exists(op) THEN "ok" ELSE "missing"

(* What was sent matters again only if a POST must repeat it.              *)
Answers(x, res) ==
  task' = [task EXCEPT ![x].pc = "back", ![x].res = res,
                       ![x].content = IF res = "missing" THEN @ ELSE None]
Serve(x) ==
  /\ task[x].pc = "call"
  /\ Apply(task[x].op, task[x].content) /\ Judge(FALSE)
  /\ Answers(x, Reply(task[x].op))
  /\ UNCHANGED <<machine, store, hd, kick, client, strays, rest, excused>>
(* No answer, or one that says no; the request may have been served.       *)
CallFails(x) ==
  /\ task[x].pc = "call"
  /\ faults < config.faults /\ faults' = faults + 1
  /\ \E res \in {"failed"} \cup (IF config.activity THEN {"limited"} ELSE {}) : Answers(x, res)
  /\ Apply(task[x].op, task[x].content) \/ UNCHANGED <<act, wid>>
  /\ Judge(task[x].op \in {"patch", "post"})
  /\ excused' = IF task[x].op = "delete" THEN excused \cup {"undeleted"} ELSE excused
  /\ UNCHANGED <<machine, store, hd, kick, client, strays, policy, edits>>
(* Over Home Assistant a client never learns that the activity is gone.    *)
StrayServed ==
  /\ \E r \in strays :
       /\ strays' = strays \ {r} /\ Apply(r.op, r.content) /\ Judge(FALSE)
       /\ excused' = CASE r.op = "create" -> excused \cup {"late creation"}
                       [] r.op \in {"end", "delete"} /\ ~config.direct -> excused \cup {"gone"}
                       [] OTHER -> excused
  /\ UNCHANGED <<machine, store, hd, kick, client, task, rest>>
(* ended_ttl has passed.                                                   *)
EndedGoes ==
  /\ act.st = "ended" /\ act' = [st |-> "none", shows |-> None]
  /\ UNCHANGED <<machine, store, hd, kick, client, task, strays, wid, late, rest, excused>>

-----------------------------------------------------------------------------
(* Starting and stopping the activity.                                     *)
OffPending == \E h \in Waiters : hd[h].kind = "off" /\ hd[h].pc = "lock"
(* Mutant: starting leaves the task that will delete the activity.         *)
CancelsCleanup == {"cleanup"}
(* _cancel_off_cleanup, _cancel_delete_cleanup.                            *)
Cancels == {"cleanup", "deleter"}
(* _reset_cycle_state_if_needed                                            *)
NextClient == IF client.cycle = mem THEN client
              ELSE [cycle |-> mem, active |-> FALSE, degraded |-> FALSE]
Overtakes == OffPending \/ (~On /\ \E x \in {"cleanup", "deleter"} : Alive(x))

(* start_or_restore, and start of the widget: tasks of both after it.      *)
Started(ts) ==
  IF ~config.activity THEN ts
  ELSE [x \in Tasks |->
          IF x \in Cancels THEN Done
          ELSE IF x = "loop" /\ ~Alive(x) /\ ~NextClient.degraded THEN New ELSE ts[x]]
StartActivity ==
  IF config.activity
  THEN /\ client' = NextClient /\ Stop(Cancels)
       /\ excused' = IF Overtakes THEN excused \cup {"overtaken"}
                     ELSE IF On THEN {} ELSE excused
  ELSE UNCHANGED <<client, strays, excused>>

(* update_once: one task more.                                             *)
FreeShots == {s \in Shots : ~Alive(s)}
Shoot(ts, n) ==
  LET new == CHOOSE S \in SUBSET FreeShots : Cardinality(S) = n
  IN  IF config.widget THEN [x \in Tasks |-> IF x \in new THEN New ELSE ts[x]] ELSE ts
CanShoot(n) == config.widget => \E S \in SUBSET FreeShots : Cardinality(S) = n
(* start of the widget; calls = 2 when restore starts it once more.        *)
WidgetShots(calls) == IF Alive("widget") THEN calls ELSE calls - 1
WidgetStarted(ts, calls) ==
  IF ~config.widget THEN ts
  ELSE Shoot([ts EXCEPT !["widget"] = IF Alive("widget") THEN @ ELSE New], WidgetShots(calls))
StartCycle(calls) ==
  /\ CanShoot(WidgetShots(calls))
  /\ task' = WidgetStarted(Started(task), calls)
  /\ StartActivity

(* stop: the cleanup that runs goes on, or the loop makes way for one.     *)
Stopped(ts) ==
  IF ~config.activity \/ Alive("cleanup") THEN ts
  ELSE [ts EXCEPT !["loop"] = Done, !["cleanup"] = New]
StopActivity ==
  /\ task' = Stopped(task)
  /\ IF config.activity /\ ~Alive("cleanup") THEN Stop({"loop"}) ELSE UNCHANGED strays

-----------------------------------------------------------------------------
(* Tasks.                                                                  *)
Goes(x, rec) == task' = [task EXCEPT ![x] = rec]
Sleeping(x) == [Done EXCEPT !.pc = "sleep", !.was = task[x].was]
Call(x, op, content) ==
  Goes(x, [task[x] EXCEPT !.pc = "call", !.op = op, !.content = content, !.res = "none"])
(* Mutant: an update that finds nothing is a failure like others.          *)
NeverLost(x) == FALSE
(* _call_via_api: an update that finds nothing; _record_failure: an answer *)
(* that says 429.                                                          *)
Lost(x) == task[x].res = "missing" /\ config.direct /\ task[x].op \in {"update", "off"}
Limited(x) == client.degraded \/ task[x].res = "limited"
Learned(x) == [client EXCEPT !.active = @ /\ ~Lost(x), !.degraded = Limited(x)]

(* _update_from_state: nothing to show, or an update.                      *)
UpdateFromState(x) == IF On /\ policy THEN Call(x, "update", mem) ELSE Goes(x, Sleeping(x))
LoopTurns ==
  /\ task["loop"].pc \in {"new", "sleep"}
  /\ IF ~On \/ client.degraded THEN Goes("loop", Done)
     ELSE IF ~client.active THEN Call("loop", "create", None)
     ELSE UpdateFromState("loop")
  /\ UNCHANGED <<machine, store, hd, kick, client, strays, shown, rest, excused>>
LoopHears ==
  /\ task["loop"].pc = "back"
  /\ \/ /\ task["loop"].op = "create" /\ task["loop"].res = "ok"
        /\ client' = [client EXCEPT !.active = TRUE]
        /\ UpdateFromState("loop")
     \/ /\ ~(task["loop"].op = "create" /\ task["loop"].res = "ok")
        /\ client' = Learned("loop")
        /\ Goes("loop", IF task["loop"].op = "create" /\ client'.degraded THEN Done
                        ELSE Sleeping("loop"))
  /\ UNCHANGED <<machine, store, hd, kick, strays, shown, rest, excused>>

(* _run_off_cleanup.  What the client does not count as active is not      *)
(* ended: a creation that was cancelled, an activity of an earlier process.*)
Unseen == act.st # "none" \/ \E r \in strays : r.op = "create"
CleanupBegins ==
  /\ task["cleanup"].pc = "new"
  /\ Goes("cleanup", [Done EXCEPT !.pc = "call", !.op = "off", !.content = 0,
                                  !.was = client.active])
  /\ excused' = IF client.active THEN excused \cap {"unsaved"}
                 ELSE IF Unseen THEN excused \cup {"unseen"} ELSE excused
  /\ UNCHANGED <<machine, store, hd, kick, client, strays, shown, rest>>
CleanupGoesOn ==
  /\ \/ /\ task["cleanup"].pc = "back" /\ task["cleanup"].op = "off"
        /\ client' = Learned("cleanup") /\ Goes("cleanup", Sleeping("cleanup"))
     \/ /\ task["cleanup"].pc = "sleep" /\ task["cleanup"].was
        /\ Call("cleanup", "end", None) /\ UNCHANGED client
     \/ /\ task["cleanup"].pc = "sleep" /\ ~task["cleanup"].was
        /\ Goes("cleanup", Done) /\ client' = [client EXCEPT !.active = FALSE]
     \/ /\ task["cleanup"].pc = "back" /\ task["cleanup"].op = "end"
        /\ task' = [task EXCEPT !["cleanup"] = Done, !["deleter"] = New]
        /\ client' = [Learned("cleanup") EXCEPT !.active = FALSE]
  /\ UNCHANGED <<machine, store, hd, kick, strays, shown, rest, excused>>
(* _delete_activity_later                                                  *)
DeleterGoesOn ==
  /\ \/ /\ task["deleter"].pc = "new"
        /\ Goes("deleter", Sleeping("deleter")) /\ UNCHANGED client
     \/ /\ task["deleter"].pc = "sleep"
        /\ Call("deleter", "delete", None) /\ UNCHANGED client
     \/ /\ task["deleter"].pc = "back"
        /\ Goes("deleter", Done) /\ client' = Learned("deleter")
  /\ UNCHANGED <<machine, store, hd, kick, strays, shown, rest, excused>>
(* _safe_one_shot_update of an alert: nobody cancels it.                   *)
MarkGoesOn(x) ==
  /\ \/ /\ task[x].pc = "new"
        /\ Call(x, "update", IF On THEN mem ELSE None) /\ UNCHANGED client
     \/ task[x].pc = "back" /\ Goes(x, Done) /\ client' = Learned(x)
  /\ UNCHANGED <<machine, store, hd, kick, strays, shown, rest, excused>>

(* build_coffee_widget_content: on since when, or off.                     *)
WidgetContent == mem
(* _safe_update of the widget, by its loop or a one-shot: a PATCH, and a   *)
(* POST of the same content where nothing was found.                       *)
WidgetTurns(x) ==
  /\ \/ task[x].pc \in {"new", "sleep"} /\ Call(x, "patch", WidgetContent)
     \/ /\ task[x].pc = "back" /\ task[x].op = "patch" /\ task[x].res = "missing"
        /\ Call(x, "post", task[x].content)
     \/ /\ task[x].pc = "back" /\ ~(task[x].op = "patch" /\ task[x].res = "missing")
        /\ Goes(x, IF x = "widget" /\ On THEN Sleeping(x) ELSE Done)
  /\ UNCHANGED <<machine, store, hd, kick, client, strays, shown, rest, excused>>

TaskStep(x) ==
  \/ Serve(x)
  \/ x = "loop" /\ (LoopTurns \/ LoopHears)
  \/ x = "cleanup" /\ (CleanupBegins \/ CleanupGoesOn)
  \/ x = "deleter" /\ DeleterGoesOn
  \/ x \in Marks /\ MarkGoesOn(x)
  \/ x \in Shots \cup {"widget"} /\ WidgetTurns(x)

-----------------------------------------------------------------------------
(* The machine, and what other parts of the program ask for.               *)
Switch ==
  /\ changes < config.changes /\ changes' = changes + 1
  /\ ha' = IF ha = 0 THEN changes + 1 ELSE 0
  /\ inbox' = inbox \cup {IF ha = 0 THEN "on" ELSE "off"}
  /\ UNCHANGED <<config, store, hd, kick, client, task, strays, shown, rest, excused>>

Booting == hd[Boot].pc # "idle"
(* reschedule_active_alerts, for a setting or a new policy.                *)
Reschedule ==
  /\ config.activity /\ ~Booting /\ On /\ ~kick /\ edits < config.edits /\ edits' = edits + 1
  /\ kick' = TRUE /\ policy' \in {policy, TRUE}
  /\ UNCHANGED <<machine, store, hd, client, task, strays, shown, faults, excused>>
Kicked ==
  /\ kick /\ kick' = FALSE
  /\ task' = Started(task) /\ StartActivity
  /\ UNCHANGED <<machine, store, hd, shown, rest>>
(* mark_warmed_up and mark_long_running, from the task of an alert.        *)
MarkAlert(x) ==
  /\ config.activity /\ ~Booting /\ On /\ ~client.degraded /\ ~Alive(x)
  /\ edits < config.edits /\ edits' = edits + 1
  /\ Goes(x, New)
  /\ UNCHANGED <<machine, store, hd, kick, client, strays, shown, policy, faults, excused>>

-----------------------------------------------------------------------------
(* Handlers.                                                               *)
Moves(h, rec) == hd' = [hd EXCEPT ![h] = rec]
Ends(h) == Moves(h, Idle)
QueueUp(h, kind, since) ==
  /\ Moves(h, [pc |-> "lock", kind |-> kind, since |-> since])
  /\ line' = Append(line, h)

(* handle_state, for an event that may be sent again.                      *)
NextFree == CHOOSE h \in Handlers : hd[h].pc = "idle"
Hear(h, again) ==
  /\ hd[h].pc = "idle" /\ ~Booting /\ h = NextFree
  /\ \E s \in inbox :
       /\ inbox' = IF again THEN inbox ELSE inbox \ {s}
       /\ \/ /\ s = "on" /\ Moves(h, [Idle EXCEPT !.pc = "asks", !.kind = "on"])
             /\ UNCHANGED <<line, task, strays>>
          \/ s = "off" /\ StopActivity /\ QueueUp(h, "off", 0)
  /\ IF again THEN edits < config.edits /\ edits' = edits + 1 ELSE UNCHANGED edits
  /\ UNCHANGED <<config, ha, changes, mem, disk, kick, client, shown, policy, faults, excused>>

(* What follows restore: the widget is started, or updated once.           *)
AfterRestore(ts, n) == CanShoot(n) /\ task' = Shoot(ts, n)
(* No cycle to start: nothing, or for restore the widget.                  *)
Ignores(h) ==
  /\ Ends(h)
  /\ IF h = Boot THEN AfterRestore(task, 1) ELSE UNCHANGED task
  /\ UNCHANGED <<line, client, strays, excused>>
Begins(h) ==
  /\ Ends(h) /\ StartCycle(IF h = Boot THEN 2 ELSE 1) /\ UNCHANGED line
(* _canonical_activation_time and _adopt_canonical_activation; restore     *)
(* with the machine off: _clear_local_cycle_if_needed.                     *)
Asks(h) ==
  /\ hd[h].pc = "asks"
  /\ \/ ha # 0 /\ mem = ha /\ Begins(h)
     \/ /\ ha # 0 /\ mem # ha /\ QueueUp(h, "on", ha)
        /\ UNCHANGED <<client, task, strays, excused>>
     \/ /\ ha = 0 /\ h = Boot /\ On /\ StopActivity /\ QueueUp(h, "off", 0)
        /\ UNCHANGED <<client, excused>>
     \/ ha = 0 /\ h # Boot /\ On /\ Begins(h)
     \/ ha = 0 /\ ~On /\ Ignores(h)
  /\ UNCHANGED <<machine, mem, disk, kick, shown, rest>>
AsksInVain(h) ==
  /\ hd[h].pc = "asks" /\ faults < config.faults /\ faults' = faults + 1
  /\ \/ On /\ Begins(h)
     \/ ~On /\ Ignores(h)
  /\ UNCHANGED <<machine, mem, disk, kick, shown, policy, edits>>

(* mark_coffee_machine_on and _off: memory under the lock, then the file.  *)
Enter(h) ==
  /\ hd[h].pc = "lock" /\ Head(line) = h
  /\ mem' = hd[h].since /\ Moves(h, [hd[h] EXCEPT !.pc = "save"])
  /\ excused' = IF hd[h].kind = "off" THEN excused \ {"unsaved"} ELSE excused
  /\ UNCHANGED <<machine, disk, line, kick, client, task, strays, shown, rest>>
(* Mutant: a machine that went off leaves the widget's loop to end itself. *)
WidgetLeft(ts, n) == UNCHANGED <<task, strays>>
(* stop of the widget: cancel the loop, update once.                       *)
WidgetStops(ts, n) ==
  /\ CanShoot(n)
  /\ task' = IF config.widget THEN Shoot([ts EXCEPT !["widget"] = Done], n) ELSE ts
  /\ IF config.widget THEN Stop({"widget"}) ELSE UNCHANGED strays
Saved(h) ==
  /\ hd[h].pc = "save" /\ disk' = mem /\ line' = Tail(line) /\ Ends(h)
  /\ \/ hd[h].kind = "on" /\ StartCycle(IF h = Boot THEN 2 ELSE 1)
     \/ /\ hd[h].kind = "off" /\ WidgetStops(task, IF h = Boot THEN 2 ELSE 1)
        /\ UNCHANGED <<client, excused>>
  /\ UNCHANGED <<machine, mem, kick, shown, rest>>
(* The handler answers with an error, or main() does not come up.          *)
SaveFails(h) ==
  /\ h # Boot /\ hd[h].pc = "save" /\ faults < config.faults /\ faults' = faults + 1
  /\ line' = Tail(line) /\ Ends(h)
  /\ late' = config.widget
  /\ excused' = IF config.activity /\ hd[h].kind = "on" THEN excused \cup {"unsaved"} ELSE excused
  /\ UNCHANGED <<machine, mem, disk, kick, client, task, strays, act, wid, policy, edits>>

(* The process ends, and main() restores what the file has.                *)
Restart ==
  /\ faults < config.faults /\ faults' = faults + 1
  /\ mem' = disk /\ line' = <<>> /\ kick' = FALSE
  /\ hd' = [h \in Waiters |-> IF h = Boot THEN [Idle EXCEPT !.pc = "asks", !.kind = "boot"]
                              ELSE Idle]
  /\ client' = [cycle |-> None, active |-> FALSE, degraded |-> FALSE]
  /\ Stop(Tasks) /\ task' = [x \in Tasks |-> Done]
  /\ excused' = IF disk = 0 /\ (act.st # "none" \/ strays' # {}) THEN {"restart"} ELSE {}
  /\ policy' \in {TRUE, ~config.activity}
  /\ UNCHANGED <<machine, disk, shown, edits>>

Init ==
  /\ config \in Configs
  /\ ha = 0 /\ inbox = {} /\ mem = 0 /\ disk = 0 /\ line = <<>>
  /\ hd = [h \in Waiters |-> IF h = Boot THEN [Idle EXCEPT !.pc = "asks", !.kind = "boot"]
                             ELSE Idle]
  /\ kick = FALSE /\ client = [cycle |-> None, active |-> FALSE, degraded |-> FALSE]
  /\ task = [x \in Tasks |-> Done] /\ strays = {}
  /\ act = [st |-> "none", shows |-> None] /\ wid \in (IF config.widget THEN {None, 0} ELSE {None})
  /\ policy = TRUE /\ changes = 0 /\ edits = 0 /\ faults = 0
  /\ excused = {} /\ late = FALSE

HandlerStep(h) == Asks(h) \/ Enter(h) \/ Saved(h)
Next ==
  \/ \E x \in Tasks : TaskStep(x) \/ CallFails(x)
  \/ \E h \in Waiters : HandlerStep(h) \/ AsksInVain(h) \/ SaveFails(h)
  \/ \E h \in Handlers, again \in BOOLEAN : Hear(h, again)
  \/ \E x \in Marks : MarkAlert(x)
  \/ StrayServed \/ EndedGoes \/ Switch \/ Reschedule \/ Kicked \/ Restart

Spec == Init /\ [][Next]_vars

(* Coroutines that can run do, sleeps and calls end, events arrive.        *)
FairSpec ==
  /\ Spec /\ WF_vars(Kicked) /\ WF_vars(\E h \in Handlers : Hear(h, FALSE))
  /\ \A x \in Tasks : WF_vars(TaskStep(x))
  /\ \A h \in Waiters : WF_vars(HandlerStep(h))

-----------------------------------------------------------------------------
(* The state of the bot, of its handlers and of its tasks has its shape.   *)
HandlerRow == [pc : {"idle", "asks", "lock", "save"}, kind : {"none", "on", "off", "boot"},
               since : Nat]
TaskRow == [pc : {"none", "new", "call", "back", "sleep"},
            op : {"none", "create", "update", "off", "end", "delete", "patch", "post"},
            content : Nat \cup {None}, res : {"none", "ok", "missing", "failed", "limited"},
            was : BOOLEAN]
Client == [cycle : Nat \cup {None}, active : BOOLEAN, degraded : BOOLEAN]
TypeOK ==
  /\ config \in Configs /\ ha \in Nat /\ mem \in Nat /\ disk \in Nat /\ changes \in Nat
  /\ hd \in [Waiters -> HandlerRow] /\ task \in [Tasks -> TaskRow] /\ client \in Client

(* Neither the cleanup nor the task that deletes is at work in a running   *)
(* cycle or beside the loop: one off is on its way, or a start is          *)
(* (start_or_restore, stop).                                               *)
Starting == \E h \in Waiters : hd[h].kind = "on" /\ hd[h].pc = "save"
CleanupMeansOff ==
  \A x \in {"cleanup", "deleter"} :
    Alive(x) => /\ ~Alive("loop")
                /\ ~On \/ OffPending \/ Starting \/ "unsaved" \in excused

(* In the end the activity shows the cycle that runs, or is not there: in  *)
(* spite of lost calls and late requests, with the exceptions that excused *)
(* names (_run_updates, _run_off_cleanup).                                 *)
ActivityIsRight ==
  IF On THEN policy /\ ~client.degraded => act = [st |-> "ongoing", shows |-> mem]
        ELSE act.st # "ongoing"
ActivityFollows == <>[](config.activity /\ excused = {} => ActivityIsRight)

(* In the end the widget shows whether the machine is on, unless its last  *)
(* write was overtaken, failed, or was not asked for by a handler that     *)
(* could not save (start, stop, _run_loop, restore).                       *)
WidgetFollows == <>[](config.widget => wid = mem \/ late)
=============================================================================
