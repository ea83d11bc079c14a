-------------------------- MODULE ReminderCutover --------------------------
(* The reminders of reminders.json on their way to the Planning database:    *)
(* the JSON store with its lock and its saves (services/reminder_store.py),  *)
(* the timers that fire its reminders (workflows/reminders.py), the import   *)
(* and the gate a start with cutover has to pass (planning/legacy_import.py),*)
(* and the start and end of the process (main.py).  After the cutover the    *)
(* rows of the database are the reminders; how they are delivered is the     *)
(* subject of ReminderDelivery, here a delivery is one step.                 *)
EXTENDS Naturals, FiniteSets

CONSTANTS
    Reminders,    \* reminders, by their identifier
    Channels,     \* notification channels the settings can switch on
    FirstFiles,   \* what reminders.json may hold when the program is installed
    NoRecord,     \* no reminder, no row, no import
    MaxStarts,    \* starts of the process
    MaxEdits,     \* requests of the owner
    MaxFaults     \* crashes, failed saves, lost answers and timers that break

VARIABLES
    file,      \* reminders.json: its records, the channels switched on, the settings keys
    mode,      \* the process: down, or running on the JSON store or on Planning
    mem,       \* ReminderStore._reminders and _settings, as records of the same form
    saving,    \* the operation that holds the store's lock while its save runs
    task,      \* ReminderWorkflow._tasks: where the timer of a reminder stands
    left,      \* the channels a firing timer has still to try
    rows,      \* the reminders of the Planning database
    marker,    \* the completed import, as the records it read
    reading,   \* the file an import has read before its transaction
    sent,      \* messages the channels took, per reminder and channel
    unheard,   \* how many of them were taken without an answer that says so
    cancelled, \* reminders whose cancellation was confirmed before the cutover
    accepted,  \* reminders whose creation was confirmed
    excused,   \* reminders whose delivery the program could not record
    idle,      \* pending reminders whose timer ended without a delivery
    budget     \* starts, edits and faults so far

vars == <<file, mode, mem, saving, task, left, rows, marker, reading, sent,
          unheard, cancelled, accepted, excused, idle, budget>>

process == <<mode, mem, saving, task, left>>
planning == <<rows, marker, reading>>
history == <<sent, unheard, cancelled, accepted, excused, idle>>

(* A record with the two time stamps of its end, which it may both have.     *)
Record == [status : {"pending", "fired", "cancelled"},
           fired : BOOLEAN, cancelled : BOOLEAN]
Pending == [status |-> "pending", fired |-> FALSE, cancelled |-> FALSE]
Fired(rec) == [rec EXCEPT !.status = "fired", !.fired = TRUE]
Cancelled(rec) == [rec EXCEPT !.status = "cancelled", !.cancelled = TRUE]

Store == [recs : [Reminders -> Record \cup {NoRecord}], on : SUBSET Channels]
Document == [recs : [Reminders -> Record \cup {NoRecord}], on : SUBSET Channels,
             keys : {"known", "unknown"}]
NoTask == "none"
Unlocked == [op |-> "none", r |-> NoRecord]
Row == [status : {"pending", "completed", "cancelled"},
        delivery : {"not_due", "delivered"}, origin : {"legacy", "native"}]

ASSUME CutoverAssumption ==
    /\ MaxStarts \in Nat /\ MaxEdits \in Nat /\ MaxFaults \in Nat
    /\ NoRecord \notin Reminders \cup Record \cup Row \cup Document
    /\ FirstFiles \subseteq Document

(* ReminderStore._load and _save: a save writes all eight settings fields,   *)
(* of which the importer knows four.                                         *)
Loaded(doc) == [recs |-> doc.recs, on |-> doc.on]
Saved(store) == [recs |-> store.recs, on |-> store.on, keys |-> "unknown"]

TypeOK ==
    /\ file \in Document
    /\ mode \in {"down", "legacy", "planning"}
    /\ mem \in Store
    /\ saving \in [op : {"create", "cancel", "mark"}, r : Reminders]
                   \cup {Unlocked, [op |-> "settings", r |-> NoRecord]}
    /\ task \in [Reminders -> {NoTask, "waiting", "sending", "sent", "marking"}]
    /\ left \in [Reminders -> SUBSET Channels]
    /\ rows \in [Reminders -> Row \cup {NoRecord}]
    /\ marker \in Document \cup {NoRecord}
    /\ reading \in Document \cup {NoRecord}
    /\ sent \in [Reminders \X Channels -> Nat]
    /\ unheard \in [Reminders \X Channels -> Nat]
    /\ cancelled \subseteq Reminders /\ accepted \subseteq Reminders
    /\ excused \subseteq Reminders /\ idle \subseteq Reminders
    /\ budget \in [starts : Nat, edits : Nat, faults : Nat]

Init ==
    /\ file \in FirstFiles
    /\ mode = "down"
    /\ mem = [recs |-> [r \in Reminders |-> NoRecord], on |-> {}]
    /\ saving = Unlocked
    /\ task = [r \in Reminders |-> NoTask]
    /\ left = [r \in Reminders |-> {}]
    /\ rows = [r \in Reminders |-> NoRecord]
    /\ marker = NoRecord
    /\ reading = NoRecord
    /\ sent = [p \in Reminders \X Channels |-> 0]
    /\ unheard = [p \in Reminders \X Channels |-> 0]
    /\ cancelled = {r \in Reminders : /\ file.recs[r] # NoRecord
                                      /\ file.recs[r].status = "cancelled"}
    /\ accepted = {r \in Reminders : file.recs[r] # NoRecord}
    /\ excused = {}
    /\ idle = {}
    /\ budget = [starts |-> 0, edits |-> 0, faults |-> 0]

Edit == budget.edits < MaxEdits /\ budget' = [budget EXCEPT !.edits = @ + 1]
Fault == budget.faults < MaxFaults /\ budget' = [budget EXCEPT !.faults = @ + 1]
Launch == budget.starts < MaxStarts /\ budget' = [budget EXCEPT !.starts = @ + 1]

-----------------------------------------------------------------------------
(* The JSON store: each operation changes the memory under the lock and      *)
(* keeps the lock until the save in a thread has ended.                      *)

Running == mode = "legacy" /\ saving = Unlocked

Hold(op, r, store) ==
    /\ mem' = store
    /\ saving' = [op |-> op, r |-> r]

Known(r) == mem.recs[r] # NoRecord
IsPending(r) == Known(r) /\ mem.recs[r].status = "pending"

(* A delivery that is not in the file: it may be made again.                 *)
Unrecorded(r) == task[r] \in {"sent", "marking"} \/ saving = [op |-> "mark", r |-> r]

StoreCreate(r) == ~Known(r) /\ Hold("create", r, [mem EXCEPT !.recs[r] = Pending])
StoreCancel(r) == IsPending(r) /\ Hold("cancel", r, [mem EXCEPT !.recs[r] = Cancelled(@)])
StoreSettings(on) == Hold("settings", NoRecord, [mem EXCEPT !.on = on])

(* create_from_text and create_from_parts, from Telegram and the voice route. *)
Create(r) ==
    /\ Running /\ Edit
    /\ r \notin accepted /\ rows[r] = NoRecord
    /\ StoreCreate(r)
    /\ UNCHANGED <<file, mode, task, left, planning, history>>

(* A cancellation that finds the reminder pending keeps the lock; one that   *)
(* does not answers at once, and ends the timer all the same.                *)
CancelPending(r) ==
    /\ Running /\ Edit
    /\ StoreCancel(r)
    /\ UNCHANGED <<file, mode, task, left, planning, history>>

CancelOther(r) ==
    /\ Running /\ Edit
    /\ Known(r) /\ ~IsPending(r)
    /\ task' = [task EXCEPT ![r] = NoTask]
    /\ excused' = IF Unrecorded(r) THEN excused \cup {r} ELSE excused
    /\ UNCHANGED <<file, mode, mem, saving, left, planning, sent, unheard, cancelled,
                   accepted, idle>>

(* The switches of the settings menu.                                        *)
Toggled(on, c) == IF c \in on THEN on \ {c} ELSE on \cup {c}

Toggle(c) ==
    /\ Running /\ Edit
    /\ StoreSettings(Toggled(mem.on, c))
    /\ UNCHANGED <<file, mode, task, left, planning, history>>

(* Mutant: a cancellation leaves the timer.                                  *)
AfterSaveOnly(op, r) ==
    CASE op = "create" -> /\ task' = [task EXCEPT ![r] = "waiting"]
                          /\ accepted' = accepted \cup {r}
                          /\ UNCHANGED cancelled
      [] op = "cancel" -> cancelled' = cancelled \cup {r} /\ UNCHANGED <<task, accepted>>
      [] op = "mark" -> /\ task' = [task EXCEPT ![r] = NoTask]
                        /\ UNCHANGED <<accepted, cancelled>>
      [] OTHER -> UNCHANGED <<task, accepted, cancelled>>

(* What follows a save: the timer of a created reminder starts, that of a    *)
(* cancelled one is cancelled wherever it is, that of a fired one ends.      *)
AfterSave(op, r) ==
    CASE op = "create" -> /\ task' = [task EXCEPT ![r] = "waiting"]
                          /\ accepted' = accepted \cup {r}
                          /\ UNCHANGED cancelled
      [] op = "cancel" -> /\ task' = [task EXCEPT ![r] = NoTask]
                          /\ cancelled' = cancelled \cup {r}
                          /\ UNCHANGED accepted
      [] op = "mark" -> /\ task' = [task EXCEPT ![r] = NoTask]
                        /\ UNCHANGED <<accepted, cancelled>>
      [] OTHER -> UNCHANGED <<task, accepted, cancelled>>

(* Mutant: the answer is given before the file is replaced.                  *)
SaveSucceedsEarly ==
    /\ saving # Unlocked
    /\ saving' = Unlocked
    /\ AfterSave(saving.op, saving.r)
    /\ UNCHANGED <<file, mode, mem, left, planning, sent, unheard, excused, idle, budget>>

(* The file is replaced, the lock released, the caller answered.             *)
SaveSucceeds ==
    /\ saving # Unlocked
    /\ file' = Saved(mem)
    /\ saving' = Unlocked
    /\ AfterSave(saving.op, saving.r)
    /\ UNCHANGED <<mode, mem, left, planning, sent, unheard, excused, idle, budget>>

(* An OSError leaves the change in memory and reaches the caller: a created  *)
(* reminder gets no timer, a cancelled one keeps it.                         *)
SaveFails ==
    /\ saving # Unlocked /\ Fault
    /\ saving' = Unlocked
    /\ task' = IF saving.op = "mark" THEN [task EXCEPT ![saving.r] = NoTask] ELSE task
    /\ excused' = IF saving.op = "mark" THEN excused \cup {saving.r} ELSE excused
    /\ idle' = IF saving.op = "create" THEN idle \cup {saving.r} ELSE idle
    /\ UNCHANGED <<file, mode, mem, left, planning, sent, unheard, cancelled, accepted>>

-----------------------------------------------------------------------------
(* The timers.                                                               *)

(* The reminder is due: it is read again, then the settings.                 *)
Fire(r) ==
    /\ Running
    /\ task[r] = "waiting"
    /\ IF IsPending(r)
         THEN /\ left' = [left EXCEPT ![r] = mem.on]
              /\ task' = [task EXCEPT ![r] = IF mem.on = {} THEN "marking" ELSE "sending"]
         ELSE /\ task' = [task EXCEPT ![r] = NoTask]
              /\ UNCHANGED left
    /\ UNCHANGED <<file, mode, mem, saving, planning, history, budget>>

(* One channel after another: "sent" once one of them is heard to have taken *)
(* the message.  The reminder is marked as fired when the last answer is in, *)
(* and left pending without a timer when no channel is known to have it.     *)
AfterChannel(r, c, took) ==
    LET rest == left[r] \ {c}
        any == took \/ task[r] = "sent"
    IN  /\ left' = [left EXCEPT ![r] = rest]
        /\ task' = [task EXCEPT ![r] =
                      CASE rest # {} -> IF any THEN "sent" ELSE "sending"
                        [] rest = {} /\ any -> "marking"
                        [] OTHER -> NoTask]
        /\ idle' = IF rest = {} /\ ~any THEN idle \cup {r} ELSE idle

SendTo(r, c, took) ==
    /\ mode = "legacy"
    /\ task[r] \in {"sending", "sent"}
    /\ c \in left[r]
    /\ AfterChannel(r, c, took)
    /\ sent' = IF took THEN [sent EXCEPT ![<<r, c>>] = @ + 1] ELSE sent
    /\ UNCHANGED <<file, mode, mem, saving, planning, unheard, cancelled, accepted,
                   excused, budget>>

(* An exception that no channel expects, such as an answer that cannot be    *)
(* decoded, ends the timer where it is, whatever has been sent.              *)
TimerBreaks(r) ==
    /\ mode = "legacy" /\ Fault
    /\ task[r] \in {"sending", "sent"}
    /\ task' = [task EXCEPT ![r] = NoTask]
    /\ idle' = idle \cup {r}
    /\ excused' = IF Unrecorded(r) THEN excused \cup {r} ELSE excused
    /\ UNCHANGED <<file, mode, mem, saving, left, planning, sent, unheard, cancelled,
                   accepted>>

(* mark_fired asks nothing about the status it overwrites.                   *)
StoreMark(r) == Hold("mark", r, [mem EXCEPT !.recs[r] = Fired(@)])

MarkFired(r) ==
    /\ Running
    /\ task[r] = "marking"
    /\ StoreMark(r)
    /\ UNCHANGED <<file, mode, task, left, planning, history, budget>>

-----------------------------------------------------------------------------
(* The import, run by the operator at any time, and the gate.                *)

(* A record the preflight accepts: the time stamps fit the status.           *)
Sound(rec) ==
    /\ rec.fired = (rec.status = "fired")
    /\ rec.cancelled = (rec.status = "cancelled")

Blocked(doc) ==
    \/ doc.keys = "unknown"
    \/ \E r \in Reminders : doc.recs[r] # NoRecord /\ ~Sound(doc.recs[r])

RowOf(rec) ==
    CASE rec.status = "fired" -> [status |-> "completed", delivery |-> "delivered", origin |-> "legacy"]
      [] rec.status = "cancelled" -> [status |-> "cancelled", delivery |-> "not_due", origin |-> "legacy"]
      [] OTHER -> [status |-> "pending", delivery |-> "not_due", origin |-> "legacy"]

(* Every imported row is compared with the source as it is now.              *)
Verified(doc) ==
    \A r \in Reminders :
        IF doc.recs[r] = NoRecord
          THEN rows[r] = NoRecord \/ rows[r].origin = "native"
          ELSE rows[r] = RowOf(doc.recs[r])

ReadSource ==
    /\ reading = NoRecord /\ marker = NoRecord
    /\ ~Blocked(file)
    /\ reading' = file
    /\ UNCHANGED <<file, process, rows, marker, history, budget>>

(* One transaction writes the rows and the marker.                           *)
Import ==
    /\ reading # NoRecord /\ marker = NoRecord
    /\ rows' = [r \in Reminders |-> IF reading.recs[r] = NoRecord THEN rows[r]
                                    ELSE RowOf(reading.recs[r])]
    /\ marker' = reading
    /\ reading' = NoRecord
    /\ UNCHANGED <<file, process, history, budget>>

SameReminders == marker.recs = file.recs

(* Mutant: any completed import lets the process start.                      *)
CutoverImported == marker # NoRecord

(* require_cutover_ready.                                                    *)

CutoverReady ==
    /\ ~Blocked(file)
    /\ marker # NoRecord
    /\ SameReminders
    /\ Verified(file)

-----------------------------------------------------------------------------
(* The process.                                                              *)

Delivered(r) == rows[r] # NoRecord /\ rows[r].delivery = "delivered"

Down ==
    /\ mode' = "down"
    /\ mem' = [recs |-> [r \in Reminders |-> NoRecord], on |-> {}]
    /\ saving' = Unlocked
    /\ task' = [r \in Reminders |-> NoTask]
    /\ left' = [r \in Reminders |-> {}]
    /\ excused' = excused \cup {r \in Reminders : Unrecorded(r)}
    /\ idle' = {}

(* A save that is cut off has replaced the file or left it.                  *)
Crash ==
    /\ mode # "down" /\ Fault
    /\ Down
    /\ file' \in IF saving = Unlocked THEN {file} ELSE {file, Saved(mem)}
    /\ UNCHANGED <<planning, sent, unheard, cancelled, accepted>>

Stop ==
    /\ mode # "down" /\ saving = Unlocked
    /\ budget.starts < MaxStarts
    /\ Down
    /\ UNCHANGED <<file, planning, sent, unheard, cancelled, accepted, budget>>

(* Mutant: the timers are not restored.                                      *)
StartLegacyIdle ==
    /\ mode = "down" /\ Launch
    /\ mode' = "legacy"
    /\ mem' = Loaded(file)
    /\ excused' = excused \cup {r \in Reminders : Delivered(r)}
    /\ UNCHANGED <<file, saving, task, left, planning, sent, unheard, cancelled, accepted, idle>>

(* restore_pending starts a timer for every pending reminder.  What Planning *)
(* delivered since the cutover is unknown to the file.                       *)
StartLegacy ==
    /\ mode = "down" /\ Launch
    /\ mode' = "legacy"
    /\ mem' = Loaded(file)
    /\ task' = [r \in Reminders |->
                  IF file.recs[r] # NoRecord /\ file.recs[r].status = "pending"
                    THEN "waiting" ELSE NoTask]
    /\ excused' = excused \cup {r \in Reminders : Delivered(r)}
    /\ UNCHANGED <<file, saving, left, planning, sent, unheard, cancelled, accepted, idle>>

(* build_reminder_store with cutover enabled: the store of the records is    *)
(* the database, or the process does not start.                              *)
StartPlanning ==
    /\ mode = "down" /\ Launch
    /\ mode' = IF CutoverReady THEN "planning" ELSE "down"
    /\ UNCHANGED <<file, mem, saving, task, left, planning, sent, unheard, cancelled,
                   accepted, excused, idle>>

-----------------------------------------------------------------------------
(* The store of reminders is PlanningReminderStoreAdapter.                   *)

Open(r) == rows[r] # NoRecord /\ rows[r].status = "pending"

PlanningCreate(r) ==
    /\ mode = "planning" /\ Edit
    /\ rows[r] = NoRecord /\ file.recs[r] = NoRecord /\ r \notin accepted
    /\ rows' = [rows EXCEPT ![r] =
                  [status |-> "pending", delivery |-> "not_due", origin |-> "native"]]
    /\ accepted' = accepted \cup {r}
    /\ UNCHANGED <<file, process, marker, reading, sent, unheard, cancelled, excused, idle>>

PlanningCancel(r) ==
    /\ mode = "planning" /\ Edit
    /\ Open(r)
    /\ rows' = [rows EXCEPT ![r].status = "cancelled"]
    /\ UNCHANGED <<file, process, marker, reading, history>>

(* The scheduler delivers the reminder and records it: mark_fired, or the    *)
(* commit of the durable scheduler.                                          *)
PlanningDeliver(r, c) ==
    /\ mode = "planning"
    /\ Open(r) /\ rows[r].delivery = "not_due"
    /\ sent' = [sent EXCEPT ![<<r, c>>] = @ + 1]
    /\ rows' = [rows EXCEPT ![r].delivery = "delivered"]
    /\ UNCHANGED <<file, process, marker, reading, unheard, cancelled, accepted,
                   excused, idle, budget>>

(* ReminderSettingsStore: the settings stay in the file, with the four keys  *)
(* the importer knows; the records are not touched.                          *)
PlanningToggle(c) ==
    /\ mode = "planning" /\ Edit
    /\ file' = [file EXCEPT !.on = Toggled(@, c), !.keys = "known"]
    /\ UNCHANGED <<process, planning, history>>

-----------------------------------------------------------------------------
(* The release before this one, which the operator may run while this one is *)
(* down: it knows the JSON file only, and writes the four keys.              *)

PriorWrites(recs) == file' = [file EXCEPT !.recs = recs, !.keys = "known"]

PriorRelease(r) ==
    /\ mode = "down" /\ Edit
    /\ \/ /\ file.recs[r] = NoRecord /\ rows[r] = NoRecord /\ r \notin accepted
          /\ PriorWrites([file.recs EXCEPT ![r] = Pending])
          /\ accepted' = accepted \cup {r}
          /\ UNCHANGED <<sent, cancelled, excused>>
       \/ /\ file.recs[r] # NoRecord /\ file.recs[r].status = "pending"
          /\ ~Delivered(r)
          /\ PriorWrites([file.recs EXCEPT ![r] = Cancelled(@)])
          /\ cancelled' = cancelled \cup {r}
          /\ UNCHANGED <<sent, accepted, excused>>
       \/ /\ file.recs[r] # NoRecord /\ file.recs[r].status = "pending"
          /\ PriorWrites([file.recs EXCEPT ![r] = Fired(@)])
          /\ \E c \in Channels : sent' = [sent EXCEPT ![<<r, c>>] = @ + 1]
          /\ excused' = IF Delivered(r) THEN excused \cup {r} ELSE excused
          /\ UNCHANGED <<cancelled, accepted>>
    /\ UNCHANGED <<process, planning, unheard, idle>>

(* A channel takes a message and the answer is lost: the request times out,  *)
(* or the client of Home Assistant repeats it.  To the sender, a timer, the  *)
(* scheduler of Planning or the prior release, nothing has happened.         *)
Calling(r, c) ==
    \/ mode = "legacy" /\ task[r] \in {"sending", "sent"} /\ c \in left[r]
    \/ mode = "planning" /\ Open(r) /\ rows[r].delivery = "not_due"
    \/ mode = "down" /\ file.recs[r] # NoRecord /\ file.recs[r].status = "pending"

AnswerLost(r, c) ==
    /\ Calling(r, c) /\ Fault
    /\ sent' = [sent EXCEPT ![<<r, c>>] = @ + 1]
    /\ unheard' = [unheard EXCEPT ![<<r, c>>] = @ + 1]
    /\ UNCHANGED <<file, process, planning, cancelled, accepted, excused, idle>>

Next ==
    \/ \E r \in Reminders : \/ Create(r) \/ CancelPending(r) \/ CancelOther(r)
                            \/ Fire(r) \/ TimerBreaks(r) \/ MarkFired(r)
                            \/ PlanningCreate(r) \/ PlanningCancel(r) \/ PriorRelease(r)
    \/ \E r \in Reminders, c \in Channels :
          \/ \E took \in BOOLEAN : SendTo(r, c, took)
          \/ PlanningDeliver(r, c) \/ AnswerLost(r, c)
    \/ \E c \in Channels : Toggle(c) \/ PlanningToggle(c)
    \/ SaveSucceeds \/ SaveFails
    \/ ReadSource \/ Import
    \/ Crash \/ Stop \/ StartLegacy \/ StartPlanning

Spec == Init /\ [][Next]_vars

-----------------------------------------------------------------------------

(* A reminder whose cancellation was confirmed is never sent afterwards: not *)
(* by a timer that was sending when it was cancelled, not after a crash, not *)
(* by Planning from an import that read it as pending                        *)
(* (reminder_store.py cancel, workflows/reminders.py cancel, the gate).      *)
CancelIsFinal ==
    [][\A r \in cancelled, c \in Channels : sent'[<<r, c>>] = sent[<<r, c>>]]_vars

(* A channel that was heard to take a reminder takes it again only if that   *)
(* delivery could not be recorded: the process died, the timer broke or the  *)
(* save failed before the mark, or an older file was started again after the *)
(* cutover.  Each lost answer excuses one message more.                      *)
RepeatsNeedUnrecorded ==
    \A r \in Reminders, c \in Channels :
        sent[<<r, c>>] > 1 + unheard[<<r, c>>] => r \in excused

(* No accepted reminder disappears: the store in charge holds it, whatever   *)
(* crashed, and the cutover takes over every reminder of the file.  Those    *)
(* made in Planning are not in the file: after the cutover only Planning     *)
(* holds them.                                                               *)
AcceptedIsKept ==
    /\ mode = "legacy" =>
         \A r \in accepted : \/ mem.recs[r] # NoRecord
                             \/ rows[r] # NoRecord /\ rows[r].origin = "native"
    /\ mode = "planning" => \A r \in accepted : rows[r] # NoRecord

(* A pending reminder of a running JSON store has a timer, unless its timer  *)
(* broke or ended with every channel refusing, or its creation could not be  *)
(* saved.                                                                    *)
PendingHasTimer ==
    Running => \A r \in Reminders : IsPending(r) /\ r \notin idle => task[r] # NoTask

(* A start after the cutover succeeds as long as the marker matches the file *)
(* (docs/PLANNING_REMINDER_CUTOVER_A2.md: startup requires "a matching       *)
(* completed import marker").                                                *)
MatchingMarkerStarts ==
    [][StartPlanning /\ ~Blocked(file) /\ marker # NoRecord /\ SameReminders
         => mode' = "planning"]_vars
=============================================================================
