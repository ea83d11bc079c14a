------------------------ MODULE PushWardMirrorProofs ------------------------
(***************************************************************************)
(* Proofs about PushWardMirror: the shape of its state, and that neither   *)
(* the off cleanup nor the task that deletes works in a running cycle, for *)
(* any number of handlers, alerts, one-shots, changes and faults.          *)
(*                                                                         *)
(* The argument: whoever creates the loop has cancelled both before in the *)
(* same step, whoever creates the cleanup has cancelled the loop, and only *)
(* the cleanup creates the task that deletes.  While one of them is there  *)
(* the machine comes on only by a handler whose next step is the start.    *)
(***************************************************************************)
EXTENDS PushWardMirror, TLAPS

ByHandlers == {"cleanup", "deleter", "loop"}
Bystanders == Marks \cup Shots \cup {"widget"}

(* Of what is not enabled there is no task; who is at the lock marks on or *)
(* off, and an off carries no activation.                                  *)
EnabledOnly == ~config.activity => \A x \in ByHandlers : ~Alive(x)
MarkKinds ==
  \A h \in Waiters : hd[h].pc \in {"lock", "save"} =>
     hd[h].kind = "on" \/ (hd[h].kind = "off" /\ hd[h].since = 0)
MirrorInv == TypeOK /\ EnabledOnly /\ MarkKinds /\ CleanupMeansOff

-----------------------------------------------------------------------------
(* Shapes.                                                                 *)
LEMMA TaskNames ==
  ASSUME MirrorAssumption
  PROVE  /\ ByHandlers \subseteq Tasks /\ Bystanders \subseteq Tasks
         /\ Tasks = ByHandlers \cup Bystanders /\ ByHandlers \cap Bystanders = {}
         /\ Handlers \subseteq Waiters /\ Boot \in Waiters /\ Shots \subseteq Tasks
         /\ Shots \cap ByHandlers = {}
BY DEF MirrorAssumption, ByHandlers, Bystanders, Tasks, Waiters

LEMMA FreshRows ==
  ASSUME MirrorAssumption
  PROVE  /\ Done \in TaskRow /\ New \in TaskRow /\ Idle \in HandlerRow
         /\ Done.pc = "none" /\ New.pc = "new" /\ Idle.pc = "idle" /\ Idle.kind = "none"
         /\ Idle.since = 0
         /\ [Idle EXCEPT !.pc = "asks", !.kind = "boot"] \in HandlerRow
         /\ [Idle EXCEPT !.pc = "asks", !.kind = "on"] \in HandlerRow
BY DEF MirrorAssumption, Done, New, Idle, TaskRow, HandlerRow

LEMMA RowsOfTasks ==
  ASSUME MirrorAssumption, TypeOK, NEW x \in Tasks
  PROVE  /\ Sleeping(x) \in TaskRow /\ Sleeping(x).pc = "sleep"
         /\ task[x] \in TaskRow
         /\ Learned(x) \in Client /\ [Learned(x) EXCEPT !.active = FALSE] \in Client
         /\ NextClient \in Client
         /\ \A b \in BOOLEAN : [client EXCEPT !.active = b] \in Client
<1>1. task[x] \in TaskRow /\ client \in Client
  BY DEF TypeOK
<1>2. Sleeping(x) \in TaskRow /\ Sleeping(x).pc = "sleep"
  BY <1>1 DEF Sleeping, Done, TaskRow, MirrorAssumption
<1>3. Learned(x) \in Client
  <2>1. Lost(x) \in BOOLEAN /\ Limited(x) \in BOOLEAN
    BY <1>1 DEF Lost, Limited, Client, TaskRow
  <2> QED BY <1>1, <2>1 DEF Learned, Client
<1>4. NextClient \in Client
  BY <1>1 DEF NextClient, Client, TypeOK, MirrorAssumption
<1> QED BY <1>1, <1>2, <1>3, <1>4 DEF Client

LEMMA CallRow ==
  ASSUME MirrorAssumption, TypeOK, NEW x \in Tasks, NEW content \in Nat \cup {None},
         NEW op \in {"create", "update", "off", "end", "delete", "patch", "post"},
         Call(x, op, content)
  PROVE  /\ task' \in [Tasks -> TaskRow]
         /\ task'[x].pc = "call" /\ \A y \in Tasks \ {x} : task'[y] = task[y]
<1> DEFINE row == [task[x] EXCEPT !.pc = "call", !.op = op, !.content = content, !.res = "none"]
<1>1. task \in [Tasks -> TaskRow] /\ task[x] \in TaskRow
  BY DEF TypeOK
<1>2. row \in TaskRow /\ row.pc = "call"
  BY <1>1 DEF TaskRow
<1>3. task' = [task EXCEPT ![x] = row]
  BY DEF Call, Goes
<1> HIDE DEF row
<1> QED BY <1>1, <1>2, <1>3

LEMMA GoesRow ==
  ASSUME TypeOK, NEW x \in Tasks, NEW row \in TaskRow, Goes(x, row)
  PROVE  /\ task' \in [Tasks -> TaskRow]
         /\ task'[x] = row /\ \A y \in Tasks \ {x} : task'[y] = task[y]
BY DEF TypeOK, Goes

LEMMA AnswersRow ==
  ASSUME MirrorAssumption, TypeOK, NEW x \in Tasks,
         NEW res \in {"ok", "missing", "failed", "limited"}, Answers(x, res)
  PROVE  /\ task' \in [Tasks -> TaskRow]
         /\ task'[x].pc = "back" /\ \A y \in Tasks \ {x} : task'[y] = task[y]
<1> DEFINE row == [task[x] EXCEPT !.pc = "back", !.res = res,
                                  !.content = IF res = "missing" THEN @ ELSE None]
<1>1. task \in [Tasks -> TaskRow] /\ task[x] \in TaskRow
  BY DEF TypeOK
<1>2. row \in TaskRow /\ row.pc = "back"
  BY <1>1 DEF TaskRow
<1>3. task' = [task EXCEPT ![x] = row]
  BY <1>1 DEF Answers, TaskRow
<1> HIDE DEF row
<1> QED BY <1>1, <1>2, <1>3

(* Starting the activity leaves no cleanup; one-shots are nobody else.     *)
LEMMA StartedRows ==
  ASSUME MirrorAssumption, TypeOK
  PROVE  /\ Started(task) \in [Tasks -> TaskRow]
         /\ config.activity => Started(task)["cleanup"] = Done /\ Started(task)["deleter"] = Done
         /\ ~config.activity => Started(task) = task
BY FreshRows, TaskNames DEF Started, TypeOK, Cancels, ByHandlers

LEMMA ShootRows ==
  ASSUME MirrorAssumption, NEW ts \in [Tasks -> TaskRow], NEW n, CanShoot(n)
  PROVE  /\ Shoot(ts, n) \in [Tasks -> TaskRow]
         /\ \A x \in ByHandlers : Shoot(ts, n)[x] = ts[x]
<1>1. CASE config.widget
  <2> DEFINE new == CHOOSE S \in SUBSET FreeShots : Cardinality(S) = n
  <2>1. new \subseteq Shots
    <3>1. \E S \in SUBSET FreeShots : Cardinality(S) = n
      BY <1>1 DEF CanShoot
    <3>2. new \in SUBSET FreeShots
      BY <3>1
    <3> QED BY <3>2 DEF FreeShots
  <2>2. Shoot(ts, n) = [x \in Tasks |-> IF x \in new THEN New ELSE ts[x]]
    BY <1>1 DEF Shoot
  <2> HIDE DEF new
  <2> QED BY <2>1, <2>2, FreshRows, TaskNames
<1>2. CASE ~config.widget
  BY <1>2, TaskNames DEF Shoot
<1> QED BY <1>1, <1>2

LEMMA WidgetStartedRows ==
  ASSUME MirrorAssumption, NEW ts \in [Tasks -> TaskRow], NEW calls,
         CanShoot(WidgetShots(calls))
  PROVE  /\ WidgetStarted(ts, calls) \in [Tasks -> TaskRow]
         /\ \A x \in ByHandlers : WidgetStarted(ts, calls)[x] = ts[x]
<1> DEFINE us == [ts EXCEPT !["widget"] = IF Alive("widget") THEN @ ELSE New]
<1>1. us \in [Tasks -> TaskRow] /\ \A x \in ByHandlers : us[x] = ts[x]
  BY FreshRows, TaskNames DEF ByHandlers, Bystanders
<1>2. WidgetStarted(ts, calls) = IF ~config.widget THEN ts ELSE Shoot(us, WidgetShots(calls))
  BY DEF WidgetStarted
<1> HIDE DEF us
<1> QED BY <1>1, <1>2, ShootRows

LEMMA StoppedRows ==
  ASSUME MirrorAssumption, TypeOK
  PROVE  /\ Stopped(task) \in [Tasks -> TaskRow]
         /\ Stopped(task)["deleter"] = task["deleter"]
         /\ config.activity /\ ~Alive("cleanup") => Stopped(task)["loop"] = Done
         /\ ~config.activity \/ Alive("cleanup") => Stopped(task) = task
<1>1. task \in [Tasks -> TaskRow] /\ {"loop", "cleanup", "deleter"} \subseteq Tasks
  BY TaskNames DEF TypeOK, ByHandlers
<1> QED BY <1>1, FreshRows DEF Stopped

-----------------------------------------------------------------------------
(* What keeps the invariant: the tasks of bystanders and the handlers that *)
(* change nothing here, a start, a stop.                                   *)
Unsaved == "unsaved" \in excused
Promised == OffPending \/ Starting

(* No task of the three appears, and no reason for one goes.               *)
LEMMA NothingAppears ==
  ASSUME MirrorAssumption, MirrorInv, UNCHANGED <<config, mem>>,
         Alive("cleanup")' \/ Alive("deleter")' => Alive("cleanup") \/ Alive("deleter"),
         Alive("loop")' => Alive("loop"),
         Promised => Promised', Unsaved => Unsaved'
  PROVE  EnabledOnly' /\ CleanupMeansOff'
<1>1. EnabledOnly'
  BY DEF MirrorInv, EnabledOnly, ByHandlers
<1>2. On' = On
  BY DEF On
<1>3. CleanupMeansOff'
  <2>1. CASE ~(Alive("cleanup") \/ Alive("deleter"))
    BY <2>1 DEF CleanupMeansOff
  <2>2. CASE Alive("cleanup") \/ Alive("deleter")
    <3>1. ~Alive("loop") /\ (~On \/ Promised \/ Unsaved)
      BY <2>2 DEF MirrorInv, CleanupMeansOff, Promised, Unsaved
    <3> QED BY <3>1, <1>2 DEF CleanupMeansOff, Promised, Unsaved
  <2> QED BY <2>1, <2>2
<1> QED BY <1>1, <1>3

(* A start leaves neither the cleanup nor the task that deletes.           *)
LEMMA StartClears ==
  ASSUME MirrorAssumption, MirrorInv, UNCHANGED config,
         task'["cleanup"] = Started(task)["cleanup"],
         task'["deleter"] = Started(task)["deleter"],
         task'["loop"] = Started(task)["loop"]
  PROVE  EnabledOnly' /\ CleanupMeansOff'
<1>1. CASE config.activity
  <2>1. ~Alive("cleanup")' /\ ~Alive("deleter")'
    BY <1>1, StartedRows, FreshRows DEF MirrorInv, Alive
  <2> QED BY <1>1, <2>1 DEF EnabledOnly, CleanupMeansOff
<1>2. CASE ~config.activity
  <2>1. \A x \in ByHandlers : task'[x] = task[x]
    BY <1>2, StartedRows DEF MirrorInv, ByHandlers
  <2>2. \A x \in ByHandlers : ~Alive(x)'
    BY <1>2, <2>1 DEF MirrorInv, EnabledOnly, Alive
  <2> QED BY <2>2 DEF EnabledOnly, CleanupMeansOff, ByHandlers
<1> QED BY <1>1, <1>2

(* A stop leaves no loop beside them, and an off is on its way.            *)
LEMMA StopPromises ==
  ASSUME MirrorAssumption, MirrorInv, UNCHANGED config, StopActivity,
         NEW h \in Waiters, hd'[h].pc = "lock", hd'[h].kind = "off"
  PROVE  EnabledOnly' /\ CleanupMeansOff'
<1>1. OffPending'
  BY DEF OffPending
<1>2. task' = Stopped(task)
  BY DEF StopActivity
<1>3. CASE config.activity /\ ~Alive("cleanup")
  <2>1. ~Alive("loop")'
    BY <1>2, <1>3, StoppedRows, FreshRows DEF MirrorInv, Alive
  <2> QED BY <1>1, <1>3, <2>1 DEF EnabledOnly, CleanupMeansOff
<1>4. CASE ~config.activity
  <2>1. task' = task
    BY <1>2, <1>4, StoppedRows DEF MirrorInv
  <2>2. \A x \in ByHandlers : ~Alive(x)'
    BY <1>4, <2>1 DEF MirrorInv, EnabledOnly, Alive
  <2> QED BY <2>2 DEF EnabledOnly, CleanupMeansOff, ByHandlers
<1>5. CASE config.activity /\ Alive("cleanup")
  <2>1. task' = task /\ ~Alive("loop")
    BY <1>2, <1>5, StoppedRows DEF MirrorInv, CleanupMeansOff
  <2> QED BY <1>1, <1>5, <2>1 DEF EnabledOnly, CleanupMeansOff, Alive
<1> QED BY <1>3, <1>4, <1>5

-----------------------------------------------------------------------------
(* Steps of tasks.                                                         *)
AsideSame == UNCHANGED <<config, ha, changes, mem, disk, hd>>

(* A step of one task that was there before, or is nobody's concern.       *)
LEMMA OneTask ==
  ASSUME MirrorAssumption, MirrorInv, AsideSame, NEW x \in Tasks,
         task' \in [Tasks -> TaskRow], \A y \in Tasks \ {x} : task'[y] = task[y],
         Alive(x) \/ x \notin ByHandlers, client' \in Client, Unsaved => Unsaved'
  PROVE  MirrorInv'
<1>1. TypeOK'
  BY DEF MirrorInv, TypeOK, AsideSame
<1>2. MarkKinds'
  BY DEF MirrorInv, MarkKinds, AsideSame
<1>3. \A y \in ByHandlers : Alive(y)' => Alive(y)
  BY TaskNames DEF Alive, ByHandlers
<1>4. Promised => Promised'
  BY DEF AsideSame, Promised, OffPending, Starting
<1>5. UNCHANGED <<config, mem>>
  BY DEF AsideSame
<1>6. EnabledOnly' /\ CleanupMeansOff'
  BY <1>3, <1>4, <1>5, NothingAppears DEF ByHandlers
<1> QED BY <1>1, <1>2, <1>6 DEF MirrorInv

LEMMA SameUnsaved ==
  ASSUME UNCHANGED excused
  PROVE  Unsaved => Unsaved'
BY DEF Unsaved

LEMMA ServeKeeps ==
  ASSUME MirrorAssumption, MirrorInv, NEW x \in Tasks, Serve(x) \/ CallFails(x)
  PROVE  MirrorInv'
<1>1. TypeOK /\ Alive(x)
  BY DEF MirrorInv, Serve, CallFails, Alive
<1>2. PICK res \in {"ok", "missing", "failed", "limited"} : Answers(x, res)
  <2>1. CASE Serve(x)
    <3>1. Reply(task[x].op) \in {"ok", "missing"}
      BY DEF Reply
    <3> QED BY <2>1, <3>1 DEF Serve
  <2>2. CASE CallFails(x)
    BY <2>2 DEF CallFails
  <2> QED BY <2>1, <2>2
<1>3. /\ task' \in [Tasks -> TaskRow]
      /\ \A y \in Tasks \ {x} : task'[y] = task[y]
  BY <1>1, <1>2, AnswersRow
<1>4. AsideSame /\ client' = client
  BY DEF Serve, CallFails, AsideSame, machine, store
<1>5. Unsaved => Unsaved'
  BY DEF Serve, CallFails, Unsaved
<1>6. client' \in Client
  BY <1>1, <1>4 DEF TypeOK
<1> QED BY <1>1, <1>3, <1>4, <1>5, <1>6, OneTask

(* What the loop and an alert send.                                        *)
LEMMA UpdateRow ==
  ASSUME MirrorAssumption, TypeOK, NEW x \in Tasks, UpdateFromState(x)
  PROVE  /\ task' \in [Tasks -> TaskRow]
         /\ \A y \in Tasks \ {x} : task'[y] = task[y]
<1>1. CASE Call(x, "update", mem)
  <2>1. mem \in Nat \cup {None}
    BY DEF TypeOK
  <2> QED BY <1>1, <2>1, CallRow
<1>2. CASE Goes(x, Sleeping(x))
  BY <1>2, RowsOfTasks, GoesRow
<1> QED BY <1>1, <1>2 DEF UpdateFromState

LEMMA LoopKeeps ==
  ASSUME MirrorAssumption, MirrorInv, LoopTurns \/ LoopHears
  PROVE  MirrorInv'
<1> DEFINE x == "loop"
<1>1. TypeOK /\ x \in Tasks /\ Alive(x)
  BY TaskNames DEF MirrorInv, LoopTurns, LoopHears, Alive, ByHandlers
<1>2. AsideSame /\ UNCHANGED excused
  BY DEF LoopTurns, LoopHears, AsideSame, machine, store
<1>3. CASE LoopTurns
  <2>1. Goes(x, Done) \/ Call(x, "create", None) \/ UpdateFromState(x)
    BY <1>3 DEF LoopTurns
  <2>2. None \in Nat \cup {None}
    OBVIOUS
  <2>3. /\ task' \in [Tasks -> TaskRow]
        /\ \A y \in Tasks \ {x} : task'[y] = task[y]
    BY <1>1, <2>1, <2>2, FreshRows, GoesRow, CallRow, UpdateRow
  <2>4. client' \in Client
    BY <1>1, <1>3 DEF LoopTurns, TypeOK
  <2> QED BY <1>1, <1>2, <2>3, <2>4, SameUnsaved, OneTask
<1>4. CASE LoopHears
  <2>1. Goes(x, Done) \/ Goes(x, Sleeping(x)) \/ UpdateFromState(x)
    BY <1>4 DEF LoopHears
  <2>2. /\ task' \in [Tasks -> TaskRow]
        /\ \A y \in Tasks \ {x} : task'[y] = task[y]
    BY <1>1, <2>1, FreshRows, RowsOfTasks, GoesRow, UpdateRow
  <2>3. client' = [client EXCEPT !.active = TRUE] \/ client' = Learned(x)
    BY <1>4 DEF LoopHears
  <2>4. client' \in Client
    BY <1>1, <2>3, RowsOfTasks
  <2> QED BY <1>1, <1>2, <2>2, <2>4, SameUnsaved, OneTask
<1> QED BY <1>3, <1>4

LEMMA CleanupBeginsKeeps ==
  ASSUME MirrorAssumption, MirrorInv, CleanupBegins
  PROVE  MirrorInv'
<1> DEFINE x == "cleanup"
           row == [Done EXCEPT !.pc = "call", !.op = "off", !.content = 0, !.was = client.active]
<1>1. TypeOK /\ x \in Tasks /\ Alive(x) /\ client \in Client
  BY TaskNames DEF MirrorInv, CleanupBegins, Alive, ByHandlers, TypeOK
<1>2. AsideSame /\ client' = client
  BY DEF CleanupBegins, AsideSame, machine, store
<1>3. row \in TaskRow
  BY <1>1 DEF Done, TaskRow, Client
<1>4. Goes(x, row)
  BY DEF CleanupBegins
<1>5. /\ task' \in [Tasks -> TaskRow]
      /\ \A y \in Tasks \ {x} : task'[y] = task[y]
  BY <1>1, <1>3, <1>4, GoesRow
<1>6. Unsaved => Unsaved'
  BY DEF CleanupBegins, Unsaved
<1> QED BY <1>1, <1>2, <1>5, <1>6, OneTask

LEMMA CleanupGoesOnKeeps ==
  ASSUME MirrorAssumption, MirrorInv, CleanupGoesOn
  PROVE  MirrorInv'
<1> DEFINE x == "cleanup"
<1>1. TypeOK /\ x \in Tasks /\ Alive(x) /\ client \in Client
  BY TaskNames DEF MirrorInv, CleanupGoesOn, Alive, ByHandlers, TypeOK
<1>2. AsideSame /\ UNCHANGED excused
  BY DEF CleanupGoesOn, AsideSame, machine, store
<1>3. client' \in Client
  <2>1. \/ client' = Learned(x) \/ client' = client
        \/ client' = [client EXCEPT !.active = FALSE]
        \/ client' = [Learned(x) EXCEPT !.active = FALSE]
    BY DEF CleanupGoesOn
  <2>2. Learned(x) \in Client /\ [Learned(x) EXCEPT !.active = FALSE] \in Client
    BY <1>1, RowsOfTasks
  <2>3. [client EXCEPT !.active = FALSE] \in Client
    BY <1>1, RowsOfTasks
  <2> QED BY <1>1, <2>1, <2>2, <2>3
<1>4. CASE Goes(x, Sleeping(x)) \/ Call(x, "end", None) \/ Goes(x, Done)
  <2>1. None \in Nat \cup {None}
    OBVIOUS
  <2>2. /\ task' \in [Tasks -> TaskRow]
        /\ \A y \in Tasks \ {x} : task'[y] = task[y]
    BY <1>1, <1>4, <2>1, FreshRows, RowsOfTasks, GoesRow, CallRow
  <2> QED BY <1>1, <1>2, <1>3, <2>2, SameUnsaved, OneTask
<1>5. CASE task' = [task EXCEPT !["cleanup"] = Done, !["deleter"] = New]
  <2>1. task \in [Tasks -> TaskRow] /\ "loop" \in Tasks /\ "deleter" \in Tasks
    BY <1>1, TaskNames DEF TypeOK, ByHandlers
  <2>2. task' \in [Tasks -> TaskRow] /\ task'["loop"] = task["loop"]
    BY <1>5, <2>1, FreshRows
  <2>3. TypeOK' /\ MarkKinds'
    BY <1>2, <1>3, <2>2 DEF MirrorInv, TypeOK, MarkKinds, AsideSame
  <2>4. (Alive("loop")' => Alive("loop")) /\ (Promised => Promised') /\ (Unsaved => Unsaved')
    BY <1>2, <2>2 DEF Alive, Promised, OffPending, Starting, AsideSame, Unsaved
  <2>5. UNCHANGED <<config, mem>>
    BY <1>2 DEF AsideSame
  <2> QED BY <1>1, <2>3, <2>4, <2>5, NothingAppears DEF MirrorInv
<1> QED BY <1>4, <1>5 DEF CleanupGoesOn

LEMMA DeleterKeeps ==
  ASSUME MirrorAssumption, MirrorInv, DeleterGoesOn
  PROVE  MirrorInv'
<1> DEFINE x == "deleter"
<1>1. TypeOK /\ x \in Tasks /\ Alive(x) /\ client \in Client
  BY TaskNames DEF MirrorInv, DeleterGoesOn, Alive, ByHandlers, TypeOK
<1>2. AsideSame /\ UNCHANGED excused
  BY DEF DeleterGoesOn, AsideSame, machine, store
<1>3. None \in Nat \cup {None}
  OBVIOUS
<1>4. /\ task' \in [Tasks -> TaskRow]
      /\ \A y \in Tasks \ {x} : task'[y] = task[y]
  BY <1>1, <1>3, FreshRows, RowsOfTasks, GoesRow, CallRow DEF DeleterGoesOn
<1>5. client' \in Client
  BY <1>1, RowsOfTasks DEF DeleterGoesOn
<1> QED BY <1>1, <1>2, <1>4, <1>5, SameUnsaved, OneTask

(* An alert's update and the widget: bystanders.                           *)
LEMMA BystandersKeep ==
  ASSUME MirrorAssumption, MirrorInv, NEW x \in Bystanders,
         MarkGoesOn(x) \/ WidgetTurns(x) \/ MarkAlert(x)
  PROVE  MirrorInv'
<1>1. TypeOK /\ x \in Tasks /\ x \notin ByHandlers /\ client \in Client
  BY TaskNames DEF MirrorInv, TypeOK
<1>2. AsideSame /\ UNCHANGED excused
  BY DEF MarkGoesOn, WidgetTurns, MarkAlert, AsideSame, machine, store
<1>3. /\ None \in Nat \cup {None} /\ mem \in Nat \cup {None}
      /\ task[x].content \in Nat \cup {None}
      /\ (IF On THEN mem ELSE None) \in Nat \cup {None}
  BY <1>1 DEF TypeOK, TaskRow
<1>4. \/ Goes(x, New) \/ Goes(x, Done) \/ Goes(x, Sleeping(x))
      \/ Call(x, "update", IF On THEN mem ELSE None)
      \/ Call(x, "patch", mem) \/ Call(x, "post", task[x].content)
  BY DEF MarkGoesOn, WidgetTurns, MarkAlert, WidgetContent
<1>5. /\ task' \in [Tasks -> TaskRow]
      /\ \A y \in Tasks \ {x} : task'[y] = task[y]
  <2>1. CASE Goes(x, New) \/ Goes(x, Done) \/ Goes(x, Sleeping(x))
    BY <1>1, <2>1, FreshRows, RowsOfTasks, GoesRow
  <2>2. CASE Call(x, "update", IF On THEN mem ELSE None)
    BY <1>1, <1>3, <2>2, CallRow
  <2>3. CASE Call(x, "patch", mem) \/ Call(x, "post", task[x].content)
    BY <1>1, <1>3, <2>3, CallRow
  <2> QED BY <1>4, <2>1, <2>2, <2>3
<1>6. client' \in Client
  BY <1>1, RowsOfTasks DEF MarkGoesOn, WidgetTurns, MarkAlert
<1> QED BY <1>1, <1>2, <1>5, <1>6, SameUnsaved, OneTask

-----------------------------------------------------------------------------
(* Steps of handlers.                                                      *)
FitsMark(rec) ==
  rec.pc \in {"lock", "save"} => rec.kind = "on" \/ (rec.kind = "off" /\ rec.since = 0)

LEMMA MovesKeep ==
  ASSUME MirrorAssumption, MirrorInv, NEW h \in Waiters, NEW rec \in HandlerRow,
         Moves(h, rec), FitsMark(rec)
  PROVE  /\ hd' \in [Waiters -> HandlerRow] /\ MarkKinds'
         /\ hd'[h] = rec /\ \A g \in Waiters \ {h} : hd'[g] = hd[g]
<1>1. hd \in [Waiters -> HandlerRow] /\ hd' = [hd EXCEPT ![h] = rec]
  BY DEF MirrorInv, TypeOK, Moves
<1>2. hd' \in [Waiters -> HandlerRow] /\ hd'[h] = rec
      /\ \A g \in Waiters \ {h} : hd'[g] = hd[g]
  BY <1>1
<1>3. MarkKinds'
  BY <1>2 DEF MirrorInv, MarkKinds, FitsMark
<1> QED BY <1>2, <1>3

LEMMA EndsKeep ==
  ASSUME MirrorAssumption, MirrorInv, NEW h \in Waiters, Ends(h)
  PROVE  /\ hd' \in [Waiters -> HandlerRow] /\ MarkKinds'
         /\ hd'[h] = Idle /\ \A g \in Waiters \ {h} : hd'[g] = hd[g]
<1>1. Idle \in HandlerRow /\ Moves(h, Idle) /\ FitsMark(Idle)
  BY FreshRows DEF Ends, FitsMark
<1> QED BY <1>1, MovesKeep

LEMMA QueueKeeps ==
  ASSUME MirrorAssumption, MirrorInv, NEW h \in Waiters, NEW kind \in {"on", "off"},
         NEW since \in Nat, kind = "off" => since = 0, QueueUp(h, kind, since)
  PROVE  /\ hd' \in [Waiters -> HandlerRow] /\ MarkKinds'
         /\ hd'[h].pc = "lock" /\ hd'[h].kind = kind
         /\ \A g \in Waiters \ {h} : hd'[g] = hd[g]
<1> DEFINE rec == [pc |-> "lock", kind |-> kind, since |-> since]
<1>1. rec \in HandlerRow /\ rec.pc = "lock" /\ rec.kind = kind /\ FitsMark(rec)
  BY DEF HandlerRow, FitsMark
<1>2. Moves(h, rec)
  BY DEF QueueUp
<1> HIDE DEF rec
<1> QED BY <1>1, <1>2, MovesKeep

(* A handler that asks, or is idle, promises nothing.                      *)
LEMMA PromisesStay ==
  ASSUME NEW h \in Waiters, \A g \in Waiters \ {h} : hd'[g] = hd[g],
         hd[h].pc \notin {"lock", "save"}
  PROVE  Promised => Promised'
BY DEF Promised, OffPending, Starting

LEMMA StartCycleRows ==
  ASSUME MirrorAssumption, MirrorInv, NEW calls, StartCycle(calls)
  PROVE  /\ task' \in [Tasks -> TaskRow] /\ client' \in Client
         /\ \A x \in ByHandlers : task'[x] = Started(task)[x]
<1>1. TypeOK
  BY DEF MirrorInv
<1>2. Started(task) \in [Tasks -> TaskRow]
  BY <1>1, StartedRows
<1>3. CanShoot(WidgetShots(calls)) /\ task' = WidgetStarted(Started(task), calls)
  BY DEF StartCycle
<1>4. task' \in [Tasks -> TaskRow] /\ \A x \in ByHandlers : task'[x] = Started(task)[x]
  BY <1>2, <1>3, WidgetStartedRows
<1>5. client' = NextClient \/ client' = client
  BY DEF StartCycle, StartActivity
<1>6. client' \in Client
  <2>1. "loop" \in Tasks
    BY TaskNames DEF ByHandlers
  <2>2. NextClient \in Client
    BY <1>1, <2>1, RowsOfTasks
  <2> QED BY <1>1, <1>5, <2>2 DEF TypeOK
<1> QED BY <1>4, <1>6

(* The end of a handler that starts the activity.                          *)
LEMMA BeginsKeeps ==
  ASSUME MirrorAssumption, MirrorInv, NEW h \in Waiters, NEW calls, Ends(h), StartCycle(calls),
         UNCHANGED <<config, ha, changes, mem>>, disk' \in Nat
  PROVE  MirrorInv'
<1>1. hd' \in [Waiters -> HandlerRow] /\ MarkKinds'
  BY EndsKeep
<1>2. /\ task' \in [Tasks -> TaskRow] /\ client' \in Client
      /\ \A x \in ByHandlers : task'[x] = Started(task)[x]
  BY StartCycleRows
<1>3. TypeOK'
  BY <1>1, <1>2 DEF MirrorInv, TypeOK
<1>4. EnabledOnly' /\ CleanupMeansOff'
  BY <1>2, StartClears DEF ByHandlers
<1> QED BY <1>1, <1>3, <1>4 DEF MirrorInv

LEMMA WidgetRows ==
  ASSUME MirrorAssumption, MirrorInv, NEW n, AfterRestore(task, n) \/ WidgetStops(task, n)
  PROVE  /\ task' \in [Tasks -> TaskRow]
         /\ \A x \in ByHandlers : task'[x] = task[x]
<1>1. task \in [Tasks -> TaskRow] /\ CanShoot(n)
  BY DEF MirrorInv, TypeOK, AfterRestore, WidgetStops
<1> DEFINE us == [task EXCEPT !["widget"] = Done]
<1>2. us \in [Tasks -> TaskRow] /\ \A x \in ByHandlers : us[x] = task[x]
  BY <1>1, FreshRows, TaskNames DEF ByHandlers
<1>3. task' = Shoot(task, n) \/ task' = Shoot(us, n) \/ task' = task
  BY DEF AfterRestore, WidgetStops
<1> HIDE DEF us
<1> QED BY <1>1, <1>2, <1>3, ShootRows

(* A handler goes where it promises nothing less, tasks of the three stay. *)
LEMMA HandlerMoves ==
  ASSUME MirrorAssumption, MirrorInv, UNCHANGED <<config, ha, changes, mem, client>>,
         disk' \in Nat, hd' \in [Waiters -> HandlerRow], MarkKinds',
         task' \in [Tasks -> TaskRow], \A x \in ByHandlers : task'[x] = task[x],
         Promised => Promised', Unsaved => Unsaved'
  PROVE  MirrorInv'
<1>1. TypeOK'
  BY DEF MirrorInv, TypeOK
<1>2. \A x \in ByHandlers : Alive(x)' => Alive(x)
  BY DEF Alive
<1>3. EnabledOnly' /\ CleanupMeansOff'
  BY <1>2, NothingAppears DEF ByHandlers
<1> QED BY <1>1, <1>3 DEF MirrorInv

LEMMA IgnoresKeeps ==
  ASSUME MirrorAssumption, MirrorInv, NEW h \in Waiters, hd[h].pc = "asks", Ignores(h),
         UNCHANGED <<config, ha, changes, mem, disk>>
  PROVE  MirrorInv'
<1>1. Ends(h) /\ UNCHANGED <<client, excused>>
  BY DEF Ignores
<1>2. /\ hd' \in [Waiters -> HandlerRow] /\ MarkKinds'
      /\ \A g \in Waiters \ {h} : hd'[g] = hd[g]
  BY <1>1, EndsKeep
<1>3. Promised => Promised'
  BY <1>2, PromisesStay
<1>4. task' \in [Tasks -> TaskRow] /\ \A x \in ByHandlers : task'[x] = task[x]
  <2>1. CASE AfterRestore(task, 1)
    BY <2>1, WidgetRows
  <2>2. CASE UNCHANGED task
    BY <2>2 DEF MirrorInv, TypeOK
  <2> QED BY <2>1, <2>2 DEF Ignores
<1>5. disk' \in Nat
  BY DEF MirrorInv, TypeOK
<1> QED BY <1>1, <1>2, <1>3, <1>4, <1>5, SameUnsaved, HandlerMoves

(* A handler that hears or finds the machine off queues up to say so.      *)
LEMMA OffKeeps ==
  ASSUME MirrorAssumption, MirrorInv, NEW h \in Waiters, StopActivity, QueueUp(h, "off", 0),
         UNCHANGED <<config, ha, changes, mem, disk, client>>
  PROVE  MirrorInv'
<1>1. /\ hd' \in [Waiters -> HandlerRow] /\ MarkKinds'
      /\ hd'[h].pc = "lock" /\ hd'[h].kind = "off"
  BY QueueKeeps
<1>2. task' \in [Tasks -> TaskRow]
  BY StoppedRows DEF StopActivity, MirrorInv
<1>3. TypeOK'
  BY <1>1, <1>2 DEF MirrorInv, TypeOK
<1>4. EnabledOnly' /\ CleanupMeansOff'
  BY <1>1, StopPromises
<1> QED BY <1>1, <1>3, <1>4 DEF MirrorInv

LEMMA AsksKeeps ==
  ASSUME MirrorAssumption, MirrorInv, NEW h \in Waiters, Asks(h) \/ AsksInVain(h)
  PROVE  MirrorInv'
<1>1. hd[h].pc = "asks" /\ UNCHANGED <<config, ha, changes, mem, disk>>
  BY DEF Asks, AsksInVain, machine
<1>2. disk' \in Nat /\ ha \in Nat
  BY <1>1 DEF MirrorInv, TypeOK
<1>3. CASE Begins(h)
  <2>1. Ends(h) /\ StartCycle(IF h = Boot THEN 2 ELSE 1)
    BY <1>3 DEF Begins
  <2> QED BY <1>1, <1>2, <2>1, BeginsKeeps
<1>4. CASE Ignores(h)
  BY <1>1, <1>4, IgnoresKeeps
<1>5. CASE StopActivity /\ QueueUp(h, "off", 0) /\ UNCHANGED client
  BY <1>1, <1>5, OffKeeps
<1>6. CASE QueueUp(h, "on", ha) /\ UNCHANGED <<client, task, excused>>
  <2>1. /\ hd' \in [Waiters -> HandlerRow] /\ MarkKinds'
        /\ \A g \in Waiters \ {h} : hd'[g] = hd[g]
    BY <1>2, <1>6, QueueKeeps
  <2>2. Promised => Promised'
    BY <1>1, <2>1, PromisesStay
  <2>3. task' \in [Tasks -> TaskRow] /\ \A x \in ByHandlers : task'[x] = task[x]
    BY <1>6 DEF MirrorInv, TypeOK
  <2> QED BY <1>1, <1>2, <1>6, <2>1, <2>2, <2>3, SameUnsaved, HandlerMoves
<1> QED BY <1>3, <1>4, <1>5, <1>6 DEF Asks, AsksInVain

LEMMA HearKeeps ==
  ASSUME MirrorAssumption, MirrorInv, NEW h \in Handlers, NEW again \in BOOLEAN, Hear(h, again)
  PROVE  MirrorInv'
<1>1. /\ h \in Waiters /\ hd[h].pc = "idle"
      /\ UNCHANGED <<config, ha, changes, mem, disk, client, excused>>
  BY TaskNames DEF Hear
<1>2. CASE StopActivity /\ QueueUp(h, "off", 0)
  BY <1>1, <1>2, OffKeeps
<1>3. CASE Moves(h, [Idle EXCEPT !.pc = "asks", !.kind = "on"]) /\ UNCHANGED task
  <2> DEFINE rec == [Idle EXCEPT !.pc = "asks", !.kind = "on"]
  <2>1. rec \in HandlerRow /\ rec.pc = "asks"
    BY FreshRows DEF Idle
  <2>2. FitsMark(rec) /\ Moves(h, rec)
    BY <1>3, <2>1 DEF FitsMark
  <2> HIDE DEF rec
  <2>3. /\ hd' \in [Waiters -> HandlerRow] /\ MarkKinds'
        /\ \A g \in Waiters \ {h} : hd'[g] = hd[g]
    BY <1>1, <2>1, <2>2, MovesKeep
  <2>4. Promised => Promised'
    BY <1>1, <2>3, PromisesStay
  <2>5. task' \in [Tasks -> TaskRow] /\ (\A x \in ByHandlers : task'[x] = task[x])
        /\ disk' \in Nat
    BY <1>1, <1>3 DEF MirrorInv, TypeOK
  <2> QED BY <1>1, <2>3, <2>4, <2>5, SameUnsaved, HandlerMoves
<1> QED BY <1>2, <1>3 DEF Hear

(* The mark in memory: off makes the machine be off, on promises a start.  *)
LEMMA EnterKeeps ==
  ASSUME MirrorAssumption, MirrorInv, NEW h \in Waiters, Enter(h)
  PROVE  MirrorInv'
<1> DEFINE rec == [hd[h] EXCEPT !.pc = "save"]
<1>1. hd[h] \in HandlerRow /\ hd[h].since \in Nat /\ hd[h].pc = "lock"
  BY DEF MirrorInv, TypeOK, HandlerRow, Enter
<1>2. /\ rec \in HandlerRow /\ rec.pc = "save"
      /\ rec.kind = hd[h].kind /\ rec.since = hd[h].since
  BY <1>1 DEF HandlerRow
<1>3. Moves(h, rec) /\ mem' = hd[h].since
  BY DEF Enter
<1>4. hd[h].kind = "on" \/ (hd[h].kind = "off" /\ hd[h].since = 0)
  BY <1>1 DEF MirrorInv, MarkKinds
<1>5. FitsMark(rec)
  BY <1>2, <1>4 DEF FitsMark
<1> HIDE DEF rec
<1>6. hd' \in [Waiters -> HandlerRow] /\ MarkKinds' /\ hd'[h] = rec
  BY <1>2, <1>3, <1>5, MovesKeep
<1>7. UNCHANGED <<config, ha, changes, disk, client, task>>
  BY DEF Enter, machine
<1>8. TypeOK' /\ EnabledOnly'
  BY <1>1, <1>3, <1>6, <1>7 DEF MirrorInv, TypeOK, EnabledOnly, Alive
<1>9. Starting' \/ ~On'
  <2>1. CASE hd[h].kind = "on"
    BY <1>2, <1>6, <2>1 DEF Starting
  <2>2. CASE hd[h].kind = "off" /\ hd[h].since = 0
    BY <1>3, <2>2 DEF On
  <2> QED BY <1>4, <2>1, <2>2
<1>10. CleanupMeansOff'
  BY <1>7, <1>9 DEF MirrorInv, CleanupMeansOff, Alive
<1> QED BY <1>6, <1>8, <1>10 DEF MirrorInv

LEMMA SavedKeeps ==
  ASSUME MirrorAssumption, MirrorInv, NEW h \in Waiters, Saved(h)
  PROVE  MirrorInv'
<1>1. Ends(h) /\ UNCHANGED <<config, ha, changes, mem>> /\ disk' \in Nat
  BY DEF Saved, machine, MirrorInv, TypeOK
<1>2. CASE StartCycle(IF h = Boot THEN 2 ELSE 1)
  BY <1>1, <1>2, BeginsKeeps
<1>3. CASE /\ hd[h].kind = "off" /\ WidgetStops(task, IF h = Boot THEN 2 ELSE 1)
           /\ UNCHANGED <<client, excused>>
  <2>1. /\ hd' \in [Waiters -> HandlerRow] /\ MarkKinds'
        /\ \A g \in Waiters \ {h} : hd'[g] = hd[g]
    BY <1>1, EndsKeep
  <2>2. Promised => Promised'
    BY <1>3, <2>1 DEF Saved, Promised, OffPending, Starting
  <2>3. task' \in [Tasks -> TaskRow] /\ \A x \in ByHandlers : task'[x] = task[x]
    BY <1>3, WidgetRows
  <2> QED BY <1>1, <1>3, <2>1, <2>2, <2>3, SameUnsaved, HandlerMoves
<1> QED BY <1>2, <1>3 DEF Saved

(* A start that fails is remembered.                                       *)
LEMMA SaveFailsKeeps ==
  ASSUME MirrorAssumption, MirrorInv, NEW h \in Waiters, SaveFails(h)
  PROVE  MirrorInv'
<1>1. Ends(h) /\ UNCHANGED <<config, ha, changes, mem, disk, client, task>> /\ hd[h].pc = "save"
  BY DEF SaveFails, machine
<1>2. /\ hd' \in [Waiters -> HandlerRow] /\ MarkKinds'
      /\ \A g \in Waiters \ {h} : hd'[g] = hd[g]
  BY <1>1, EndsKeep
<1>3. TypeOK' /\ EnabledOnly'
  BY <1>1, <1>2 DEF MirrorInv, TypeOK, EnabledOnly, Alive
<1>4. CleanupMeansOff'
  <2>1. CASE config.activity /\ hd[h].kind = "on"
    <3>1. "unsaved" \in excused'
      BY <2>1 DEF SaveFails
    <3> QED BY <1>1, <3>1 DEF MirrorInv, CleanupMeansOff, Alive
  <2>2. CASE config.activity /\ hd[h].kind # "on"
    <3>1. excused' = excused
      BY <2>2 DEF SaveFails
    <3>2. (OffPending => OffPending') /\ (Starting => Starting')
      BY <1>1, <1>2, <2>2 DEF OffPending, Starting
    <3> QED BY <1>1, <3>1, <3>2 DEF MirrorInv, CleanupMeansOff, Alive, On
  <2>3. CASE ~config.activity
    BY <1>1, <2>3 DEF MirrorInv, EnabledOnly, CleanupMeansOff, Alive, ByHandlers
  <2> QED BY <2>1, <2>2, <2>3
<1> QED BY <1>2, <1>3, <1>4 DEF MirrorInv

LEMMA BootRows ==
  ASSUME MirrorAssumption
  PROVE  LET rows == [h \in Waiters |->
                        IF h = Boot THEN [Idle EXCEPT !.pc = "asks", !.kind = "boot"] ELSE Idle]
             cl == [cycle |-> None, active |-> FALSE, degraded |-> FALSE]
         IN  /\ rows \in [Waiters -> HandlerRow] /\ cl \in Client
             /\ \A h \in Waiters : rows[h].pc \notin {"lock", "save"}
<1> DEFINE boot == [Idle EXCEPT !.pc = "asks", !.kind = "boot"]
<1>1. boot \in HandlerRow /\ Idle \in HandlerRow /\ boot.pc = "asks" /\ Idle.pc = "idle"
  BY FreshRows DEF Idle
<1> HIDE DEF boot
<1>2. /\ [h \in Waiters |-> IF h = Boot THEN boot ELSE Idle] \in [Waiters -> HandlerRow]
      /\ \A h \in Waiters :
            [g \in Waiters |-> IF g = Boot THEN boot ELSE Idle][h].pc \notin {"lock", "save"}
  BY <1>1
<1>3. [cycle |-> None, active |-> FALSE, degraded |-> FALSE] \in Client
  BY DEF Client
<1> USE DEF boot
<1> QED BY <1>2, <1>3

LEMMA RestartKeeps ==
  ASSUME MirrorAssumption, MirrorInv, Restart
  PROVE  MirrorInv'
<1>1. /\ hd' \in [Waiters -> HandlerRow] /\ client' \in Client
      /\ \A h \in Waiters : hd'[h].pc \notin {"lock", "save"}
  BY BootRows DEF Restart
<1>2. task' \in [Tasks -> TaskRow] /\ \A x \in Tasks : ~Alive(x)'
  BY FreshRows DEF Restart, Alive
<1>3. UNCHANGED <<config, ha, changes, disk>> /\ mem' = disk
  BY DEF Restart, machine
<1>4. TypeOK' /\ MarkKinds'
  BY <1>1, <1>2, <1>3 DEF MirrorInv, TypeOK, MarkKinds
<1>5. EnabledOnly' /\ CleanupMeansOff'
  BY <1>2, TaskNames DEF EnabledOnly, CleanupMeansOff, ByHandlers
<1> QED BY <1>4, <1>5 DEF MirrorInv

LEMMA KickedKeeps ==
  ASSUME MirrorAssumption, MirrorInv, Kicked
  PROVE  MirrorInv'
<1>1. /\ UNCHANGED <<config, ha, changes, mem, disk, hd>>
      /\ task' = Started(task) /\ StartActivity
  BY DEF Kicked, machine, store
<1>2. task' \in [Tasks -> TaskRow]
  BY <1>1, StartedRows DEF MirrorInv
<1>3. client' \in Client
  <2>1. TypeOK /\ "loop" \in Tasks /\ (client' = NextClient \/ client' = client)
    BY <1>1, TaskNames DEF StartActivity, MirrorInv, ByHandlers
  <2> QED BY <2>1, RowsOfTasks DEF TypeOK
<1>4. TypeOK' /\ MarkKinds'
  BY <1>1, <1>2, <1>3 DEF MirrorInv, TypeOK, MarkKinds
<1>5. EnabledOnly' /\ CleanupMeansOff'
  BY <1>1, StartClears
<1> QED BY <1>4, <1>5 DEF MirrorInv

(* PushWard, the machine and a request to start later change no task.      *)
LEMMA OutsideKeeps ==
  ASSUME MirrorAssumption, MirrorInv,
         StrayServed \/ EndedGoes \/ Switch \/ Reschedule \/ UNCHANGED vars
  PROVE  MirrorInv'
<1>1. UNCHANGED <<config, mem, disk, hd, client, task>>
  BY DEF StrayServed, EndedGoes, Switch, Reschedule, vars, machine, store
<1>2. ha' \in Nat /\ changes' \in Nat
  <2>1. ha \in Nat /\ changes \in Nat
    BY DEF MirrorInv, TypeOK
  <2>2. CASE Switch
    BY <2>1, <2>2 DEF Switch
  <2>3. CASE UNCHANGED machine
    BY <2>1, <2>3 DEF machine
  <2> QED BY <2>2, <2>3 DEF StrayServed, EndedGoes, Reschedule, vars
<1>3. TypeOK' /\ MarkKinds'
  BY <1>1, <1>2 DEF MirrorInv, TypeOK, MarkKinds
<1>4. (Unsaved => Unsaved') /\ (Promised => Promised')
  BY <1>1 DEF StrayServed, EndedGoes, Switch, Reschedule, vars, Unsaved, Promised,
              OffPending, Starting
<1>5. EnabledOnly' /\ CleanupMeansOff'
  BY <1>1, <1>4, NothingAppears DEF Alive
<1> QED BY <1>3, <1>5 DEF MirrorInv

-----------------------------------------------------------------------------
LEMMA MirrorInit ==
  ASSUME MirrorAssumption, Init
  PROVE  MirrorInv
<1>1. hd \in [Waiters -> HandlerRow] /\ client \in Client
      /\ \A h \in Waiters : hd[h].pc \notin {"lock", "save"}
  BY BootRows DEF Init
<1>2. task \in [Tasks -> TaskRow] /\ \A x \in Tasks : ~Alive(x)
  BY FreshRows DEF Init, Alive
<1>3. TypeOK /\ MarkKinds
  BY <1>1, <1>2 DEF Init, TypeOK, MarkKinds
<1>4. EnabledOnly /\ CleanupMeansOff
  BY <1>2, TaskNames DEF EnabledOnly, CleanupMeansOff, ByHandlers
<1> QED BY <1>3, <1>4 DEF MirrorInv

LEMMA MirrorStep ==
  ASSUME MirrorAssumption, MirrorInv, [Next]_vars
  PROVE  MirrorInv'
<1>1. CASE \E x \in Tasks : TaskStep(x) \/ CallFails(x)
  <2>1. PICK x \in Tasks : TaskStep(x) \/ CallFails(x)
    BY <1>1
  <2>2. CASE Serve(x) \/ CallFails(x)
    BY <2>2, ServeKeeps
  <2>3. CASE LoopTurns \/ LoopHears
    BY <2>3, LoopKeeps
  <2>4. CASE CleanupBegins
    BY <2>4, CleanupBeginsKeeps
  <2>5. CASE CleanupGoesOn
    BY <2>5, CleanupGoesOnKeeps
  <2>6. CASE DeleterGoesOn
    BY <2>6, DeleterKeeps
  <2>7. CASE (x \in Marks /\ MarkGoesOn(x)) \/ (x \in Shots \cup {"widget"} /\ WidgetTurns(x))
    BY <2>7, BystandersKeep DEF Bystanders
  <2> QED BY <2>1, <2>2, <2>3, <2>4, <2>5, <2>6, <2>7 DEF TaskStep
<1>2. CASE \E h \in Waiters : HandlerStep(h) \/ AsksInVain(h) \/ SaveFails(h)
  <2>1. PICK h \in Waiters : HandlerStep(h) \/ AsksInVain(h) \/ SaveFails(h)
    BY <1>2
  <2>2. CASE Asks(h) \/ AsksInVain(h)
    BY <2>2, AsksKeeps
  <2>3. CASE Enter(h)
    BY <2>3, EnterKeeps
  <2>4. CASE Saved(h)
    BY <2>4, SavedKeeps
  <2>5. CASE SaveFails(h)
    BY <2>5, SaveFailsKeeps
  <2> QED BY <2>1, <2>2, <2>3, <2>4, <2>5 DEF HandlerStep
<1>3. CASE \E h \in Handlers, again \in BOOLEAN : Hear(h, again)
  BY <1>3, HearKeeps
<1>4. CASE \E x \in Marks : MarkAlert(x)
  BY <1>4, BystandersKeep DEF Bystanders
<1>5. CASE Kicked
  BY <1>5, KickedKeeps
<1>6. CASE Restart
  BY <1>6, RestartKeeps
<1>7. CASE StrayServed \/ EndedGoes \/ Switch \/ Reschedule \/ UNCHANGED vars
  BY <1>7, OutsideKeeps
<1> QED BY <1>1, <1>2, <1>3, <1>4, <1>5, <1>6, <1>7 DEF Next

LEMMA MirrorInvariant == Spec => []MirrorInv
<1>1. Init => MirrorInv
  BY MirrorAssumption, MirrorInit
<1>2. MirrorInv /\ [Next]_vars => MirrorInv'
  BY MirrorAssumption, MirrorStep
<1> QED BY <1>1, <1>2, PTL DEF Spec

(* Handlers, tasks and what the client remembers keep their shape, however *)
(* events, alerts, settings, faults and restarts interleave.               *)
THEOREM MirrorTypeCorrect == Spec => []TypeOK
<1>1. MirrorInv => TypeOK
  BY DEF MirrorInv
<1> QED BY <1>1, MirrorInvariant, PTL

(* Neither the off cleanup nor the task that deletes the activity is at    *)
(* work beside the loop or in a running cycle, unless an off or a start is *)
(* on its way or a start could not be saved (start_or_restore, stop).      *)
THEOREM CleanupMeansOffHolds == Spec => []CleanupMeansOff
<1>1. MirrorInv => CleanupMeansOff
  BY DEF MirrorInv
<1> QED BY <1>1, MirrorInvariant, PTL
=============================================================================
