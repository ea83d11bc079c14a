------------------------- MODULE CoffeeAlertsProofs -------------------------
(***************************************************************************)
(* Proofs about the coffee alerts, for any number of handlers and tasks,   *)
(* any delays and any faults.                                              *)
(*                                                                         *)
(* The argument: whoever is between its request for the lock and its       *)
(* release is in line, and only the first in line writes, so nobody writes *)
(* beside a handler that changes the cycle or a task that marks.  Whoever  *)
(* ends tasks ends all that run, and starts tasks of the cycle in memory.  *)
(* What was accepted is on its way to the state, or in it, or known to be  *)
(* lost; a task that is about to send has just read the state.             *)
(***************************************************************************)
EXTENDS CoffeeAlerts, TLAPS

(* The lock: x is first in the queue q, and q is an order of those in it.  *)
First(q, x) == InLine(q, x) /\ \A y \in Actors : InLine(q, y) => <<x, y>> \in q
Ordered(q) ==
  /\ q \subseteq Actors \X Actors
  /\ \A x, y \in Actors : <<x, y>> \in q =>
       InLine(q, x) /\ InLine(q, y) /\ (<<y, x>> \in q => x = y)

(* Who waits for the lock or has it, and who writes with it.               *)
Queued(x) == \/ x \in Tasks /\ tk[x].pc \in {"mark", "save"}
             \/ x \in Waiters /\ hd[x].pc \in {"lock", "mark", "save", "marked"}
Writes(x) == \/ x \in Tasks /\ tk[x].pc = "save"
             \/ x \in Waiters /\ hd[x].pc \in {"save", "marked"}
LockInv ==
  /\ Ordered(line)
  /\ \A x \in Actors : /\ (InLine(line, x) <=> Queued(x))
                       /\ (Writes(x) => First(line, x))

(* What a handler knows between its steps.                                 *)
Asked(h) ==
  /\ hd[h].pc \in {"send", "accepted", "mark", "marked"} => hd[h].kind = "legacy"
  /\ hd[h].pc = "save" /\ hd[h].kind = "set" =>
       /\ hd[h].want.on = mem.on /\ hd[h].want.since = mem.since
       /\ hd[h].want.sent = mem.sent
  /\ hd[h].pc = "save" /\ hd[h].kind = "off" => ~mem.on
HandlerInv == \A h \in Waiters : Asked(h)

(* A task belongs to the cycle in memory, as long as a cycle can be told.  *)
Current(t) ==
  ~Ended(t) => \/ tk[t].alert \in excused \/ Adopting \/ ~mem.on
               \/ tk[t].cycle = mem.since

(* What was accepted is told; what is told is lost, or remembered, or on   *)
(* its way to the state; and nobody sends what is told and not lost.       *)
Owed(t) == tk[t].pc \in {"accepted", "mark"}
Reported(t) ==
  /\ Owed(t) => Triple(t) \in told
  /\ tk[t].pc = "send" /\ Triple(t) \in told => Triple(t) \in lost
Noted(x) == x[3] = mem.since /\ <<x[1], x[2]>> \in mem.sent
Remembered ==
  \A x \in told : x \in lost \/ Noted(x) \/ \E t \in Tasks : Owed(t) /\ Triple(t) = x
TaskInv ==
  NoStrayTask /\ (\A t \in Tasks : Current(t) /\ Reported(t)) /\ Remembered

(* Memory is ahead of the file only by a save.                             *)
Changing(h) == \/ hd[h].pc = "marked"
               \/ hd[h].pc = "save" /\ hd[h].kind # "set"
Writing == (\E t \in Tasks : tk[t].pc = "save") \/ \E h \in Waiters : Changing(h)
FileInv == behind \/ orphans # {} \/ Writing \/ disk = mem

AlertInv == AlertTypeOK /\ LockInv /\ HandlerInv /\ TaskInv /\ FileInv

-----------------------------------------------------------------------------
(* The lock.                                                               *)
LEMMA Joining ==
  ASSUME NEW q, Ordered(q), NEW x \in Actors, ~InLine(q, x)
  PROVE  /\ Ordered(Join(q, x))
         /\ \A y \in Actors : InLine(Join(q, x), y) <=> InLine(q, y) \/ y = x
         /\ \A y \in Actors : First(q, y) => First(Join(q, x), y)
<1>1. Join(q, x) \subseteq Actors \X Actors
  BY DEF Join, Ordered
<1>2. \A y, z \in Actors : <<y, z>> \in Join(q, x) <=>
        <<y, z>> \in q \/ (z = x /\ (InLine(q, y) \/ y = x))
  BY DEF Join
<1> HIDE DEF Join
<1>3. \A y \in Actors : InLine(Join(q, x), y) <=> InLine(q, y) \/ y = x
  BY <1>2 DEF InLine
<1>4. Ordered(Join(q, x))
  BY <1>1, <1>2, <1>3 DEF Ordered, InLine
<1>5. ASSUME NEW y \in Actors, First(q, y) PROVE First(Join(q, x), y)
  BY <1>2, <1>3, <1>5 DEF First
<1> QED BY <1>3, <1>4, <1>5

LEMMA Leaving ==
  ASSUME NEW q, Ordered(q), NEW gone
  PROVE  /\ Ordered(Leave(q, gone))
         /\ \A y \in Actors : InLine(Leave(q, gone), y) <=> InLine(q, y) /\ y \notin gone
         /\ \A y \in Actors : First(q, y) /\ y \notin gone => First(Leave(q, gone), y)
<1>1. \A y, z \in Actors : <<y, z>> \in Leave(q, gone) <=>
        <<y, z>> \in q /\ y \notin gone /\ z \notin gone
  BY DEF Leave
<1>2. Leave(q, gone) \subseteq Actors \X Actors
  BY DEF Leave, Ordered
<1> HIDE DEF Leave
<1>3. \A y \in Actors : InLine(Leave(q, gone), y) <=> InLine(q, y) /\ y \notin gone
  BY <1>1 DEF InLine
<1>4. Ordered(Leave(q, gone))
  BY <1>1, <1>2, <1>3 DEF Ordered, InLine
<1>5. ASSUME NEW y \in Actors, First(q, y), y \notin gone PROVE First(Leave(q, gone), y)
  BY <1>1, <1>3, <1>5 DEF First
<1> QED BY <1>3, <1>4, <1>5

LEMMA OneHolder ==
  ASSUME NEW q, Ordered(q), NEW x \in Actors, NEW y \in Actors, First(q, x), First(q, y)
  PROVE  x = y
BY DEF First, Ordered

LEMMA LockStays ==
  ASSUME LockInv, line' = line,
         \A x \in Actors : (Queued(x)' <=> Queued(x)),
         \A x \in Actors : Writes(x)' => Writes(x) \/ Holds(x)
  PROVE  LockInv'
<1>1. \A x \in Actors : Holds(x) <=> First(line, x)
  BY DEF Holds, First
<1>2. Ordered(line)'
  BY DEF LockInv, Ordered, InLine
<1>3. \A x \in Actors : First(line, x)' <=> First(line, x)
  BY DEF First, InLine
<1>4. \A x \in Actors : InLine(line, x)' <=> InLine(line, x)
  BY DEF InLine
<1> QED BY <1>1, <1>2, <1>3, <1>4 DEF LockInv

LEMMA LockJoined ==
  ASSUME LockInv, NEW x \in Actors, line' = Join(line, x), ~Queued(x), Queued(x)', ~Writes(x)',
         \A y \in Actors \ {x} : (Queued(y)' <=> Queued(y)) /\ (Writes(y)' => Writes(y))
  PROVE  LockInv'
<1> DEFINE q == Join(line, x)
<1>1. /\ Ordered(q)
      /\ \A y \in Actors : InLine(q, y) <=> InLine(line, y) \/ y = x
      /\ \A y \in Actors : First(line, y) => First(q, y)
  BY Joining DEF LockInv
<1>2. /\ Ordered(line)' <=> Ordered(q)
      /\ \A y \in Actors : First(line, y)' <=> First(q, y)
      /\ \A y \in Actors : InLine(line, y)' <=> InLine(q, y)
  BY DEF Ordered, First, InLine
<1> HIDE DEF q
<1> QED BY <1>1, <1>2 DEF LockInv

LEMMA LockLeft ==
  ASSUME LockInv, NEW x \in Actors, line' = Leave(line, {x}), ~Queued(x)', ~Writes(x)',
         \A y \in Actors \ {x} : (Queued(y)' <=> Queued(y)) /\ (Writes(y)' => Writes(y))
  PROVE  LockInv'
<1> DEFINE q == Leave(line, {x})
<1>1. /\ Ordered(q)
      /\ \A y \in Actors : InLine(q, y) <=> InLine(line, y) /\ y # x
      /\ \A y \in Actors : First(line, y) /\ y # x => First(q, y)
  BY Leaving DEF LockInv
<1>2. /\ Ordered(line)' <=> Ordered(q)
      /\ \A y \in Actors : First(line, y)' <=> First(q, y)
      /\ \A y \in Actors : InLine(line, y)' <=> InLine(q, y)
  BY DEF Ordered, First, InLine
<1> HIDE DEF q
<1> QED BY <1>1, <1>2 DEF LockInv

-----------------------------------------------------------------------------
(* Tasks and handlers, one at a time.                                      *)
LEMMA Apart == ASSUME AlertAssumption PROVE Waiters \cap Tasks = {} /\ NoTask \notin Tasks
BY DEF AlertAssumption

\* One task moves, for the same alert.
TaskMoves(t) ==
  /\ tk' \in [Tasks -> TaskState]
  /\ tk'[t].alert = tk[t].alert
  /\ \A u \in Tasks \ {t} : tk'[u] = tk[u]

\* It stays what it is but for the place in its program.
Steps(t, pc) ==
  /\ TaskMoves(t) /\ tk'[t].pc = pc
  /\ tk'[t].channel = tk[t].channel /\ tk'[t].cycle = tk[t].cycle

\* It sends what memory does not know of.
Sends(t) ==
  /\ TaskMoves(t) /\ tk'[t].pc = "send" /\ tk'[t].cycle = mem.since
  /\ <<tk[t].alert, tk'[t].channel>> \notin mem.sent

LEMMA GoesDoes ==
  ASSUME AlertTypeOK, NEW t \in Tasks, Goes(t, "accepted") \/ Goes(t, "mark") \/ Goes(t, "save")
                                       \/ Goes(t, "ended")
  PROVE  /\ Goes(t, "accepted") => Steps(t, "accepted")
         /\ Goes(t, "mark") => Steps(t, "mark")
         /\ Goes(t, "save") => Steps(t, "save")
         /\ Goes(t, "ended") => Steps(t, "ended")
<1>1. tk \in [Tasks -> TaskState]
  BY DEF AlertTypeOK
<1>2. ASSUME NEW pc \in {"accepted", "mark", "save", "ended"}, Goes(t, pc)
      PROVE  Steps(t, pc)
  <2> DEFINE x == [tk[t] EXCEPT !.pc = pc]
  <2>1. tk' = [tk EXCEPT ![t] = x]
    BY <1>2 DEF Goes
  <2>2. x \in TaskState /\ x.alert = tk[t].alert /\ x.pc = pc /\ x.channel = tk[t].channel
        /\ x.cycle = tk[t].cycle
    BY <1>1 DEF TaskState
  <2> HIDE DEF x
  <2> QED BY <1>1, <2>1, <2>2 DEF Steps, TaskMoves
<1> QED BY <1>2

LEMMA SendOnDoes ==
  ASSUME AlertTypeOK, NEW t \in Tasks, NEW c \in ToSend(t, mem), SendOn(t, c)
  PROVE  Sends(t)
<1>1. tk \in [Tasks -> TaskState] /\ mem.since \in Nat /\ c \in Channels
  BY DEF AlertTypeOK, State, ToSend
<1> DEFINE x == [tk[t] EXCEPT !.pc = "send", !.channel = c, !.cycle = mem.since]
<1>2. tk' = [tk EXCEPT ![t] = x]
  BY DEF SendOn
<1>3. x \in TaskState /\ x.alert = tk[t].alert /\ x.pc = "send" /\ x.channel = c
      /\ x.cycle = mem.since
  BY <1>1 DEF TaskState
<1>4. <<tk[t].alert, c>> \notin mem.sent
  BY DEF ToSend
<1> HIDE DEF x
<1> QED BY <1>1, <1>2, <1>3, <1>4 DEF Sends, TaskMoves

\* After a channel: the next one, another attempt, or the end.
Continues(t) ==
  /\ Steps(t, "ended") \/ Steps(t, "sleep") \/ Sends(t)
  /\ excused \subseteq excused' /\ excused' \subseteq Alerts

LEMMA AfterChannelDoes ==
  ASSUME AlertTypeOK, NEW t \in Tasks, ~Ended(t), AfterChannel(t, mem)
  PROVE  Continues(t)
<1>1. tk \in [Tasks -> TaskState] /\ excused \subseteq Alerts /\ tk[t].alert \in Alerts
      /\ clock \in Nat
  BY DEF AlertTypeOK
<1>2. CASE "iphone" \in ToSend(t, mem) /\ SendOn(t, "iphone") /\ UNCHANGED excused
  BY <1>1, <1>2, SendOnDoes DEF Continues
<1>3. CASE EndAttempt(t, mem)
  <2>1. CASE Goes(t, "ended") /\ (excused' = excused \/ excused' = excused \cup {tk[t].alert})
    BY <1>1, <2>1, GoesDoes DEF Continues
  <2>2. CASE /\ tk' = [tk EXCEPT ![t] = [@ EXCEPT !.pc = "sleep", !.due = clock,
                                                  !.tries = tk[t].tries + 1]]
             /\ UNCHANGED excused
    <3> DEFINE x == [tk[t] EXCEPT !.pc = "sleep", !.due = clock, !.tries = tk[t].tries + 1]
    <3>1. tk' = [tk EXCEPT ![t] = x]
      BY <2>2
    <3>0. tk[t] \in TaskState /\ tk[t].tries + 1 \in Nat
      BY <1>1 DEF TaskState
    <3>2. x \in TaskState /\ x.alert = tk[t].alert /\ x.pc = "sleep"
          /\ x.channel = tk[t].channel /\ x.cycle = tk[t].cycle
      BY <1>1, <3>0 DEF TaskState
    <3> HIDE DEF x
    <3> QED BY <1>1, <2>2, <3>1, <3>2 DEF Steps, TaskMoves, Continues
  <2> QED BY <1>3, <2>1, <2>2 DEF EndAttempt
<1> QED BY <1>2, <1>3 DEF AfterChannel

\* One handler moves.
HandlerMoves(h) ==
  /\ hd' \in [Waiters -> HandlerState]
  /\ \A g \in Waiters \ {h} : hd'[g] = hd[g]

LEMMA EndsDoes ==
  ASSUME AlertTypeOK, NEW h \in Waiters, Ends(h)
  PROVE  HandlerMoves(h) /\ hd'[h].pc = "idle" /\ hd'[h].kind = "none"
<1>1. Idle \in HandlerState /\ Idle.pc = "idle" /\ Idle.kind = "none"
  BY DEF Idle, Request, Blank, HandlerState, State
<1> QED BY <1>1 DEF AlertTypeOK, Ends, Moves, HandlerMoves

LEMMA ToDoes ==
  ASSUME AlertTypeOK, NEW h \in Waiters,
         NEW pc \in {"helper", "save", "accepted", "mark", "marked"}, To(h, pc)
  PROVE  /\ HandlerMoves(h) /\ hd'[h].pc = pc /\ hd'[h].kind = hd[h].kind
         /\ hd'[h].alert = hd[h].alert /\ hd'[h].since = hd[h].since
         /\ hd'[h].want = hd[h].want
<1> DEFINE x == [hd[h] EXCEPT !.pc = pc]
<1>1. hd' = [hd EXCEPT ![h] = x] /\ hd \in [Waiters -> HandlerState]
  BY DEF AlertTypeOK, To, Moves
<1>2. x \in HandlerState /\ x.pc = pc /\ x.kind = hd[h].kind
      /\ x.alert = hd[h].alert /\ x.since = hd[h].since /\ x.want = hd[h].want
  BY <1>1 DEF HandlerState
<1> HIDE DEF x
<1> QED BY <1>1, <1>2 DEF HandlerMoves

-----------------------------------------------------------------------------
(* New timers for old.                                                     *)
Busy == {t \in Tasks : ~Ended(t)}
Renewed(need, m, queue) ==
  /\ tasks' \in [Alerts -> Tasks \cup {NoTask}] /\ tk' \in [Tasks -> TaskState]
  /\ \A t \in Tasks : ~Ended(t)' =>
       /\ tk'[t].pc = "sleep" /\ tk'[t].cycle = m.since
       /\ tk'[t].alert \in need /\ tasks'[tk'[t].alert] = t
  /\ line' = Leave(queue, Busy)
  /\ orphans' \subseteq State /\ orphans \subseteq orphans'
  /\ (\E t \in Tasks : tk[t].pc = "save") => orphans' # {}
  /\ lost \subseteq lost' /\ lost' \subseteq Alerts \X Channels \X Nat
  /\ \A t \in Tasks : Owed(t) => Triple(t) \in lost'

LEMMA SpreadDoes ==
  ASSUME NEW S, NEW T, Injections(S, T) # {}
  PROVE  /\ Spread(S, T) \in [S -> T]
         /\ \A x, y \in S : Spread(S, T)[x] = Spread(S, T)[y] => x = y
<1>1. Spread(S, T) \in Injections(S, T)
  BY DEF Spread
<1> QED BY <1>1 DEF Injections

LEMMA NewTaskDoes ==
  ASSUME AlertAssumption, AlertTypeOK, NEW a \in Alerts, NEW m \in State
  PROVE  /\ NewTask(a, m) \in TaskState
         /\ NewTask(a, m).pc = "sleep" /\ NewTask(a, m).alert = a
         /\ NewTask(a, m).cycle = m.since
<1>1. m.since \in Nat /\ m.since + Delay[a] \in Nat /\ clock \in Nat
  BY DEF AlertAssumption, AlertTypeOK, State
<1> DEFINE due == IF m.since + Delay[a] > clock THEN m.since + Delay[a] ELSE clock
<1>2. due \in Nat
  BY <1>1
<1>3. NewTask(a, m) = [Free EXCEPT !.pc = "sleep", !.alert = a, !.cycle = m.since, !.due = due]
  BY DEF NewTask
<1> HIDE DEF due
<1>4. NewTask(a, m) = [pc |-> "sleep", alert |-> a, due |-> due, cycle |-> m.since,
                       channel |-> "telegram", tries |-> 0]
  BY <1>3 DEF Free
<1> QED BY <1>1, <1>2, <1>4 DEF TaskState, Channels

LEMMA RenewDoes ==
  ASSUME AlertAssumption, AlertTypeOK, NoStrayTask,
         NEW need \in SUBSET Alerts, NEW m \in State, NEW queue, Renew(need, m, queue)
  PROVE  Renewed(need, m, queue)
<1> DEFINE spare == {t \in Tasks : tk[t].pc = "free"}
           gone == {t \in LiveTasks : ~Ended(t)}
           new == Spread(need, spare)
<1>1. /\ Injections(need, spare) # {}
      /\ tasks' = [a \in Alerts |-> IF a \in need THEN new[a] ELSE NoTask]
      /\ tk' = [t \in Tasks |->
                  IF \E a \in need : new[a] = t
                  THEN NewTask(CHOOSE a \in need : new[a] = t, m)
                  ELSE IF t \in gone THEN [tk[t] EXCEPT !.pc = "ended"] ELSE tk[t]]
      /\ line' = Leave(queue, gone)
      /\ orphans' = orphans \cup {mem : t \in {u \in gone : tk[u].pc = "save"}}
      /\ lost' = lost \cup {Triple(t) : t \in {u \in gone : tk[u].pc \in {"accepted", "mark"}}}
  BY DEF Renew
<1>2. gone = Busy
  <2>1. ASSUME NEW t \in Tasks, ~Ended(t) PROVE t \in LiveTasks
    BY <2>1 DEF NoStrayTask, AlertTypeOK, LiveTasks, AlertAssumption
  <2>2. LiveTasks \subseteq Tasks
    BY DEF AlertTypeOK, LiveTasks
  <2> QED BY <2>1, <2>2 DEF Busy
<1>3. new \in [need -> spare] /\ \A x, y \in need : new[x] = new[y] => x = y
  BY <1>1, SpreadDoes
<1>4. tk \in [Tasks -> TaskState] /\ mem \in State /\ orphans \subseteq State
      /\ lost \subseteq Alerts \X Channels \X Nat
  BY DEF AlertTypeOK
<1>5. \A t \in Busy : tk[t].alert \in Alerts
  BY DEF AlertTypeOK, Busy
<1> HIDE DEF spare, gone, new
<1>6. \A t \in Busy : Triple(t) \in Alerts \X Channels \X Nat
  BY <1>4, <1>5 DEF Triple, TaskState, Busy
<1>7. tasks' \in [Alerts -> Tasks \cup {NoTask}]
  BY <1>1, <1>3 DEF spare
<1>8. ASSUME NEW t \in Tasks
      PROVE  /\ tk'[t] \in TaskState
             /\ ~Ended(t)' => /\ tk'[t].pc = "sleep" /\ tk'[t].cycle = m.since
                              /\ tk'[t].alert \in need /\ tasks'[tk'[t].alert] = t
  <2>1. CASE \E a \in need : new[a] = t
    <3>1. PICK a \in need : new[a] = t
      BY <2>1
    <3>2. (CHOOSE b \in need : new[b] = t) = a
      BY <1>3, <3>1
    <3>3. tk'[t] = NewTask(a, m)
      BY <1>1, <2>1, <3>2
    <3>4. tasks'[a] = t
      BY <1>1, <3>1
    <3> QED BY <3>3, <3>4, NewTaskDoes
  <2>2. CASE t \in gone /\ ~ \E a \in need : new[a] = t
    <3>1. tk'[t] = [tk[t] EXCEPT !.pc = "ended"]
      BY <1>1, <2>2
    <3>2. tk'[t] \in TaskState /\ tk'[t].pc = "ended"
      BY <1>4, <3>1 DEF TaskState
    <3> QED BY <3>2 DEF Ended
  <2>3. CASE t \notin gone /\ ~ \E a \in need : new[a] = t
    <3>1. tk'[t] = tk[t]
      BY <1>1, <2>3
    <3>2. Ended(t)
      BY <1>2, <2>3 DEF Busy
    <3> QED BY <1>4, <3>1, <3>2 DEF Ended
  <2> QED BY <2>1, <2>2, <2>3
<1>9. tk' \in [Tasks -> TaskState]
  BY <1>1, <1>8
<1>10. orphans' \subseteq State /\ orphans \subseteq orphans'
       /\ ((\E t \in Tasks : tk[t].pc = "save") => orphans' # {})
  BY <1>1, <1>2, <1>4 DEF Busy, Ended
<1>11. lost \subseteq lost' /\ lost' \subseteq Alerts \X Channels \X Nat
       /\ \A t \in Tasks : Owed(t) => Triple(t) \in lost'
  BY <1>1, <1>2, <1>4, <1>6 DEF Busy, Ended, Owed
<1> QED BY <1>1, <1>2, <1>7, <1>8, <1>9, <1>10, <1>11 DEF Renewed

\* What renewing leaves of the invariant: the lock with whoever is still in it,
\* and timers of the cycle in memory alone.
LEMMA RenewedTasks ==
  ASSUME AlertTypeOK, TaskInv, NEW need, NEW m, NEW queue, Renewed(need, m, queue),
         told' = told, mem'.since = mem.since, mem'.sent = mem.sent,
         need = {} \/ m.since = mem.since
  PROVE  TaskInv'
<1>1. \A t \in Tasks : ~Ended(t)' => /\ tk'[t].pc = "sleep" /\ tk'[t].cycle = m.since
                                     /\ tk'[t].alert \in need /\ tasks'[tk'[t].alert] = t
  BY DEF Renewed
<1>2. NoStrayTask'
  BY <1>1 DEF NoStrayTask, Ended
<1>3. \A t \in Tasks : Current(t)'
  BY <1>1 DEF Current, Ended
<1>4. \A t \in Tasks : Reported(t)'
  BY <1>1 DEF Reported, Owed, Ended
<1>5. Remembered'
  <2>1. ASSUME NEW x \in told PROVE x \in lost' \/ Noted(x)'
    BY <2>1 DEF TaskInv, Remembered, Renewed, Noted
  <2> QED BY <2>1 DEF Remembered
<1> QED BY <1>2, <1>3, <1>4, <1>5 DEF TaskInv

LEMMA RenewedLock ==
  ASSUME AlertAssumption, NEW need, NEW m, NEW queue, Renewed(need, m, queue), Ordered(queue),
         \A t \in Tasks : InLine(queue, t) => ~Ended(t),
         \A h \in Waiters : (InLine(queue, h) <=> Queued(h)') /\ (Writes(h)' => First(queue, h))
  PROVE  LockInv'
<1> DEFINE q == Leave(queue, Busy)
<1>1. /\ Ordered(q)
      /\ \A y \in Actors : InLine(q, y) <=> InLine(queue, y) /\ y \notin Busy
      /\ \A y \in Actors : First(queue, y) /\ y \notin Busy => First(q, y)
  BY Leaving
<1>2. /\ Ordered(line)' <=> Ordered(q)
      /\ \A y \in Actors : First(line, y)' <=> First(q, y)
      /\ \A y \in Actors : InLine(line, y)' <=> InLine(q, y)
  BY DEF Renewed, Ordered, First, InLine
<1> HIDE DEF q
<1>3. \A t \in Tasks : ~Queued(t)' /\ ~Writes(t)'
  BY Apart DEF Renewed, Queued, Writes, Ended
<1>4. \A h \in Waiters : h \notin Busy
  BY Apart DEF Busy
<1>5. Actors = Waiters \cup Tasks
  BY DEF Actors
<1>6. ASSUME NEW x \in Actors
      PROVE  (InLine(line, x)' <=> Queued(x)') /\ (Writes(x)' => First(line, x)')
  <2>1. CASE x \in Tasks
    BY <1>1, <1>2, <1>3, <2>1 DEF Busy
  <2>2. CASE x \in Waiters
    BY <1>1, <1>2, <1>4, <2>2
  <2> QED BY <1>5, <2>1, <2>2
<1> QED BY <1>1, <1>2, <1>6 DEF LockInv

-----------------------------------------------------------------------------
(* The steps of a task.                                                    *)
LEMMA TriplesTyped ==
  ASSUME AlertTypeOK, NEW t \in Tasks, ~Ended(t)
  PROVE  Triple(t) \in Alerts \X Channels \X Nat
BY DEF AlertTypeOK, TaskState, Triple

LEMMA OneTask ==
  ASSUME AlertTypeOK, TaskInv, NEW t \in Tasks, ~Ended(t), TaskMoves(t),
         UNCHANGED <<tasks, hd>>, mem'.on = mem.on, mem'.since = mem.since, mem.sent \subseteq mem'.sent,
         excused \subseteq excused', lost \subseteq lost', told \subseteq told',
         told' \subseteq told \cup {Triple(t)},
         tk'[t].cycle \in {tk[t].cycle, mem.since},
         Owed(t)' => Triple(t)' \in told',
         tk'[t].pc = "send" => Sends(t) /\ mem' = mem /\ told' = told,
         Owed(t) \/ Triple(t) \notin told =>
           \/ Triple(t) \in lost' \/ Triple(t) \notin told'
           \/ tk[t].cycle = mem.since /\ <<tk[t].alert, tk[t].channel>> \in mem'.sent
           \/ Owed(t)' /\ Triple(t)' = Triple(t)
  PROVE  TaskInv'
<1>1. \A u \in Tasks \ {t} : tk'[u] = tk[u] /\ (Ended(u)' <=> Ended(u)) /\ (Owed(u)' <=> Owed(u))
                             /\ Triple(u)' = Triple(u)
  BY DEF TaskMoves, Ended, Owed, Triple
<1>2. NoStrayTask'
  BY <1>1 DEF TaskInv, NoStrayTask, TaskMoves
<1>3. \A u \in Tasks : ~Ended(u) /\ tk[u].alert = tk[t].alert => u = t
  BY DEF TaskInv, NoStrayTask
<1>4. ASSUME NEW u \in Tasks PROVE Current(u)'
  <2>1. Adopting' <=> Adopting
    BY DEF Adopting
  <2>2. Current(u)
    BY DEF TaskInv
  <2>3. CASE u = t
    BY <2>1, <2>2, <2>3 DEF Current, TaskMoves
  <2>4. CASE u # t
    BY <1>1, <2>1, <2>2, <2>4 DEF Current
  <2> QED BY <2>3, <2>4
<1>5. ASSUME NEW x \in told'
      PROVE  x \in lost' \/ Noted(x)' \/ \E u \in Tasks : Owed(u)' /\ Triple(u)' = x
  <2>1. CASE x = Triple(t) /\ (Owed(t) \/ Triple(t) \notin told)
    <3>1. x = <<tk[t].alert, tk[t].channel, tk[t].cycle>>
      BY <2>1 DEF Triple
    <3>2. tk[t].cycle = mem.since /\ <<tk[t].alert, tk[t].channel>> \in mem'.sent => Noted(x)'
      BY <3>1 DEF Noted
    <3> QED BY <1>5, <2>1, <3>2
  <2>2. CASE x # Triple(t) \/ (~Owed(t) /\ Triple(t) \in told)
    <3>1. x \in told
      BY <1>5, <2>2
    <3>2. x \in lost \/ Noted(x) \/ \E u \in Tasks : Owed(u) /\ Triple(u) = x
      BY <3>1 DEF TaskInv, Remembered
    <3>3. Noted(x) => Noted(x)'
      BY DEF Noted
    <3>4. \A u \in Tasks : Owed(u) /\ Triple(u) = x => u # t
      BY <2>2
    <3> QED BY <1>1, <3>2, <3>3, <3>4
  <2> QED BY <2>1, <2>2
<1>6. ASSUME NEW u \in Tasks \ {t} PROVE Reported(u)'
  <2>1. Reported(u)
    BY DEF TaskInv
  <2>2. tk[u].pc = "send" => Triple(u) # Triple(t)
    BY <1>3 DEF Ended, Triple
  <2> QED BY <1>1, <2>1, <2>2 DEF Reported
<1>7. Reported(t)'
  <2>1. ASSUME tk'[t].pc = "send", NEW x \in told', x = Triple(t)' PROVE x \in lost'
    <3>1. ~Noted(x)'
      BY <2>1 DEF Sends, Noted, Triple, TaskMoves
    <3>2. \A u \in Tasks : Owed(u)' => Triple(u)' # x
      BY <1>1, <1>3, <2>1 DEF Owed, Ended, Triple, TaskMoves
    <3> QED BY <1>5, <3>1, <3>2
  <2> QED BY <2>1 DEF Reported
<1> QED BY <1>2, <1>4, <1>5, <1>6, <1>7 DEF TaskInv, Remembered

\* Nobody else sees a task move but through the lock and the file.
LEMMA OthersStay ==
  ASSUME AlertAssumption, NEW t \in Tasks, TaskMoves(t), hd' = hd
  PROVE  /\ \A x \in Actors \ {t} : (Queued(x)' <=> Queued(x)) /\ (Writes(x)' <=> Writes(x))
         /\ t \in Actors /\ Actors = Waiters \cup Tasks
         /\ Queued(t) <=> tk[t].pc \in {"mark", "save"}
         /\ Queued(t)' <=> tk'[t].pc \in {"mark", "save"}
         /\ Writes(t) <=> tk[t].pc = "save"
         /\ Writes(t)' <=> tk'[t].pc = "save"
         /\ \A h \in Waiters : Changing(h)' <=> Changing(h)
BY Apart DEF TaskMoves, Queued, Writes, Actors, Changing

LEMMA HandlersStay ==
  ASSUME HandlerInv, hd' = hd, mem'.on = mem.on, mem'.since = mem.since,
         mem'.sent = mem.sent \/ ~ \E h \in Waiters : hd[h].pc = "save"
  PROVE  HandlerInv'
BY DEF HandlerInv, Asked

\* The types after a task moved: what is left to say is what it wrote.
LEMMA TypesKept ==
  ASSUME AlertTypeOK, LockInv', NEW t \in Tasks, ~Ended(t), TaskMoves(t),
         UNCHANGED <<outside, tasks, hd, orphans>>,
         mem' \in State, disk' \in {disk, mem}, behind' \in BOOLEAN,
         told' \subseteq told \cup {Triple(t)}, lost' \subseteq lost \cup {Triple(t)},
         excused' \subseteq Alerts, UNCHANGED <<timing, clock, edits>>, faults' \in Nat
  PROVE  AlertTypeOK'
<1>1. Triple(t) \in Alerts \X Channels \X Nat
  BY TriplesTyped
<1>2. line' \subseteq Actors \X Actors
  BY DEF LockInv, Ordered
<1>3. \A u \in Tasks : ~Ended(u)' => tk'[u].alert \in Alerts
  BY DEF AlertTypeOK, TaskMoves, Ended
<1> QED BY <1>1, <1>2, <1>3 DEF AlertTypeOK, TaskMoves, outside

\* A step that neither writes nor has written.
LEMMA QuietMove ==
  ASSUME AlertInv, LockInv', TaskInv', NEW t \in Tasks, ~Ended(t), TaskMoves(t),
         tk[t].pc # "save", UNCHANGED <<outside, tasks, hd, mem, disk, orphans, behind>>,
         told' \subseteq told \cup {Triple(t)}, lost' \subseteq lost \cup {Triple(t)},
         excused' \subseteq Alerts, UNCHANGED <<timing, clock, edits>>, faults' \in Nat
  PROVE  AlertInv'
<1>1. AlertTypeOK'
  BY TypesKept DEF AlertInv, AlertTypeOK
<1>2. HandlerInv'
  BY HandlersStay DEF AlertInv
<1>3. Writing => Writing'
  BY DEF Writing, Changing, TaskMoves
<1>4. FileInv'
  BY <1>3 DEF AlertInv, FileInv
<1> QED BY <1>1, <1>2, <1>4 DEF AlertInv

LEMMA DropTaskStep ==
  ASSUME AlertAssumption, AlertInv, NEW t \in Tasks, DropTask(t) PROVE AlertInv'
<1>1. Free \in TaskState /\ Free.pc = "free"
  BY DEF Free, TaskState, Channels
<1>2. /\ tk' \in [Tasks -> TaskState] /\ tk'[t].pc = "free" /\ tk[t].pc = "ended"
      /\ \A u \in Tasks \ {t} : tk'[u] = tk[u]
  BY <1>1 DEF DropTask, AlertInv, AlertTypeOK
<1>3. \A u \in Tasks : ~Ended(u)' => u # t /\ ~Ended(u)
  BY <1>2 DEF Ended
<1>4. tasks' \in [Alerts -> Tasks \cup {NoTask}]
  BY DEF DropTask, AlertInv, AlertTypeOK
<1>5. AlertTypeOK'
  BY <1>2, <1>3, <1>4 DEF AlertInv, AlertTypeOK, DropTask, outside, file, rest, Ended
<1>6. LockInv'
  <2>1. \A x \in Actors : (Queued(x)' <=> Queued(x)) /\ (Writes(x)' <=> Writes(x))
    BY <1>2 DEF Queued, Writes, DropTask
  <2> QED BY <2>1, LockStays DEF DropTask, file, AlertInv
<1>7. NoStrayTask'
  <2>1. ASSUME NEW u \in Tasks, ~Ended(u)' PROVE tasks'[tk'[u].alert] = u
    <3>1. tk'[u] = tk[u] /\ tk[u].alert \in Alerts /\ tasks[tk[u].alert] = u /\ u # t
      BY <1>2, <1>3, <2>1 DEF AlertInv, AlertTypeOK, TaskInv, NoStrayTask
    <3> QED BY <3>1 DEF DropTask
  <2> QED BY <2>1 DEF NoStrayTask
<1>8. TaskInv'
  <2>1. ASSUME NEW u \in Tasks PROVE Current(u)' /\ Reported(u)'
    <3>1. Current(u) /\ Reported(u)
      BY DEF AlertInv, TaskInv
    <3>2. CASE u = t
      BY <1>2, <3>2 DEF Current, Reported, Ended, Owed
    <3>3. CASE u # t
      <4>1. tk'[u] = tk[u]
        BY <1>2, <3>3
      <4> QED BY <3>1, <4>1 DEF DropTask, file, Current, Reported, Ended, Owed, Triple, Adopting
    <3> QED BY <3>2, <3>3
  <2>2. ASSUME NEW u \in Tasks, Owed(u) PROVE Owed(u)' /\ Triple(u)' = Triple(u)
    BY <1>2, <2>2 DEF Owed, Triple
  <2>3. Remembered'
    BY <2>2 DEF AlertInv, TaskInv, Remembered, Noted, DropTask, file
  <2> QED BY <1>7, <2>1, <2>3 DEF TaskInv
<1>9. HandlerInv' /\ FileInv'
  <2>1. Writing => Writing'
    BY <1>2 DEF Writing, Changing, DropTask
  <2> QED BY <2>1, HandlersStay DEF AlertInv, DropTask, file, FileInv
<1> QED BY <1>5, <1>6, <1>8, <1>9 DEF AlertInv

LEMMA WakeStep ==
  ASSUME AlertAssumption, AlertInv, NEW t \in Tasks, Wake(t) PROVE AlertInv'
<1>1. /\ tk[t].pc = "sleep" /\ ~Ended(t)
      /\ UNCHANGED <<outside, file, tasks, told, lost, excused, hd, rest>>
  BY DEF Wake, Ended
<1>2. Steps(t, "ended") \/ Sends(t)
  <2>1. CASE Goes(t, "ended")
    BY <2>1, GoesDoes DEF AlertInv
  <2>2. CASE /\ ~Delivered(mem, tk[t].alert)
             /\ SendOn(t, IF "telegram" \in ToSend(t, mem) THEN "telegram" ELSE "iphone")
    <3>1. "telegram" \in ToSend(t, mem) \/ "iphone" \in ToSend(t, mem)
      BY <2>2 DEF Delivered, Effective, ToSend, Channels
    <3> QED BY <2>2, <3>1, SendOnDoes DEF AlertInv
  <2> QED BY <2>1, <2>2 DEF Wake
<1>3. TaskMoves(t) /\ tk'[t].pc \in {"ended", "send"} /\ tk'[t].cycle \in {tk[t].cycle, mem.since}
      /\ (tk'[t].pc = "send" => Sends(t))
  BY <1>2 DEF Steps, Sends
<1>4. LockInv'
  BY <1>1, <1>3, OthersStay, LockStays DEF AlertInv, file
<1>5. TaskInv'
  BY <1>1, <1>3, OneTask DEF AlertInv, file, Owed
<1> QED BY <1>1, <1>3, <1>4, <1>5, QuietMove DEF file, rest, AlertInv, AlertTypeOK

LEMMA AcceptedStep ==
  ASSUME AlertAssumption, AlertInv, NEW t \in Tasks, Accepted(t) PROVE AlertInv'
<1>1. /\ tk[t].pc = "send" /\ ~Ended(t) /\ told' = told \cup {Triple(t)}
      /\ UNCHANGED <<outside, file, tasks, lost, excused, hd, rest>>
  BY DEF Accepted, Ended
<1>2. Steps(t, "accepted")
  BY GoesDoes DEF Accepted, AlertInv
<1>3. TaskMoves(t) /\ tk'[t].pc = "accepted" /\ tk'[t].cycle = tk[t].cycle
      /\ Triple(t)' = Triple(t)
  BY <1>2 DEF Steps, TaskMoves, Triple
<1>4. LockInv'
  BY <1>1, <1>3, OthersStay, LockStays DEF AlertInv, file
<1>5. TaskInv'
  BY <1>1, <1>3, OneTask DEF AlertInv, file, Owed
<1> QED BY <1>1, <1>3, <1>4, <1>5, QuietMove DEF file, rest, AlertInv, AlertTypeOK

LEMMA AnsweredStep ==
  ASSUME AlertAssumption, AlertInv, NEW t \in Tasks, Answered(t) PROVE AlertInv'
<1>1. /\ tk[t].pc = "accepted" /\ ~Ended(t) /\ line' = Join(line, t)
      /\ UNCHANGED <<outside, mem, disk, orphans, behind, tasks, told, lost, excused, hd, rest>>
  BY DEF Answered, Ended
<1>2. Steps(t, "mark")
  BY GoesDoes DEF Answered, AlertInv
<1>3. TaskMoves(t) /\ tk'[t].pc = "mark" /\ tk'[t].cycle = tk[t].cycle
      /\ Triple(t)' = Triple(t)
  BY <1>2 DEF Steps, TaskMoves, Triple
<1>4. LockInv'
  BY <1>1, <1>3, OthersStay, LockJoined DEF AlertInv
<1>5. Triple(t) \in told
  BY <1>1 DEF AlertInv, TaskInv, Reported, Owed
<1>6. TaskInv'
  BY <1>1, <1>3, <1>5, OneTask DEF AlertInv, Owed
<1> QED BY <1>1, <1>3, <1>4, <1>6, QuietMove DEF rest, AlertInv, AlertTypeOK

LEMMA SendFailsStep ==
  ASSUME AlertAssumption, AlertInv, NEW t \in Tasks, SendFails(t) PROVE AlertInv'
<1>1. /\ tk[t].pc \in {"send", "accepted"} /\ ~Ended(t) /\ faults' = faults + 1
      /\ lost' = IF tk[t].pc = "accepted" THEN lost \cup {Triple(t)} ELSE lost
      /\ UNCHANGED <<outside, file, tasks, told, hd, timing, clock, edits>>
  BY DEF SendFails, Ended
<1>2. Continues(t)
  BY <1>1, AfterChannelDoes DEF SendFails, AlertInv
<1>3. TaskMoves(t) /\ tk'[t].pc \in {"ended", "sleep", "send"}
      /\ tk'[t].cycle \in {tk[t].cycle, mem.since}
      /\ (tk'[t].pc = "send" => Sends(t)) /\ excused \subseteq excused' /\ excused' \subseteq Alerts
  BY <1>2 DEF Continues, Steps, Sends
<1>4. LockInv'
  BY <1>1, <1>3, OthersStay, LockStays DEF AlertInv, file
<1>5. TaskInv'
  <2>1. Owed(t) \/ Triple(t) \notin told => Triple(t) \in lost' \/ Triple(t) \notin told'
    BY <1>1 DEF Owed
  <2>2. ~Owed(t)'
    BY <1>3 DEF Owed
  <2> QED BY <1>1, <1>3, <2>1, <2>2, OneTask DEF AlertInv, file
<1>6. faults' \in Nat
  BY <1>1 DEF AlertInv, AlertTypeOK
<1>7. lost' \subseteq lost \cup {Triple(t)} /\ told' \subseteq told \cup {Triple(t)}
  BY <1>1
<1> QED BY <1>1, <1>3, <1>4, <1>5, <1>6, <1>7, QuietMove DEF file

\* While a task holds the lock no handler writes.
LEMMA TaskAlone ==
  ASSUME AlertAssumption, LockInv, NEW t \in Tasks, First(line, t)
  PROVE  \A h \in Waiters : hd[h].pc \notin {"save", "marked"}
<1>1. SUFFICES ASSUME NEW h \in Waiters, Writes(h) PROVE FALSE
  BY DEF Writes
<1>2. h \in Actors /\ t \in Actors
  BY DEF Actors
<1>3. First(line, h) /\ Ordered(line)
  BY <1>1, <1>2 DEF LockInv
<1>4. h = t
  BY <1>2, <1>3, OneHolder
<1> QED BY <1>1, <1>4, Apart

LEMMA MarkStep ==
  ASSUME AlertAssumption, AlertInv, NEW t \in Tasks, Mark(t) PROVE AlertInv'
<1>1. /\ tk[t].pc = "mark" /\ ~Ended(t) /\ First(line, t)
      /\ lost' = IF mem.on /\ tk[t].cycle = mem.since THEN lost ELSE lost \cup {Triple(t)}
      /\ UNCHANGED <<outside, disk, orphans, behind, tasks, told, hd, rest>>
  BY DEF Mark, Ended, Holds, First
<1>2. lost \subseteq lost' /\ lost' \subseteq lost \cup {Triple(t)}
  BY <1>1
<1>3. CASE /\ ~mem.on \/ <<tk[t].alert, tk[t].channel>> \in mem.sent
           /\ line' = Leave(line, {t}) /\ AfterChannel(t, mem) /\ UNCHANGED mem
  <2>1. Continues(t)
    BY <1>1, <1>3, AfterChannelDoes DEF AlertInv
  <2>2. TaskMoves(t) /\ tk'[t].pc \in {"ended", "sleep", "send"}
        /\ tk'[t].cycle \in {tk[t].cycle, mem.since}
        /\ (tk'[t].pc = "send" => Sends(t)) /\ excused \subseteq excused' /\ excused' \subseteq Alerts
    BY <2>1 DEF Continues, Steps, Sends
  <2>3. LockInv'
    BY <1>1, <1>3, <2>2, OthersStay, LockLeft DEF AlertInv
  <2>4. \/ Triple(t) \in lost'
        \/ tk[t].cycle = mem.since /\ <<tk[t].alert, tk[t].channel>> \in mem'.sent
    BY <1>1, <1>3
  <2>5. ~Owed(t)'
    BY <2>2 DEF Owed
  <2>6. TaskInv'
    BY <1>1, <1>2, <1>3, <2>2, <2>4, <2>5, OneTask DEF AlertInv
  <2> QED BY <1>1, <1>2, <1>3, <2>2, <2>3, <2>6, QuietMove DEF rest, AlertInv, AlertTypeOK
<1>4. CASE /\ mem.on /\ mem' = Marked(mem, tk[t].alert, tk[t].channel)
           /\ Goes(t, "save") /\ UNCHANGED <<line, excused>>
  <2>1. Steps(t, "save")
    BY <1>4, GoesDoes DEF AlertInv
  <2>2. TaskMoves(t) /\ tk'[t].pc = "save" /\ tk'[t].cycle = tk[t].cycle
    BY <2>1 DEF Steps
  <2>3. LockInv'
    BY <1>1, <1>4, <2>2, OthersStay, LockStays DEF AlertInv, Mark
  <2>4. tk[t].alert \in Alerts /\ tk[t].channel \in Channels /\ mem \in State
    BY <1>1 DEF AlertInv, AlertTypeOK, TaskState
  <2>5. /\ mem' \in State /\ mem'.on = mem.on /\ mem'.since = mem.since
        /\ mem'.sent = mem.sent \cup {<<tk[t].alert, tk[t].channel>>}
    <3> DEFINE sent == mem.sent \cup {<<tk[t].alert, tk[t].channel>>}
    <3>1. sent \in SUBSET (Alerts \X Channels)
      BY <2>4 DEF State
    <3>2. mem' = [mem EXCEPT !.sent = sent]
      BY <1>4 DEF Marked
    <3> HIDE DEF sent
    <3>3. mem' \in State /\ mem'.on = mem.on /\ mem'.since = mem.since /\ mem'.sent = sent
      BY <2>4, <3>1, <3>2 DEF State
    <3> QED BY <3>3 DEF sent
  <2>6. TaskInv'
    BY <1>1, <1>2, <1>4, <2>2, <2>5, OneTask DEF AlertInv, Owed
  <2>7. HandlerInv'
    BY <1>1, <2>5, HandlersStay, TaskAlone DEF AlertInv
  <2>8. AlertTypeOK'
    BY <1>1, <1>2, <1>4, <2>2, <2>3, <2>5, TypesKept DEF AlertInv, AlertTypeOK, rest
  <2>9. FileInv'
    BY <2>2 DEF FileInv, Writing
  <2> QED BY <2>3, <2>6, <2>7, <2>8, <2>9 DEF AlertInv
<1> QED BY <1>3, <1>4 DEF Mark

LEMMA SavedStep ==
  ASSUME AlertAssumption, AlertInv, NEW t \in Tasks, Saved(t) PROVE AlertInv'
<1>1. /\ tk[t].pc = "save" /\ ~Ended(t) /\ disk' = mem /\ line' = Leave(line, {t})
      /\ behind' = FALSE /\ AfterChannel(t, mem)
      /\ UNCHANGED <<outside, mem, orphans, tasks, told, lost, hd, rest>>
  BY DEF Saved, Ended
<1>2. Continues(t)
  BY <1>1, AfterChannelDoes DEF AlertInv
<1>3. TaskMoves(t) /\ tk'[t].pc \in {"ended", "sleep", "send"}
      /\ tk'[t].cycle \in {tk[t].cycle, mem.since}
      /\ (tk'[t].pc = "send" => Sends(t)) /\ excused \subseteq excused' /\ excused' \subseteq Alerts
  BY <1>2 DEF Continues, Steps, Sends
<1>4. LockInv'
  BY <1>1, <1>3, OthersStay, LockLeft DEF AlertInv
<1>5. TaskInv'
  BY <1>1, <1>3, OneTask DEF AlertInv, Owed
<1>6. AlertTypeOK'
  BY <1>1, <1>3, <1>4, TypesKept DEF AlertInv, AlertTypeOK, rest
<1>7. HandlerInv' /\ FileInv'
  BY <1>1, HandlersStay DEF AlertInv, FileInv
<1> QED BY <1>4, <1>5, <1>6, <1>7 DEF AlertInv

LEMMA SaveBreaksStep ==
  ASSUME AlertAssumption, AlertInv, NEW t \in Tasks, SaveBreaks(t) PROVE AlertInv'
<1>1. /\ tk[t].pc = "save" /\ ~Ended(t) /\ line' = Leave(line, {t}) /\ behind' = TRUE
      /\ faults' = faults + 1 /\ excused' = excused \cup {tk[t].alert}
      /\ UNCHANGED <<outside, mem, disk, orphans, tasks, told, lost, hd, timing, clock, edits>>
  BY DEF SaveBreaks, Ended
<1>2. Steps(t, "ended")
  BY GoesDoes DEF SaveBreaks, AlertInv
<1>3. TaskMoves(t) /\ tk'[t].pc = "ended" /\ tk'[t].cycle = tk[t].cycle
  BY <1>2 DEF Steps
<1>4. LockInv'
  BY <1>1, <1>3, OthersStay, LockLeft DEF AlertInv
<1>5. TaskInv'
  BY <1>1, <1>3, OneTask DEF AlertInv, Owed
<1>6. faults' \in Nat /\ excused' \subseteq Alerts
  <2>1. tk[t].alert \in Alerts /\ excused \subseteq Alerts /\ faults \in Nat
    BY <1>1 DEF AlertInv, AlertTypeOK
  <2>2. faults' = faults + 1 /\ excused' = excused \cup {tk[t].alert}
    BY <1>1
  <2>3. faults' \in Nat
    BY <2>1, <2>2
  <2> QED BY <2>1, <2>2, <2>3
<1>7. AlertTypeOK'
  BY <1>1, <1>3, <1>4, <1>6, TypesKept DEF AlertInv, AlertTypeOK
<1>8. HandlerInv' /\ FileInv'
  BY <1>1, HandlersStay DEF AlertInv, FileInv
<1> QED BY <1>4, <1>5, <1>7, <1>8 DEF AlertInv

-----------------------------------------------------------------------------
(* The steps around them.                                                  *)
\* Nothing of what the invariant relates changes.
LEMMA TasksStay ==
  ASSUME TaskInv, UNCHANGED <<tk, tasks>>,
         mem'.on = mem.on, mem'.since = mem.since, mem.sent \subseteq mem'.sent,
         told \subseteq told', told' \subseteq told \cup lost', lost \subseteq lost',
         excused \subseteq excused',
         Adopting => Adopting' \/ (\A t \in Tasks : ~Ended(t) => tk[t].alert \in excused') \/ ~mem.on
  PROVE  TaskInv'
<1>1. NoStrayTask'
  BY DEF TaskInv, NoStrayTask, Ended
<1>2. ASSUME NEW t \in Tasks PROVE Current(t)' /\ Reported(t)'
  <2>1. Current(t) /\ Reported(t)
    BY DEF TaskInv
  <2>2. Current(t)'
    BY <2>1 DEF Current, Ended
  <2>3. Reported(t)'
    BY <2>1 DEF Reported, Owed, Triple
  <2> QED BY <2>2, <2>3
<1>3. ASSUME NEW x \in told'
      PROVE  x \in lost' \/ Noted(x)' \/ \E u \in Tasks : Owed(u)' /\ Triple(u)' = x
  <2>1. CASE x \in told
    <3>1. x \in lost \/ Noted(x) \/ \E u \in Tasks : Owed(u) /\ Triple(u) = x
      BY <2>1 DEF TaskInv, Remembered
    <3>2. Noted(x) => Noted(x)'
      BY DEF Noted
    <3>3. \A u \in Tasks : (Owed(u)' <=> Owed(u)) /\ Triple(u)' = Triple(u)
      BY DEF Owed, Triple
    <3> QED BY <3>1, <3>2, <3>3
  <2> QED BY <1>3, <2>1
<1> QED BY <1>1, <1>2, <1>3 DEF TaskInv, Remembered

LEMMA OrphanStep ==
  ASSUME AlertInv, NEW o \in orphans, OrphanWrites(o) PROVE AlertInv'
<1>1. /\ orphans' = orphans \ {o} /\ disk' = o /\ behind' = (behind \/ o # mem)
      /\ UNCHANGED <<outside, mem, line, alarms, hd, rest>>
  BY DEF OrphanWrites
<1>2. AlertTypeOK'
  BY <1>1 DEF AlertInv, AlertTypeOK, outside, alarms, rest, Ended
<1>3. LockInv'
  BY <1>1, LockStays DEF AlertInv, alarms, Queued, Writes
<1>4. TaskInv'
  BY <1>1, TasksStay DEF AlertInv, alarms, Adopting
<1>5. HandlerInv' /\ FileInv'
  BY <1>1, HandlersStay DEF AlertInv, FileInv
<1> QED BY <1>2, <1>3, <1>4, <1>5 DEF AlertInv

Surroundings ==
  /\ ha \in [on : BOOLEAN, since : Nat] /\ inbox \subseteq {"on", "off"}
  /\ timing \in {"none", "known", "lost"}
  /\ clock \in Nat /\ changes \in Nat /\ edits \in Nat /\ faults \in Nat

LEMMA NothingMoves ==
  ASSUME AlertInv, UNCHANGED <<file, alarms, hd>>, Surroundings' PROVE AlertInv'
<1>1. AlertTypeOK'
  BY DEF AlertInv, AlertTypeOK, file, alarms, Ended, Surroundings
<1>2. LockInv'
  BY LockStays DEF AlertInv, file, alarms, Queued, Writes
<1>3. TaskInv'
  BY TasksStay DEF AlertInv, file, alarms, Adopting
<1>4. HandlerInv' /\ FileInv'
  BY HandlersStay DEF AlertInv, FileInv, file, alarms, Writing, Changing
<1> QED BY <1>1, <1>2, <1>3, <1>4 DEF AlertInv

LEMMA OutsideStep ==
  ASSUME AlertInv, Switch \/ Tick \/ EventLost \/ PolicyLost \/ UNCHANGED vars PROVE AlertInv'
<1>1. UNCHANGED <<file, alarms, hd>>
  BY DEF Switch, Tick, EventLost, PolicyLost, vars
<1>2. Surroundings'
  <2>0. ha \in [on : BOOLEAN, since : Nat] /\ inbox \subseteq {"on", "off"}
        /\ timing \in {"none", "known", "lost"} /\ clock \in Nat /\ changes \in Nat
        /\ edits \in Nat /\ faults \in Nat
    BY DEF AlertInv, AlertTypeOK
  <2>1. CASE Switch
    <3>1. inbox' \subseteq {"on", "off"} /\ UNCHANGED rest /\ changes' = changes + 1
      BY <2>0, <2>1 DEF Switch
    <3>2. ha' \in [on : BOOLEAN, since : Nat]
      <4>1. ha' = [on |-> TRUE, since |-> clock] \/ ha' = [ha EXCEPT !.on = FALSE]
        BY <2>1 DEF Switch
      <4>2. [ha EXCEPT !.on = FALSE] \in [on : BOOLEAN, since : Nat]
        BY <2>0
      <4>3. [on |-> TRUE, since |-> clock] \in [on : BOOLEAN, since : Nat]
        BY <2>0
      <4> QED BY <4>1, <4>2, <4>3
    <3> QED BY <2>0, <3>1, <3>2 DEF rest, Surroundings
  <2>2. CASE Tick
    BY <2>0, <2>2 DEF Tick, outside, Surroundings
  <2>3. CASE EventLost
    <3>1. inbox' \subseteq inbox /\ faults' = faults + 1
          /\ UNCHANGED <<ha, changes, timing, clock, edits>>
      BY <2>3 DEF EventLost
    <3> QED BY <2>0, <3>1 DEF Surroundings
  <2>4. CASE PolicyLost \/ UNCHANGED vars
    <3>1. /\ UNCHANGED <<outside, clock, edits>> /\ faults' \in {faults, faults + 1}
          /\ timing' \in {timing, "lost"}
      BY <2>4 DEF PolicyLost, vars, rest
    <3> QED BY <2>0, <3>1 DEF outside, Surroundings
  <2> QED BY <2>1, <2>2, <2>3, <2>4
<1> QED BY <1>1, <1>2, NothingMoves

-----------------------------------------------------------------------------
(* The moves of a handler.                                                 *)
Outdoors == {"idle", "switch", "helper", "send", "accepted"}
HasAlert(h) == hd[h].kind = "legacy" => hd[h].alert \in Alerts

LEMMA InvParts ==
  ASSUME AlertInv
  PROVE  /\ Surroundings /\ mem \in State /\ disk \in State /\ orphans \subseteq State
         /\ behind \in BOOLEAN /\ excused \subseteq Alerts
         /\ tk \in [Tasks -> TaskState] /\ hd \in [Waiters -> HandlerState]
         /\ told \subseteq Alerts \X Channels \X Nat /\ lost \subseteq Alerts \X Channels \X Nat
         /\ \A h \in Waiters : Asked(h) /\ HasAlert(h)
BY DEF AlertInv, AlertTypeOK, Surroundings, HandlerInv, HasAlert

LEMMA OtherHandlers ==
  ASSUME AlertAssumption, NEW h \in Waiters, HandlerMoves(h), tk' = tk
  PROVE  /\ \A x \in Actors \ {h} : (Queued(x)' <=> Queued(x)) /\ (Writes(x)' <=> Writes(x))
         /\ h \in Actors
         /\ Queued(h) <=> hd[h].pc \in {"lock", "mark", "save", "marked"}
         /\ Queued(h)' <=> hd'[h].pc \in {"lock", "mark", "save", "marked"}
         /\ Writes(h) <=> hd[h].pc \in {"save", "marked"}
         /\ Writes(h)' <=> hd'[h].pc \in {"save", "marked"}
         /\ \A g \in Waiters \ {h} : Changing(g)' <=> Changing(g)
BY Apart DEF HandlerMoves, Queued, Writes, Actors, Changing

LEMMA HandlerKeeps ==
  ASSUME AlertInv, NEW h \in Waiters, HandlerMoves(h), Asked(h)',
         mem'.on = mem.on, mem'.since = mem.since, mem'.sent = mem.sent
  PROVE  HandlerInv'
BY DEF AlertInv, HandlerInv, Asked, HandlerMoves

LEMMA HandlerTypes ==
  ASSUME AlertInv, LockInv', NEW h \in Waiters, HandlerMoves(h), HasAlert(h)', Surroundings',
         mem' \in State, disk' \in State, orphans' \subseteq State, behind' \in BOOLEAN,
         UNCHANGED <<tasks, tk>>, excused' \subseteq Alerts,
         told' \subseteq Alerts \X Channels \X Nat, lost' \subseteq Alerts \X Channels \X Nat
  PROVE  AlertTypeOK'
<1>1. line' \subseteq Actors \X Actors
  BY DEF LockInv, Ordered
<1>2. \A g \in Waiters : hd'[g].kind = "legacy" => hd'[g].alert \in Alerts
  BY DEF AlertInv, AlertTypeOK, HandlerMoves, HasAlert
<1>3. \A t \in Tasks : ~Ended(t)' => tk'[t].alert \in Alerts
  BY DEF AlertInv, AlertTypeOK, Ended
<1> QED BY <1>1, <1>2, <1>3 DEF AlertInv, AlertTypeOK, HandlerMoves, Surroundings

\* It does not go near the lock, and what it tells on its own counts as lost.
LEMMA OutdoorMove ==
  ASSUME AlertAssumption, AlertInv, NEW h \in Waiters, HandlerMoves(h),
         UNCHANGED <<file, tasks, tk, excused>>, Surroundings',
         hd[h].pc \in Outdoors, hd'[h].pc \in Outdoors, Asked(h)', HasAlert(h)',
         told \subseteq told', lost \subseteq lost', told' \subseteq told \cup lost',
         lost' \subseteq Alerts \X Channels \X Nat
  PROVE  AlertInv'
<1>1. LockInv'
  BY OtherHandlers, LockStays DEF AlertInv, file, Outdoors
<1>2. Adopting => Adopting'
  BY DEF Adopting, HandlerMoves, Outdoors
<1>3. TaskInv'
  BY <1>2, TasksStay DEF AlertInv, file
<1>4. told' \subseteq Alerts \X Channels \X Nat
  BY InvParts
<1>5. AlertTypeOK'
  BY <1>1, <1>4, InvParts, HandlerTypes DEF file
<1>6. HandlerInv'
  BY HandlerKeeps DEF file
<1>7. Writing => Writing'
  BY DEF Writing, Changing, HandlerMoves, Outdoors
<1>8. FileInv'
  BY <1>7 DEF AlertInv, FileInv, file
<1> QED BY <1>1, <1>3, <1>5, <1>6, <1>8 DEF AlertInv

\* It asks for the lock.
LEMMA JoinMove ==
  ASSUME AlertAssumption, AlertInv, NEW h \in Waiters, HandlerMoves(h),
         line' = Join(line, h), UNCHANGED <<mem, disk, orphans, behind, alarms>>, Surroundings',
         hd[h].pc \in Outdoors, hd'[h].pc \in {"lock", "mark"}, Asked(h)', HasAlert(h)'
  PROVE  AlertInv'
<1>1. LockInv'
  BY OtherHandlers, LockJoined DEF AlertInv, alarms, Outdoors
<1>2. Adopting => Adopting'
  BY DEF Adopting, HandlerMoves, Outdoors
<1>3. TaskInv'
  BY <1>2, TasksStay DEF AlertInv, alarms
<1>4. AlertTypeOK'
  BY <1>1, InvParts, HandlerTypes DEF alarms
<1>5. HandlerInv'
  BY HandlerKeeps
<1>6. Writing => Writing'
  BY DEF Writing, Changing, HandlerMoves, Outdoors, alarms
<1>7. FileInv'
  BY <1>6 DEF AlertInv, FileInv
<1> QED BY <1>1, <1>3, <1>4, <1>5, <1>7 DEF AlertInv

-----------------------------------------------------------------------------
(* Handlers that renew the timers.                                         *)
QueueFits(q) ==
  /\ Ordered(q) /\ \A t \in Tasks : InLine(q, t) => ~Ended(t)
  /\ \A g \in Waiters : (InLine(q, g) <=> Queued(g)') /\ (Writes(g)' => First(q, g))

LEMMA WaitersInLine ==
  ASSUME AlertAssumption, LockInv
  PROVE  /\ Ordered(line) /\ \A t \in Tasks : InLine(line, t) => ~Ended(t)
         /\ \A g \in Waiters : (InLine(line, g) <=> Queued(g)) /\ (Writes(g) => First(line, g))
BY Apart DEF LockInv, Queued, Ended, Actors

LEMMA FitsSame ==
  ASSUME AlertAssumption, LockInv,
         \A g \in Waiters : (Queued(g)' <=> Queued(g)) /\ (Writes(g)' => Writes(g))
  PROVE  QueueFits(line)
BY WaitersInLine DEF QueueFits

LEMMA FitsJoined ==
  ASSUME AlertAssumption, LockInv, NEW h \in Waiters, HandlerMoves(h),
         hd[h].pc \in Outdoors, hd'[h].pc = "lock"
  PROVE  QueueFits(Join(line, h))
<1>1. ~Queued(h) /\ Queued(h)' /\ ~Writes(h)'
  BY Apart DEF Queued, Writes, Outdoors
<1>2. \A g \in Waiters \ {h} : (Queued(g)' <=> Queued(g)) /\ (Writes(g)' <=> Writes(g))
  BY Apart DEF Queued, Writes, HandlerMoves
<1>3. Waiters \subseteq Actors /\ Tasks \subseteq Actors /\ h \notin Tasks
  BY Apart DEF Actors
<1>4. ~InLine(line, h)
  BY <1>1, WaitersInLine
<1>5. /\ Ordered(Join(line, h))
      /\ \A y \in Actors : InLine(Join(line, h), y) <=> InLine(line, y) \/ y = h
      /\ \A y \in Actors : First(line, y) => First(Join(line, h), y)
  BY <1>3, <1>4, Joining, WaitersInLine
<1> QED BY <1>1, <1>2, <1>3, <1>5, WaitersInLine DEF QueueFits

LEMMA FitsLeft ==
  ASSUME AlertAssumption, LockInv, NEW h \in Waiters, HandlerMoves(h),
         hd'[h].pc \in Outdoors
  PROVE  QueueFits(Leave(line, {h}))
<1>1. ~Queued(h)' /\ ~Writes(h)'
  BY Apart DEF Queued, Writes, Outdoors
<1>2. \A g \in Waiters \ {h} : (Queued(g)' <=> Queued(g)) /\ (Writes(g)' <=> Writes(g))
  BY Apart DEF Queued, Writes, HandlerMoves
<1>3. Waiters \subseteq Actors /\ Tasks \subseteq Actors /\ h \notin Tasks
  BY Apart DEF Actors
<1>5. /\ Ordered(Leave(line, {h}))
      /\ \A y \in Actors : InLine(Leave(line, {h}), y) <=> InLine(line, y) /\ y # h
      /\ \A y \in Actors : First(line, y) /\ y # h => First(Leave(line, {h}), y)
  BY Leaving, WaitersInLine
<1> QED BY <1>1, <1>2, <1>3, <1>5, WaitersInLine DEF QueueFits

LEMMA RescheduleDoes ==
  ASSUME AlertAssumption, AlertInv, NEW m \in State, NEW policy, NEW queue,
         Reschedule(m, policy, queue)
  PROVE  excused' \subseteq Alerts /\ \E need \in SUBSET Alerts : Renewed(need, m, queue)
<1> DEFINE need == IF policy = "known" THEN Needed(m) ELSE {}
<1>1. need \in SUBSET Alerts
  BY DEF Needed, Outstanding, State
<1>2. Renew(need, m, queue) /\ excused' \subseteq Alerts
  BY DEF Reschedule
<1> HIDE DEF need
<1>3. Renewed(need, m, queue)
  BY <1>1, <1>2, RenewDoes DEF AlertInv, TaskInv
<1> QED BY <1>1, <1>2, <1>3

LEMMA RenewMove ==
  ASSUME AlertAssumption, AlertInv, NEW need \in SUBSET Alerts, NEW m, NEW queue,
         Renewed(need, m, queue), QueueFits(queue), hd' \in [Waiters -> HandlerState],
         \A h \in Waiters : HasAlert(h)', Surroundings', HandlerInv',
         mem' \in State, disk' \in State, behind' \in BOOLEAN, excused' \subseteq Alerts,
         told' = told, mem'.since = mem.since, mem'.sent = mem.sent,
         need = {} \/ m.since = mem.since,
         \/ disk' = mem'
         \/ /\ UNCHANGED <<mem, disk, behind>>
            /\ \A h \in Waiters : Changing(h) => Changing(h)'
  PROVE  AlertInv'
<1>1. LockInv'
  BY RenewedLock DEF QueueFits
<1>2. TaskInv'
  BY RenewedTasks DEF AlertInv
<1>3. line' \subseteq Actors \X Actors
  BY <1>1 DEF LockInv, Ordered
<1>4. /\ tasks' \in [Alerts -> Tasks \cup {NoTask}] /\ tk' \in [Tasks -> TaskState]
      /\ \A t \in Tasks : ~Ended(t)' => tk'[t].alert \in Alerts
      /\ orphans' \subseteq State /\ orphans \subseteq orphans'
      /\ (\E t \in Tasks : tk[t].pc = "save") => orphans' # {}
      /\ lost' \subseteq Alerts \X Channels \X Nat
  BY DEF Renewed
<1>5. AlertTypeOK'
  BY <1>3, <1>4, InvParts DEF AlertTypeOK, Surroundings, HasAlert
<1>6. FileInv'
  <2>1. CASE disk' = mem'
    BY <2>1 DEF FileInv
  <2>2. CASE /\ UNCHANGED <<mem, disk, behind>>
             /\ \A h \in Waiters : Changing(h) => Changing(h)'
    <3>1. CASE \E h \in Waiters : Changing(h)
      BY <2>2, <3>1 DEF FileInv, Writing
    <3>2. CASE \E t \in Tasks : tk[t].pc = "save"
      BY <1>4, <3>2 DEF FileInv
    <3>3. CASE behind \/ orphans # {} \/ disk = mem
      BY <1>4, <2>2, <3>3 DEF FileInv
    <3> QED BY <3>1, <3>2, <3>3 DEF AlertInv, FileInv, Writing
  <2> QED BY <2>1, <2>2
<1> QED BY <1>1, <1>2, <1>5, <1>6 DEF AlertInv

\* A handler renews the timers and leaves the state alone, on its way to the
\* lock or to its end.
LEMMA RenewAndGo ==
  ASSUME AlertAssumption, AlertInv, NEW h \in Waiters, HandlerMoves(h), hd[h].pc \in Outdoors,
         NEW need \in SUBSET Alerts, NEW queue, Renewed(need, mem, queue),
         \/ queue = Join(line, h) /\ hd'[h].pc = "lock"
         \/ queue = line /\ hd'[h].pc \in Outdoors,
         HasAlert(h)', Asked(h)', Surroundings', UNCHANGED <<mem, disk, behind, told>>,
         excused' \subseteq Alerts
  PROVE  AlertInv'
<1>1. QueueFits(queue)
  <2>1. CASE queue = Join(line, h) /\ hd'[h].pc = "lock"
    BY <2>1, FitsJoined DEF AlertInv
  <2>2. CASE queue = line /\ hd'[h].pc \in Outdoors
    <3>1. \A g \in Waiters : (Queued(g)' <=> Queued(g)) /\ (Writes(g)' => Writes(g))
      BY <2>2, Apart DEF Queued, Writes, HandlerMoves, Outdoors
    <3> QED BY <2>2, <3>1, FitsSame DEF AlertInv
  <2> QED BY <2>1, <2>2
<1>2. HandlerInv'
  BY HandlerKeeps
<1>3. \A g \in Waiters : HasAlert(g)' /\ (Changing(g) => Changing(g)')
  BY InvParts DEF HasAlert, HandlerMoves, Changing, Outdoors
<1>4. hd' \in [Waiters -> HandlerState]
  BY DEF HandlerMoves
<1> QED BY <1>1, <1>2, <1>3, <1>4, RenewMove, InvParts

-----------------------------------------------------------------------------
(* Requests and what they read.                                            *)
LEMMA MovesDoes ==
  ASSUME AlertTypeOK, NEW h \in Waiters, NEW rec \in HandlerState, Moves(h, rec)
  PROVE  HandlerMoves(h) /\ hd'[h] = rec
BY DEF AlertTypeOK, Moves, HandlerMoves

LEMMA StartDoes ==
  ASSUME AlertInv, NEW h, NEW rec \in HandlerState, Start(h, rec)
  PROVE  h \in Waiters /\ hd[h].pc = "idle" /\ HandlerMoves(h) /\ hd'[h] = rec
BY MovesDoes DEF Start, Waiters, AlertInv

LEMMA Requests ==
  ASSUME NEW kind \in {"on", "off", "set", "legacy", "boot"}, NEW pc \in {"switch", "lock"},
         NEW a \in Alerts \cup {"none"}
  PROVE  /\ Request(pc, kind, a) \in HandlerState /\ Request(pc, kind, a).pc = pc
         /\ Request(pc, kind, a).kind = kind /\ Request(pc, kind, a).alert = a
BY DEF Request, Blank, State, HandlerState

LEMMA HearStep ==
  ASSUME AlertAssumption, AlertInv, NEW h \in Handlers, NEW again \in BOOLEAN, Hear(h, again)
  PROVE  AlertInv'
<1>1. PICK s \in inbox :
        /\ inbox' = IF again THEN inbox ELSE inbox \ {s}
        /\ IF s = "on"
           THEN /\ Start(h, Request("switch", "on", "none"))
                /\ UNCHANGED <<file, alarms>>
           ELSE /\ Start(h, Request("lock", "off", "none"))
                /\ Renew({}, mem, Join(line, h))
                /\ UNCHANGED <<mem, disk, behind, told, excused>>
  BY DEF Hear
<1>2. Surroundings'
  <2>1. inbox' \subseteq inbox /\ edits' \in {edits, edits + 1}
        /\ UNCHANGED <<ha, changes, timing, clock, faults>>
    BY <1>1 DEF Hear
  <2> QED BY <2>1, InvParts DEF Surroundings
<1>3. CASE Start(h, Request("switch", "on", "none")) /\ UNCHANGED <<file, alarms>>
  <2>1. h \in Waiters /\ hd[h].pc = "idle" /\ HandlerMoves(h)
        /\ hd'[h].pc = "switch" /\ hd'[h].kind = "on"
    BY <1>3, StartDoes, Requests
  <2> QED BY <1>2, <1>3, <2>1, OutdoorMove, InvParts DEF alarms, Outdoors, Asked, HasAlert
<1>4. CASE /\ Start(h, Request("lock", "off", "none"))
           /\ Renew({}, mem, Join(line, h))
           /\ UNCHANGED <<mem, disk, behind, told, excused>>
  <2>1. h \in Waiters /\ hd[h].pc = "idle" /\ HandlerMoves(h)
        /\ hd'[h].pc = "lock" /\ hd'[h].kind = "off"
    BY <1>4, StartDoes, Requests
  <2>2. Renewed({}, mem, Join(line, h))
    BY <1>4, RenewDoes, InvParts DEF AlertInv, TaskInv
  <2> QED BY <1>2, <1>4, <2>1, <2>2, RenewAndGo, InvParts DEF Outdoors, Asked, HasAlert
<1> QED BY <1>1, <1>3, <1>4

LEMMA ChangeStep ==
  ASSUME AlertAssumption, AlertInv, NEW h \in Handlers, Change(h) PROVE AlertInv'
<1>1. h \in Waiters /\ hd[h].pc = "idle" /\ HandlerMoves(h)
      /\ hd'[h].pc = "lock" /\ hd'[h].kind = "set"
  BY StartDoes, Requests DEF Change
<1>2. Surroundings'
  BY InvParts DEF Surroundings, Change, outside
<1> QED BY <1>1, <1>2, JoinMove DEF Change, Outdoors, Asked, HasAlert

LEMMA AskStep ==
  ASSUME AlertAssumption, AlertInv, NEW h \in Handlers, NEW a \in Alerts, AskForAlert(h, a)
  PROVE  AlertInv'
<1>1. h \in Waiters /\ hd[h].pc = "idle" /\ HandlerMoves(h)
      /\ hd'[h].pc = "switch" /\ hd'[h].kind = "legacy" /\ hd'[h].alert = a
  BY StartDoes, Requests DEF AskForAlert
<1>2. Surroundings'
  BY InvParts DEF Surroundings, AskForAlert, outside
<1> QED BY <1>1, <1>2, OutdoorMove, InvParts DEF AskForAlert, alarms, Outdoors, Asked, HasAlert

LEMMA QueueUpDoes ==
  ASSUME AlertInv, NEW h \in Waiters, NEW since \in Nat, QueueUp(h, since)
  PROVE  /\ HandlerMoves(h) /\ line' = Join(line, h) /\ hd'[h].pc = "lock"
         /\ hd'[h].kind = hd[h].kind /\ hd'[h].alert = hd[h].alert
<1> DEFINE x == [hd[h] EXCEPT !.pc = "lock", !.since = since]
<1>1. Moves(h, x) /\ line' = Join(line, h)
  BY DEF QueueUp
<1>2. hd[h] \in HandlerState
  BY InvParts
<1>3. x \in HandlerState /\ x.pc = "lock" /\ x.kind = hd[h].kind /\ x.alert = hd[h].alert
  BY <1>2 DEF HandlerState
<1> HIDE DEF x
<1>4. HandlerMoves(h) /\ hd'[h] = x
  BY <1>1, <1>3, MovesDoes DEF AlertInv
<1> QED BY <1>1, <1>3, <1>4

LEMMA LegacySendsDoes ==
  ASSUME AlertInv, NEW h \in Waiters, Legacy(h), LegacySends(h, mem)
  PROVE  /\ HandlerMoves(h) /\ hd'[h].pc \in {"idle", "send"}
         /\ Asked(h)' /\ HasAlert(h)'
<1>1. CASE Ends(h)
  BY <1>1, EndsDoes DEF AlertInv, Asked, HasAlert
<1>2. CASE Moves(h, [hd[h] EXCEPT !.pc = "send", !.since = mem.since])
  <2> DEFINE x == [hd[h] EXCEPT !.pc = "send", !.since = mem.since]
  <2>1. hd[h] \in HandlerState /\ mem.since \in Nat /\ hd[h].alert \in Alerts
        /\ hd[h].kind = "legacy"
    BY InvParts DEF Legacy, HasAlert, State
  <2>2. x \in HandlerState /\ x.pc = "send" /\ x.kind = hd[h].kind /\ x.alert = hd[h].alert
    BY <2>1 DEF HandlerState
  <2> HIDE DEF x
  <2>3. HandlerMoves(h) /\ hd'[h] = x
    BY <1>2, <2>2, MovesDoes DEF AlertInv, x
  <2> QED BY <2>1, <2>2, <2>3 DEF Asked, HasAlert
<1> QED BY <1>1, <1>2 DEF LegacySends

LEMMA GoesIdle ==
  ASSUME AlertAssumption, AlertInv, NEW h \in Waiters, hd[h].pc \in Outdoors, Ends(h),
         UNCHANGED <<file, alarms>>, Surroundings'
  PROVE  AlertInv'
<1>1. HandlerMoves(h) /\ hd'[h].pc = "idle" /\ hd'[h].kind = "none"
  BY EndsDoes DEF AlertInv
<1> QED BY <1>1, OutdoorMove, InvParts DEF alarms, Outdoors, Asked, HasAlert

LEMMA UnconfirmedStep ==
  ASSUME AlertAssumption, AlertInv, NEW h \in Waiters, hd[h].pc \in Outdoors, Unconfirmed(h),
         Surroundings'
  PROVE  AlertInv'
<1>1. CASE /\ Reschedule(mem, timing, line) /\ Ends(h) /\ UNCHANGED <<mem, disk, behind, told>>
  <2>1. HandlerMoves(h) /\ hd'[h].pc = "idle" /\ hd'[h].kind = "none"
    BY <1>1, EndsDoes DEF AlertInv
  <2>2. excused' \subseteq Alerts /\ \E need \in SUBSET Alerts : Renewed(need, mem, line)
    BY <1>1, RescheduleDoes, InvParts
  <2> QED BY <1>1, <2>1, <2>2, RenewAndGo DEF Outdoors, Asked, HasAlert
<1>2. CASE Ends(h) /\ UNCHANGED <<file, alarms>>
  BY <1>2, GoesIdle
<1> QED BY <1>1, <1>2 DEF Unconfirmed

LEMMA ClearCycleStep ==
  ASSUME AlertAssumption, AlertInv, NEW h \in Waiters, hd[h].pc \in Outdoors, ClearCycle(h),
         Surroundings'
  PROVE  AlertInv'
<1>1. CASE Ends(h) /\ UNCHANGED <<file, alarms>>
  BY <1>1, GoesIdle
<1>2. CASE /\ Moves(h, [hd[h] EXCEPT !.pc = "lock", !.kind = "off"])
           /\ Renew({}, mem, Join(line, h))
           /\ UNCHANGED <<mem, disk, behind, told, excused>>
  <2> DEFINE x == [hd[h] EXCEPT !.pc = "lock", !.kind = "off"]
  <2>1. hd[h] \in HandlerState
    BY InvParts
  <2>2. x \in HandlerState /\ x.pc = "lock" /\ x.kind = "off"
    BY <2>1 DEF HandlerState
  <2> HIDE DEF x
  <2>3. HandlerMoves(h) /\ hd'[h] = x
    BY <1>2, <2>2, MovesDoes DEF AlertInv, x
  <2>4. Renewed({}, mem, Join(line, h))
    BY <1>2, RenewDoes, InvParts DEF AlertInv, TaskInv
  <2> QED BY <1>2, <2>2, <2>3, <2>4, RenewAndGo, InvParts DEF Asked, HasAlert
<1> QED BY <1>1, <1>2 DEF ClearCycle

LEMMA LegacyAsksStep ==
  ASSUME AlertAssumption, AlertInv, NEW h \in Waiters, hd[h].pc = "switch", LegacyAsks(h),
         Surroundings'
  PROVE  AlertInv'
<1>1. Legacy(h) /\ UNCHANGED alarms
  BY DEF LegacyAsks
<1>2. CASE Ends(h) /\ UNCHANGED file
  BY <1>1, <1>2, GoesIdle DEF Outdoors
<1>3. CASE LegacySends(h, mem) /\ UNCHANGED file
  BY <1>1, <1>3, LegacySendsDoes, OutdoorMove, InvParts DEF Outdoors, alarms
<1>4. CASE QueueUp(h, ha.since) /\ UNCHANGED <<mem, disk, orphans, behind>>
  <2>1. ha.since \in Nat
    BY InvParts DEF Surroundings
  <2>2. /\ HandlerMoves(h) /\ line' = Join(line, h) /\ hd'[h].pc = "lock"
        /\ hd'[h].kind = hd[h].kind /\ hd'[h].alert = hd[h].alert
    BY <1>4, <2>1, QueueUpDoes
  <2>3. Asked(h)' /\ HasAlert(h)'
    BY <2>2, InvParts DEF Asked, HasAlert
  <2> QED BY <1>1, <1>4, <2>2, <2>3, JoinMove DEF Outdoors
<1> QED BY <1>2, <1>3, <1>4 DEF LegacyAsks

LEMMA ReadSwitchStep ==
  ASSUME AlertAssumption, AlertInv, NEW h \in Waiters, ReadSwitch(h) PROVE AlertInv'
<1>1. hd[h].pc = "switch" /\ hd[h].pc \in Outdoors /\ UNCHANGED <<outside, rest>>
  BY DEF ReadSwitch, Outdoors
<1>2. Surroundings'
  BY <1>1, InvParts DEF Surroundings, outside, rest
<1>3. CASE ~Legacy(h) /\ To(h, "helper") /\ UNCHANGED <<file, alarms>>
  <2>1. HandlerMoves(h) /\ hd'[h].pc = "helper" /\ hd'[h].kind = hd[h].kind
    BY <1>3, ToDoes DEF AlertInv
  <2> QED BY <1>1, <1>2, <1>3, <2>1, OutdoorMove, InvParts
          DEF alarms, Outdoors, Asked, HasAlert, Legacy
<1> QED BY <1>1, <1>2, <1>3, UnconfirmedStep, ClearCycleStep, LegacyAsksStep DEF ReadSwitch

LEMMA ReadHelperStep ==
  ASSUME AlertAssumption, AlertInv, NEW h \in Waiters, ReadHelper(h) PROVE AlertInv'
<1>1. hd[h].pc = "helper" /\ hd[h].pc \in Outdoors
      /\ UNCHANGED <<outside, mem, disk, behind, told, rest>>
  BY DEF ReadHelper, Outdoors
<1>2. Surroundings'
  BY <1>1, InvParts DEF Surroundings, outside, rest
<1>3. CASE Reschedule(mem, timing, line) /\ Ends(h)
  <2>1. HandlerMoves(h) /\ hd'[h].pc = "idle" /\ hd'[h].kind = "none"
    BY <1>3, EndsDoes DEF AlertInv
  <2>2. excused' \subseteq Alerts /\ \E need \in SUBSET Alerts : Renewed(need, mem, line)
    BY <1>3, RescheduleDoes, InvParts
  <2> QED BY <1>1, <1>2, <2>1, <2>2, RenewAndGo DEF Outdoors, Asked, HasAlert
<1>4. CASE UNCHANGED <<line, orphans, tasks, tk, lost, excused>> /\ Ends(h)
  BY <1>1, <1>2, <1>4, GoesIdle DEF file, alarms
<1>5. CASE ~Known /\ QueueUp(h, ha.since) /\ UNCHANGED <<orphans, tasks, tk, lost, excused>>
  <2>1. ha.since \in Nat
    BY InvParts DEF Surroundings
  <2>2. /\ HandlerMoves(h) /\ line' = Join(line, h) /\ hd'[h].pc = "lock"
        /\ hd'[h].kind = hd[h].kind /\ hd'[h].alert = hd[h].alert
    BY <1>5, <2>1, QueueUpDoes
  <2>3. Asked(h)' /\ HasAlert(h)'
    BY <2>2, InvParts DEF Asked, HasAlert
  <2> QED BY <1>1, <1>2, <1>5, <2>2, <2>3, JoinMove DEF alarms
<1> QED BY <1>3, <1>4, <1>5 DEF ReadHelper

LEMMA ReadFailsStep ==
  ASSUME AlertAssumption, AlertInv, NEW h \in Waiters, ReadFails(h) PROVE AlertInv'
<1>1. hd[h].pc \in Outdoors
  BY DEF ReadFails, Outdoors
<1>2. Surroundings'
  BY InvParts DEF ReadFails, Surroundings, outside
<1> QED BY <1>1, <1>2, UnconfirmedStep, GoesIdle DEF ReadFails

LEMMA NewPolicyStep ==
  ASSUME AlertAssumption, AlertInv, NewPolicy PROVE AlertInv'
<1>1. UNCHANGED <<outside, mem, disk, behind, told, hd, clock, faults>>
      /\ timing' = "known" /\ edits' = edits + 1
  BY DEF NewPolicy
<1>2. Surroundings'
  BY <1>1, InvParts DEF Surroundings, outside
<1>3. CASE Reschedule(mem, "known", line)
  <2>1. excused' \subseteq Alerts /\ \E need \in SUBSET Alerts : Renewed(need, mem, line)
    BY <1>3, RescheduleDoes, InvParts
  <2>2. QueueFits(line)
    BY <1>1, FitsSame DEF Queued, Writes, AlertInv
  <2>3. HandlerInv'
    BY <1>1, HandlersStay DEF AlertInv
  <2>4. \A h \in Waiters : HasAlert(h)' /\ (Changing(h) => Changing(h)')
    BY <1>1, InvParts DEF HasAlert, Changing
  <2> QED BY <1>1, <1>2, <2>1, <2>2, <2>3, <2>4, RenewMove, InvParts
<1>4. CASE line' = line /\ UNCHANGED <<orphans, tasks, tk, lost, excused>>
  BY <1>1, <1>2, <1>4, NothingMoves DEF file, alarms
<1> QED BY <1>3, <1>4 DEF NewPolicy, RescheduleActive

-----------------------------------------------------------------------------
(* Handlers under the lock.                                                *)
\* While a handler holds the lock nobody else writes.
LEMMA HandlerAlone ==
  ASSUME AlertAssumption, LockInv, NEW h \in Waiters, First(line, h)
  PROVE  /\ \A t \in Tasks : tk[t].pc # "save"
         /\ \A g \in Waiters \ {h} : hd[g].pc \notin {"save", "marked"}
<1>1. ASSUME NEW x \in Actors, Writes(x) PROVE x = h
  BY <1>1, OneHolder DEF LockInv, Actors
<1>2. ASSUME NEW t \in Tasks, tk[t].pc = "save" PROVE FALSE
  BY <1>1, <1>2, Apart DEF Writes, Actors
<1>3. ASSUME NEW g \in Waiters \ {h}, hd[g].pc \in {"save", "marked"} PROVE FALSE
  BY <1>1, <1>3 DEF Writes, Actors
<1> QED BY <1>2, <1>3

\* A new cycle, or the end of one: what was told in it no longer counts.
LEMMA CycleChanges ==
  ASSUME AlertAssumption, AlertInv, NEW h \in Waiters, hd[h].pc = "lock", First(line, h),
         hd[h].kind # "set", mem' \in State, hd[h].kind = "off" => ~mem'.on,
         lost' = lost \cup Forgotten, To(h, "save"),
         UNCHANGED <<outside, disk, line, orphans, behind, tasks, tk, told, excused, rest>>
  PROVE  AlertInv'
<1>1. /\ HandlerMoves(h) /\ hd'[h].pc = "save" /\ hd'[h].kind = hd[h].kind
      /\ hd'[h].alert = hd[h].alert
  BY ToDoes DEF AlertInv
<1>2. Surroundings'
  BY InvParts DEF Surroundings, outside, rest
<1>3. LockInv'
  <2>1. Holds(h)
    BY DEF Holds, First
  <2> QED BY <1>1, <2>1, OtherHandlers, LockStays DEF AlertInv
<1>4. lost' \subseteq Alerts \X Channels \X Nat
  BY InvParts DEF Forgotten
<1>5. AlertTypeOK'
  BY <1>1, <1>2, <1>3, <1>4, InvParts, HandlerTypes DEF HasAlert
<1>6. HandlerInv'
  <2>1. ASSUME NEW g \in Waiters PROVE Asked(g)'
    <3>1. CASE g = h
      BY <1>1, <3>1 DEF Asked
    <3>2. CASE g # h
      BY <1>1, <3>2, HandlerAlone, InvParts DEF Asked, HandlerMoves, AlertInv
    <3> QED BY <3>1, <3>2
  <2> QED BY <2>1 DEF HandlerInv
<1>7. TaskInv'
  <2>1. Adopting'
    BY <1>1 DEF Adopting
  <2>2. NoStrayTask'
    BY DEF AlertInv, TaskInv, NoStrayTask, Ended
  <2>3. \A t \in Tasks : Current(t)' /\ Reported(t)'
    BY <2>1 DEF AlertInv, TaskInv, Current, Reported, Owed, Triple
  <2>4. \A x \in told : Noted(x) => x \in lost'
    BY DEF Noted, Forgotten
  <2>5. \A t \in Tasks : (Owed(t)' <=> Owed(t)) /\ Triple(t)' = Triple(t)
    BY DEF Owed, Triple
  <2>6. Remembered'
    BY <2>4, <2>5 DEF AlertInv, TaskInv, Remembered
  <2> QED BY <2>2, <2>3, <2>6 DEF TaskInv
<1>8. FileInv'
  BY <1>1 DEF FileInv, Writing, Changing
<1> QED BY <1>3, <1>5, <1>6, <1>7, <1>8 DEF AlertInv

LEMMA Candidates ==
  ASSUME AlertInv, NEW m \in Settings
  PROVE  m \in State /\ m.on = mem.on /\ m.since = mem.since /\ m.sent = mem.sent
<1>1. mem \in State
  BY InvParts
<1>2. \/ \E e \in SUBSET Alerts : m = [mem EXCEPT !.enabled = e]
      \/ \E c \in SUBSET (Alerts \X Channels) : m = [mem EXCEPT !.channels = c]
  BY DEF Settings, Channels
<1> QED BY <1>1, <1>2 DEF State

LEMMA EnterStep ==
  ASSUME AlertAssumption, AlertInv, NEW h \in Waiters, Enter(h) PROVE AlertInv'
<1>1. /\ hd[h].pc = "lock" /\ First(line, h)
      /\ UNCHANGED <<outside, disk, line, orphans, behind, tasks, tk, told, excused, rest>>
  BY DEF Enter, Holds, First
<1>0. mem \in State /\ hd[h].since \in Nat
  BY InvParts DEF HandlerState
<1>2. CASE /\ hd[h].kind \in {"on", "boot", "legacy"}
           /\ mem' = TurnedOn(mem, hd[h].since, IF Legacy(h) THEN "switch" ELSE "helper")
           /\ lost' = lost \cup Forgotten /\ To(h, "save")
  <2>1. mem' \in State
    BY <1>0, <1>2 DEF TurnedOn, State
  <2> QED BY <1>1, <1>2, <2>1, CycleChanges
<1>3. CASE /\ hd[h].kind = "off"
           /\ mem' = TurnedOff(mem) /\ lost' = lost \cup Forgotten /\ To(h, "save")
  <2>1. mem' \in State /\ ~mem'.on
    BY <1>0, <1>3 DEF TurnedOff, State
  <2> QED BY <1>1, <1>3, <2>1, CycleChanges
<1>4. CASE /\ hd[h].kind = "set" /\ UNCHANGED lost
           /\ \E m \in Settings \ {mem} : Candidate(h, m)
  <2>1. PICK m \in Settings : Candidate(h, m)
    BY <1>4
  <2>2. m \in State /\ m.on = mem.on /\ m.since = mem.since /\ m.sent = mem.sent
    BY Candidates
  <2> DEFINE x == [hd[h] EXCEPT !.pc = "save", !.want = m]
  <2>3. Moves(h, x) /\ mem' = mem
    BY <2>1 DEF Candidate
  <2>0. hd[h] \in HandlerState /\ hd[h].kind = "set" /\ m \in State
    BY <1>4, <2>2, InvParts
  <2>4. x \in HandlerState /\ x.pc = "save" /\ x.want = m /\ x.kind = "set"
    BY <2>0 DEF HandlerState
  <2> HIDE DEF x
  <2>5. HandlerMoves(h) /\ hd'[h] = x
    BY <2>3, <2>4, MovesDoes DEF AlertInv
  <2>6. Surroundings'
    BY <1>1, InvParts DEF Surroundings, outside, rest
  <2>7. LockInv'
    BY <1>1, <2>4, <2>5, OtherHandlers, LockStays DEF AlertInv, Enter
  <2>8. HandlerInv'
    BY <2>2, <2>3, <2>4, <2>5, HandlerKeeps DEF Asked
  <2>9. AlertTypeOK'
    BY <1>1, <1>4, <2>3, <2>4, <2>5, <2>6, <2>7, InvParts, HandlerTypes DEF HasAlert
  <2>10. Adopting => Adopting'
    BY <1>1, <2>5 DEF Adopting, HandlerMoves
  <2>11. TaskInv'
    BY <1>1, <1>4, <2>3, <2>10, TasksStay DEF AlertInv
  <2>12. Writing => Writing'
    BY <1>1, <2>5 DEF Writing, Changing, HandlerMoves
  <2>13. FileInv'
    BY <1>1, <2>3, <2>12 DEF AlertInv, FileInv
  <2> QED BY <2>7, <2>8, <2>9, <2>11, <2>13 DEF AlertInv
<1> QED BY <1>2, <1>3, <1>4 DEF Enter

\* It gives the lock back; the timers are let be.
LEMMA LeaveMove ==
  ASSUME AlertAssumption, AlertInv, NEW h \in Waiters, HandlerMoves(h),
         line' = Leave(line, {h}), UNCHANGED <<mem, orphans, tasks, tk, told, lost>>,
         Surroundings', hd'[h].pc \in Outdoors, Asked(h)', HasAlert(h)',
         excused \subseteq excused', excused' \subseteq Alerts,
         disk' \in State, behind' \in BOOLEAN,
         disk' = mem \/ behind' \/ (UNCHANGED <<disk, behind>> /\ ~Changing(h)),
         hd[h].pc = "save" /\ hd[h].kind # "set" => ~mem.on \/ excused' = Alerts
  PROVE  AlertInv'
<1>1. LockInv'
  BY OtherHandlers, LockLeft DEF AlertInv, Outdoors
<1>2. Adopting => Adopting' \/ (\A t \in Tasks : ~Ended(t) => tk[t].alert \in excused') \/ ~mem.on
  BY DEF Adopting, HandlerMoves, AlertInv, AlertTypeOK
<1>3. TaskInv'
  BY <1>2, TasksStay DEF AlertInv
<1>4. AlertTypeOK'
  BY <1>1, InvParts, HandlerTypes
<1>5. HandlerInv'
  BY HandlerKeeps
<1>6. Writing /\ ~Changing(h) => Writing'
  BY DEF Writing, Changing, HandlerMoves
<1>7. FileInv'
  BY <1>6 DEF AlertInv, FileInv
<1> QED BY <1>1, <1>3, <1>4, <1>5, <1>7 DEF AlertInv

LEMMA SaveDoneStep ==
  ASSUME AlertAssumption, AlertInv, NEW h \in Waiters, SaveDone(h) PROVE AlertInv'
<1>1. hd[h].pc = "save" /\ behind' = FALSE /\ UNCHANGED <<outside, told, rest>>
  BY DEF SaveDone
<1>2. Surroundings'
  BY <1>1, InvParts DEF Surroundings, outside, rest
<1>3. CASE /\ hd[h].kind \in {"on", "boot"}
           /\ disk' = mem /\ Reschedule(mem, timing, Leave(line, {h})) /\ Ends(h)
           /\ UNCHANGED mem
  <2>1. HandlerMoves(h) /\ hd'[h].pc = "idle" /\ hd'[h].kind = "none"
    BY <1>3, EndsDoes DEF AlertInv
  <2>2. excused' \subseteq Alerts /\ \E need \in SUBSET Alerts : Renewed(need, mem, Leave(line, {h}))
    BY <1>3, RescheduleDoes, InvParts
  <2>3. QueueFits(Leave(line, {h}))
    BY <2>1, FitsLeft DEF AlertInv, Outdoors
  <2>4. HandlerInv'
    BY <1>3, <2>1, HandlerKeeps DEF Asked
  <2>5. \A g \in Waiters : HasAlert(g)'
    BY <2>1, InvParts DEF HasAlert, HandlerMoves
  <2>6. hd' \in [Waiters -> HandlerState]
    BY <2>1 DEF HandlerMoves
  <2> QED BY <1>1, <1>2, <1>3, <2>2, <2>3, <2>4, <2>5, <2>6, RenewMove, InvParts
<1>4. CASE /\ hd[h].kind = "off"
           /\ disk' = mem /\ line' = Leave(line, {h}) /\ Ends(h)
           /\ UNCHANGED <<mem, orphans, tasks, tk, lost, excused>>
  <2>1. HandlerMoves(h) /\ hd'[h].pc = "idle" /\ hd'[h].kind = "none"
    BY <1>4, EndsDoes DEF AlertInv
  <2>2. ~mem.on
    BY <1>1, <1>4, InvParts DEF Asked
  <2> QED BY <1>1, <1>2, <1>4, <2>1, <2>2, LeaveMove, InvParts DEF Outdoors, Asked, HasAlert
<1>5. CASE /\ hd[h].kind = "set"
           /\ disk' = hd[h].want /\ mem' = hd[h].want /\ Ends(h)
           /\ RescheduleActive(hd[h].want, timing, Leave(line, {h}))
  <2>1. HandlerMoves(h) /\ hd'[h].pc = "idle" /\ hd'[h].kind = "none"
    BY <1>5, EndsDoes DEF AlertInv
  <2>2. /\ hd[h].want \in State /\ hd[h].want.on = mem.on
        /\ hd[h].want.since = mem.since /\ hd[h].want.sent = mem.sent
    BY <1>1, <1>5, InvParts DEF Asked, HandlerState
  <2>3. HandlerInv'
    BY <1>5, <2>1, <2>2, HandlerKeeps DEF Asked
  <2>4. CASE Reschedule(hd[h].want, timing, Leave(line, {h}))
    <3>1. excused' \subseteq Alerts
          /\ \E need \in SUBSET Alerts : Renewed(need, hd[h].want, Leave(line, {h}))
      BY <2>2, <2>4, RescheduleDoes
    <3>2. QueueFits(Leave(line, {h}))
      BY <2>1, FitsLeft DEF AlertInv, Outdoors
    <3>3. \A g \in Waiters : HasAlert(g)'
      BY <2>1, InvParts DEF HasAlert, HandlerMoves
    <3>4. hd' \in [Waiters -> HandlerState]
      BY <2>1 DEF HandlerMoves
    <3> QED BY <1>1, <1>2, <1>5, <2>2, <2>3, <3>1, <3>2, <3>3, <3>4, RenewMove
  <2>5. CASE line' = Leave(line, {h}) /\ UNCHANGED <<orphans, tasks, tk, lost, excused>>
    <3>1. LockInv'
      BY <2>1, <2>5, OtherHandlers, LockLeft DEF AlertInv, Outdoors
    <3>2. AlertTypeOK'
      BY <1>1, <1>2, <1>5, <2>1, <2>2, <2>5, <3>1, InvParts, HandlerTypes DEF HasAlert
    <3>3. Adopting => Adopting'
      BY <1>5, <2>1 DEF Adopting, HandlerMoves
    <3>4. TaskInv'
      BY <1>1, <1>5, <2>2, <2>5, <3>3, TasksStay DEF AlertInv
    <3> QED BY <1>5, <2>3, <3>1, <3>2, <3>4 DEF AlertInv, FileInv
  <2> QED BY <1>5, <2>4, <2>5 DEF RescheduleActive
<1>6. CASE /\ hd[h].kind = "legacy"
           /\ disk' = mem /\ line' = Leave(line, {h})
           /\ LegacySends(h, mem) /\ excused' = Alerts
           /\ UNCHANGED <<mem, orphans, tasks, tk, lost>>
  <2>1. /\ HandlerMoves(h) /\ hd'[h].pc \in {"idle", "send"} /\ Asked(h)' /\ HasAlert(h)'
    BY <1>6, LegacySendsDoes DEF Legacy
  <2> QED BY <1>1, <1>2, <1>6, <2>1, LeaveMove, InvParts DEF Outdoors
<1> QED BY <1>3, <1>4, <1>5, <1>6 DEF SaveDone

LEMMA SaveFailsStep ==
  ASSUME AlertAssumption, AlertInv, NEW h \in Waiters, SaveFails(h) PROVE AlertInv'
<1>1. /\ hd[h].pc = "save" /\ line' = Leave(line, {h}) /\ faults' = faults + 1
      /\ UNCHANGED <<outside, mem, disk, orphans, tasks, tk, told, lost, timing, clock, edits>>
  BY DEF SaveFails
<1>2. Surroundings'
  BY <1>1, InvParts DEF Surroundings, outside
<1>3. HandlerMoves(h) /\ hd'[h].pc = "idle" /\ hd'[h].kind = "none"
  BY EndsDoes DEF SaveFails, AlertInv
<1>4. CASE hd[h].kind = "set" /\ UNCHANGED <<behind, excused>>
  BY <1>1, <1>2, <1>3, <1>4, LeaveMove, InvParts DEF Outdoors, Asked, HasAlert, Changing
<1>5. CASE behind' = TRUE /\ excused' = Alerts
  BY <1>1, <1>2, <1>3, <1>5, LeaveMove, InvParts DEF Outdoors, Asked, HasAlert
<1> QED BY <1>4, <1>5 DEF SaveFails

LEMMA LegacyStepStep ==
  ASSUME AlertAssumption, AlertInv, NEW h \in Waiters, LegacyStep(h) PROVE AlertInv'
<1>1. UNCHANGED <<outside, rest>>
  BY DEF LegacyStep
<1>2. Surroundings'
  BY <1>1, InvParts DEF Surroundings, outside, rest
<1>3. CASE /\ hd[h].pc = "send" /\ To(h, "accepted")
           /\ told' = told \cup {LegacyTriple(h)} /\ lost' = lost \cup {LegacyTriple(h)}
           /\ UNCHANGED <<file, tasks, tk, excused, outside, rest>>
  <2>1. /\ HandlerMoves(h) /\ hd'[h].pc = "accepted" /\ hd'[h].kind = hd[h].kind
        /\ hd'[h].alert = hd[h].alert
    BY <1>3, ToDoes DEF AlertInv
  <2>2. hd[h].kind = "legacy" /\ hd[h].alert \in Alerts /\ hd[h].since \in Nat
    BY <1>3, InvParts DEF Asked, HasAlert, HandlerState
  <2>3. LegacyTriple(h) \in Alerts \X Channels \X Nat
    BY <2>2 DEF LegacyTriple, Channels
  <2>4. lost' \subseteq Alerts \X Channels \X Nat
    BY <1>3, <2>3, InvParts
  <2>5. Asked(h)' /\ HasAlert(h)'
    BY <2>1, <2>2 DEF Asked, HasAlert
  <2> QED BY <1>2, <1>3, <2>1, <2>4, <2>5, OutdoorMove DEF Outdoors
<1>4. CASE /\ hd[h].pc = "accepted" /\ To(h, "mark") /\ line' = Join(line, h)
           /\ UNCHANGED <<mem, disk, orphans, behind, alarms, outside, rest>>
  <2>1. /\ HandlerMoves(h) /\ hd'[h].pc = "mark" /\ hd'[h].kind = hd[h].kind
        /\ hd'[h].alert = hd[h].alert
    BY <1>4, ToDoes DEF AlertInv
  <2>2. Asked(h)' /\ HasAlert(h)'
    BY <1>4, <2>1, InvParts DEF Asked, HasAlert
  <2> QED BY <1>2, <1>4, <2>1, <2>2, JoinMove DEF Outdoors
<1>5. CASE /\ hd[h].pc \in {"mark", "marked"} /\ line' = Leave(line, {h}) /\ Ends(h)
           /\ (disk' = mem /\ behind' = FALSE) \/ (hd[h].pc = "mark" /\ UNCHANGED <<disk, behind>>)
           /\ UNCHANGED <<mem, orphans, alarms>>
  <2>1. HandlerMoves(h) /\ hd'[h].pc = "idle" /\ hd'[h].kind = "none"
    BY <1>5, EndsDoes DEF AlertInv
  <2> QED BY <1>2, <1>5, <2>1, LeaveMove, InvParts DEF Outdoors, Asked, HasAlert, Changing, alarms
<1>6. CASE /\ hd[h].pc = "mark" /\ Holds(h) /\ mem.on
           /\ mem' = Marked(mem, hd[h].alert, "telegram")
           /\ To(h, "marked") /\ UNCHANGED line
           /\ UNCHANGED <<disk, orphans, behind, alarms, outside, rest>>
  <2>1. /\ HandlerMoves(h) /\ hd'[h].pc = "marked" /\ hd'[h].kind = hd[h].kind
        /\ hd'[h].alert = hd[h].alert
    BY <1>6, ToDoes DEF AlertInv
  <2>2. hd[h].kind = "legacy" /\ hd[h].alert \in Alerts /\ mem \in State
    BY <1>6, InvParts DEF Asked, HasAlert
  <2>3. /\ mem' \in State /\ mem'.on = mem.on /\ mem'.since = mem.since
        /\ mem.sent \subseteq mem'.sent
    <3> DEFINE sent == mem.sent \cup {<<hd[h].alert, "telegram">>}
    <3>1. sent \in SUBSET (Alerts \X Channels) /\ mem.sent \subseteq sent
      BY <2>2 DEF State, Channels
    <3>2. mem' = [mem EXCEPT !.sent = sent]
      BY <1>6 DEF Marked
    <3> HIDE DEF sent
    <3> QED BY <2>2, <3>1, <3>2 DEF State
  <2>4. First(line, h)
    BY <1>6 DEF Holds, First
  <2>5. \A g \in Waiters \ {h} : hd[g].pc \notin {"save", "marked"}
    BY <2>4, HandlerAlone DEF AlertInv
  <2>6. LockInv'
    BY <1>6, <2>1, OtherHandlers, LockStays DEF AlertInv, alarms
  <2>7. AlertTypeOK'
    BY <1>2, <1>6, <2>1, <2>2, <2>3, <2>6, InvParts, HandlerTypes DEF HasAlert, alarms
  <2>8. HandlerInv'
    <3>1. ASSUME NEW g \in Waiters PROVE Asked(g)'
      <4>1. CASE g = h
        BY <2>1, <2>2, <4>1 DEF Asked
      <4>2. CASE g # h
        BY <2>1, <2>5, <4>2, InvParts DEF Asked, HandlerMoves
      <4> QED BY <4>1, <4>2
    <3> QED BY <3>1 DEF HandlerInv
  <2>9. ~Adopting
    BY <1>6, <2>5 DEF Adopting
  <2>10. TaskInv'
    BY <1>6, <2>3, <2>9, TasksStay DEF AlertInv, alarms
  <2>11. FileInv'
    BY <2>1 DEF FileInv, Writing, Changing
  <2> QED BY <2>6, <2>7, <2>8, <2>10, <2>11 DEF AlertInv
<1>7. CASE /\ hd[h].pc = "mark" /\ line' = Leave(line, {h}) /\ Ends(h)
           /\ UNCHANGED <<mem, disk, behind, orphans, alarms>>
  BY <1>5, <1>7
<1>8. CASE /\ hd[h].pc = "marked" /\ disk' = mem /\ behind' = FALSE
           /\ line' = Leave(line, {h}) /\ Ends(h) /\ UNCHANGED <<mem, orphans, alarms>>
  BY <1>5, <1>8
<1> QED BY <1>3, <1>4, <1>6, <1>7, <1>8 DEF LegacyStep

LEMMA LegacyFailsStep ==
  ASSUME AlertAssumption, AlertInv, NEW h \in Waiters, LegacyFails(h) PROVE AlertInv'
<1>1. /\ hd[h].pc \in {"send", "accepted", "marked"} /\ faults' = faults + 1 /\ Ends(h)
      /\ UNCHANGED <<outside, mem, disk, orphans, alarms, timing, clock, edits>>
  BY DEF LegacyFails
<1>2. Surroundings'
  BY <1>1, InvParts DEF Surroundings, outside
<1>3. CASE hd[h].pc = "marked" /\ line' = Leave(line, {h}) /\ behind' = TRUE
  <2>1. HandlerMoves(h) /\ hd'[h].pc = "idle" /\ hd'[h].kind = "none"
    BY <1>1, EndsDoes DEF AlertInv
  <2> QED BY <1>1, <1>2, <1>3, <2>1, LeaveMove, InvParts DEF Outdoors, Asked, HasAlert, alarms
<1>4. CASE hd[h].pc # "marked" /\ UNCHANGED <<line, behind>>
  BY <1>1, <1>2, <1>4, GoesIdle DEF Outdoors, file
<1> QED BY <1>3, <1>4 DEF LegacyFails

LEMMA RestartStep ==
  ASSUME AlertAssumption, AlertInv, Restart PROVE AlertInv'
<1>1. /\ faults' = faults + 1 /\ mem' = disk /\ line' = {} /\ orphans' = {} /\ behind' = FALSE
      /\ tasks' = [a \in Alerts |-> NoTask] /\ tk' = [t \in Tasks |-> Free]
      /\ hd' = [h \in Waiters |-> IF h = Boot THEN Request("switch", "boot", "none") ELSE Idle]
      /\ lost' = lost \cup {x \in told : disk.since # x[3] \/ <<x[1], x[2]>> \notin disk.sent}
      /\ timing' \in {"none", "known"} /\ excused' = {}
      /\ UNCHANGED <<outside, disk, told, clock, edits>>
  BY DEF Restart
<1>2. Surroundings'
  <2>1. faults \in Nat /\ Surroundings
    BY InvParts DEF Surroundings
  <2>2. faults' \in Nat
    BY <1>1, <2>1
  <2> QED BY <1>1, <2>1, <2>2 DEF Surroundings, outside
<1>3. /\ Free \in TaskState /\ Free.pc = "free"
      /\ Idle \in HandlerState /\ Idle.pc = "idle" /\ Idle.kind = "none"
  BY DEF Free, TaskState, Channels, Idle, Request, Blank, HandlerState, State
<1>4. /\ Request("switch", "boot", "none") \in HandlerState
      /\ Request("switch", "boot", "none").pc = "switch"
      /\ Request("switch", "boot", "none").kind = "boot"
  BY Requests
<1>5. /\ tk' \in [Tasks -> TaskState] /\ \A t \in Tasks : tk'[t].pc = "free"
  BY <1>1, <1>3
<1>6. /\ hd' \in [Waiters -> HandlerState]
      /\ \A h \in Waiters : hd'[h].pc \in {"idle", "switch"} /\ hd'[h].kind \in {"none", "boot"}
  BY <1>1, <1>3, <1>4
<1>7. lost' \subseteq Alerts \X Channels \X Nat
  BY <1>1, InvParts
<1>8. tasks' \in [Alerts -> Tasks \cup {NoTask}]
  BY <1>1
<1>9. AlertTypeOK'
  BY <1>1, <1>2, <1>5, <1>6, <1>7, <1>8, InvParts DEF AlertTypeOK, Surroundings, Ended
<1>10. LockInv'
  BY <1>1, <1>5, <1>6 DEF LockInv, Ordered, InLine, First, Queued, Writes
<1>11. HandlerInv'
  BY <1>6 DEF HandlerInv, Asked
<1>12. TaskInv'
  <2>1. NoStrayTask' /\ \A t \in Tasks : Current(t)' /\ Reported(t)'
    BY <1>5 DEF NoStrayTask, Current, Reported, Ended, Owed
  <2>2. Remembered'
    BY <1>1 DEF Remembered, Noted
  <2> QED BY <2>1, <2>2 DEF TaskInv
<1>13. FileInv'
  BY <1>1 DEF FileInv
<1> QED BY <1>9, <1>10, <1>11, <1>12, <1>13 DEF AlertInv

-----------------------------------------------------------------------------
(* The invariant.                                                          *)
LEMMA AlertInit ==
  ASSUME AlertAssumption, Init PROVE AlertInv
<1>1. /\ Free \in TaskState /\ Free.pc = "free"
      /\ Idle \in HandlerState /\ Idle.pc = "idle" /\ Idle.kind = "none"
  BY DEF Free, TaskState, Channels, Idle, Request, Blank, HandlerState, State
<1>2. mem \in State
  BY DEF Init, State
<1>3. \A t \in Tasks : tk[t].pc = "free"
  BY <1>1 DEF Init
<1>4. \A h \in Waiters : hd[h].pc = "idle" /\ hd[h].kind = "none"
  BY <1>1 DEF Init
<1>5. AlertTypeOK
  BY <1>1, <1>2, <1>3, <1>4 DEF Init, AlertTypeOK, Ended
<1>6. LockInv
  BY <1>3, <1>4 DEF Init, LockInv, Ordered, InLine, First, Queued, Writes
<1>7. HandlerInv
  BY <1>4 DEF HandlerInv, Asked
<1>8. TaskInv
  BY <1>3 DEF Init, TaskInv, NoStrayTask, Current, Reported, Remembered, Ended, Owed
<1>9. FileInv
  BY DEF Init, FileInv
<1> QED BY <1>5, <1>6, <1>7, <1>8, <1>9 DEF AlertInv

LEMMA AlertNext ==
  ASSUME AlertAssumption, AlertInv, [Next]_vars PROVE AlertInv'
<1>1. ASSUME NEW t \in Tasks, TaskStep(t) \/ SendFails(t) \/ SaveBreaks(t) PROVE AlertInv'
  BY <1>1, DropTaskStep, WakeStep, AcceptedStep, AnsweredStep, MarkStep, SavedStep,
     SendFailsStep, SaveBreaksStep DEF TaskStep
<1>2. ASSUME NEW h \in Waiters,
             HandlerStep(h) \/ ReadFails(h) \/ SaveFails(h) \/ LegacyFails(h)
      PROVE  AlertInv'
  BY <1>2, ReadSwitchStep, ReadHelperStep, EnterStep, SaveDoneStep, LegacyStepStep,
     ReadFailsStep, SaveFailsStep, LegacyFailsStep DEF HandlerStep
<1>3. ASSUME NEW h \in Handlers,
             \/ \E again \in BOOLEAN : Hear(h, again)
             \/ Change(h) \/ \E a \in Alerts : AskForAlert(h, a)
      PROVE  AlertInv'
  BY <1>3, HearStep, ChangeStep, AskStep
<1>4. CASE \E o \in orphans : OrphanWrites(o)
  BY <1>4, OrphanStep
<1>5. CASE Switch \/ Tick \/ EventLost \/ PolicyLost \/ UNCHANGED vars
  BY <1>5, OutsideStep
<1>6. CASE NewPolicy \/ Restart
  BY <1>6, NewPolicyStep, RestartStep
<1> QED BY <1>1, <1>2, <1>3, <1>4, <1>5, <1>6 DEF Next, Trouble

(* The lock orders those who wait for it, a task that runs belongs to the  *)
(* cycle in memory, and what was told is remembered, on its way or lost.   *)
THEOREM AlertInvariant == Spec => []AlertInv
<1>1. Init => AlertInv
  BY AlertInit, AlertAssumption
<1>2. AlertInv /\ [Next]_vars => AlertInv'
  BY AlertNext, AlertAssumption
<1> QED BY <1>1, <1>2, PTL DEF Spec

(* The state file, its copy in memory, the tasks and the handlers have     *)
(* their shape in every reachable state.                                   *)
THEOREM AlertTypeCorrect == Spec => []AlertTypeOK
<1>1. AlertInv => AlertTypeOK
  BY DEF AlertInv
<1> QED BY <1>1, AlertInvariant, PTL

(* However offs, reschedules, restarts and callbacks of ended tasks        *)
(* interleave, a task that still runs is the one _tasks has for its alert. *)
THEOREM TasksStayKnown == Spec => []NoStrayTask
<1>1. AlertInv => NoStrayTask
  BY DEF AlertInv, TaskInv
<1> QED BY <1>1, AlertInvariant, PTL

(* With the lock free, no orphaned thread and no failed save, a restart    *)
(* loads what memory was.                                                  *)
THEOREM FileIsMemory == Spec => []FileFollows
<1>1. ASSUME AlertInv, line = {}, orphans = {}, ~behind PROVE disk = mem
  <2>1. \A x \in Actors : ~Writes(x)
    BY <1>1 DEF AlertInv, LockInv, First, InLine
  <2>2. ~Writing
    BY <2>1 DEF Writing, Changing, Writes, Actors
  <2> QED BY <1>1, <2>2 DEF AlertInv, FileInv
<1>2. AlertInv => FileFollows
  BY <1>1 DEF FileFollows
<1> QED BY <1>2, AlertInvariant, PTL

(* A channel is served twice in a cycle only if what the first message     *)
(* left was lost on its way to the state.                                  *)
THEOREM RepeatsAreExplained == Spec => RepeatsNeedLoss
<1>1. AlertInv /\ [Next]_vars =>
        [\A t \in Tasks :
           tk[t].pc = "send" /\ tk'[t].pc = "accepted" /\ Triple(t) \in told
             => Triple(t) \in lost]_vars
  BY DEF AlertInv, TaskInv, Reported
<1> QED BY <1>1, AlertInvariant, PTL DEF Spec, RepeatsNeedLoss

\* Only a task itself goes on to send or to write: whoever renews the timers
\* starts tasks that sleep, and ends the others.
LEMMA RenewEnds ==
  ASSUME AlertTypeOK, NEW need, NEW m, NEW queue, Renew(need, m, queue), NEW t \in Tasks
  PROVE  tk'[t].pc \in {"sleep", "ended", tk[t].pc}
<1>1. \A a : NewTask(a, m).pc = "sleep"
  BY DEF NewTask, Free
<1>2. tk[t] \in TaskState
  BY DEF AlertTypeOK
<1>3. \/ \E a : tk'[t] = NewTask(a, m)
      \/ tk'[t] = [tk[t] EXCEPT !.pc = "ended"]
      \/ tk'[t] = tk[t]
  BY DEF Renew
<1>4. [tk[t] EXCEPT !.pc = "ended"].pc = "ended"
  BY <1>2 DEF TaskState
<1> QED BY <1>1, <1>3, <1>4

LEMMA GoesAlone ==
  ASSUME AlertTypeOK, NEW t \in Tasks, NEW u \in Tasks,
         TaskStep(u) \/ SendFails(u) \/ SaveBreaks(u), t # u
  PROVE  tk'[t] = tk[t]
<1>1. tk \in [Tasks -> TaskState]
  BY DEF AlertTypeOK
<1>2. \A pc : Goes(u, pc) => tk'[t] = tk[t]
  BY <1>1 DEF Goes
<1>3. \A c : SendOn(u, c) => tk'[t] = tk[t]
  BY <1>1 DEF SendOn
<1>4. AfterChannel(u, mem) => tk'[t] = tk[t]
  BY <1>1, <1>2, <1>3 DEF AfterChannel, EndAttempt
<1>5. DropTask(u) => tk'[t] = tk[t]
  BY <1>1 DEF DropTask
<1>6. Wake(u) => tk'[t] = tk[t]
  BY <1>2, <1>3 DEF Wake
<1>7. Accepted(u) \/ Answered(u) \/ SendFails(u) \/ SaveBreaks(u) \/ Saved(u) => tk'[t] = tk[t]
  BY <1>2, <1>4 DEF Accepted, Answered, SendFails, SaveBreaks, Saved
<1>8. Mark(u) => tk'[t] = tk[t]
  BY <1>2, <1>4 DEF Mark
<1> QED BY <1>5, <1>6, <1>7, <1>8 DEF TaskStep

LEMMA WhereTasksAre ==
  ASSUME NEW t \in Tasks
  PROVE  /\ DropTask(t) => tk[t].pc = "ended"
         /\ Wake(t) => tk[t].pc = "sleep"
         /\ Accepted(t) => tk[t].pc = "send"
         /\ Answered(t) => tk[t].pc = "accepted"
         /\ Mark(t) => tk[t].pc = "mark"
         /\ Saved(t) \/ SaveBreaks(t) => tk[t].pc = "save"
         /\ SendFails(t) => tk[t].pc \in {"send", "accepted"}
<1>1. DropTask(t) => tk[t].pc = "ended"
  BY DEF DropTask
<1>2. Wake(t) => tk[t].pc = "sleep"
  BY DEF Wake
<1>3. Accepted(t) => tk[t].pc = "send"
  BY DEF Accepted
<1>4. Answered(t) => tk[t].pc = "accepted"
  BY DEF Answered
<1>5. Mark(t) => tk[t].pc = "mark"
  BY DEF Mark
<1>6. Saved(t) \/ SaveBreaks(t) => tk[t].pc = "save"
  BY DEF Saved, SaveBreaks
<1>7. SendFails(t) => tk[t].pc \in {"send", "accepted"}
  BY DEF SendFails
<1> QED BY <1>1, <1>2, <1>3, <1>4, <1>5, <1>6, <1>7

LEMMA WhoGoesOn ==
  ASSUME AlertTypeOK, Next, NEW t \in Tasks, tk'[t].pc \notin {"sleep", "ended", tk[t].pc}
  PROVE  TaskStep(t) \/ SendFails(t) \/ SaveBreaks(t) \/ tk'[t].pc = "free"
<1> DEFINE Rests == tk'[t].pc \in {"sleep", "ended", "free", tk[t].pc}
<1>1. ASSUME NEW u \in Tasks, TaskStep(u) \/ SendFails(u) \/ SaveBreaks(u), u # t PROVE Rests
  BY <1>1, GoesAlone
<1>2. \A need, m, queue : Renew(need, m, queue) => Rests
  BY RenewEnds
<1>3. \A m, policy, queue : Reschedule(m, policy, queue) \/ RescheduleActive(m, policy, queue) => Rests
  BY <1>2 DEF Reschedule, RescheduleActive
<1>4. tk' = tk => Rests
  OBVIOUS
<1> HIDE DEF Rests
<1>5. ASSUME NEW h \in Waiters, Unconfirmed(h) \/ ClearCycle(h) \/ LegacyAsks(h) PROVE Rests
  BY <1>2, <1>3, <1>4, <1>5 DEF Unconfirmed, ClearCycle, LegacyAsks, alarms
<1>6. ASSUME NEW h \in Waiters, ReadSwitch(h) \/ ReadHelper(h) \/ ReadFails(h) PROVE Rests
  BY <1>3, <1>4, <1>5, <1>6 DEF ReadSwitch, ReadHelper, ReadFails, alarms
<1>7. ASSUME NEW h \in Waiters, Enter(h) \/ SaveDone(h) \/ SaveFails(h) PROVE Rests
  BY <1>3, <1>4, <1>7 DEF Enter, SaveDone, SaveFails
<1>8. ASSUME NEW h \in Waiters, LegacyStep(h) \/ LegacyFails(h) PROVE Rests
  BY <1>4, <1>8 DEF LegacyStep, LegacyFails, alarms
<1>9. ASSUME NEW h \in Handlers, \E again \in BOOLEAN : Hear(h, again) PROVE Rests
  BY <1>2, <1>4, <1>9 DEF Hear, alarms
<1>10. ASSUME NEW h \in Handlers, Change(h) \/ \E a \in Alerts : AskForAlert(h, a) PROVE Rests
  BY <1>4, <1>10 DEF Change, AskForAlert, alarms
<1>11. CASE \/ \E o \in orphans : OrphanWrites(o)
            \/ Switch \/ Tick \/ EventLost \/ PolicyLost
  BY <1>4, <1>11 DEF OrphanWrites, Switch, Tick, EventLost, PolicyLost, alarms
<1>12. CASE NewPolicy
  <2>1. (\E need, m : Renew(need, m, line)) \/ tk' = tk
    BY <1>12 DEF NewPolicy, RescheduleActive, Reschedule
  <2>2. Rests
    BY <1>2, <1>4, <2>1
  <2> QED BY <2>2 DEF Rests
<1>13. CASE Restart
  <2>1. tk'[t] = Free /\ Free.pc = "free"
    BY <1>13 DEF Restart, Free
  <2> QED BY <2>1 DEF Rests
<1>14. ASSUME NEW h \in Waiters, HandlerStep(h) PROVE Rests
  BY <1>6, <1>7, <1>8, <1>14 DEF HandlerStep
<1>15. CASE TaskStep(t) \/ SendFails(t) \/ SaveBreaks(t)
  BY <1>15
<1>16. CASE Rests
  BY <1>16 DEF Rests
<1>17. CASE Trouble
  BY <1>1, <1>6, <1>7, <1>8, <1>11, <1>13, <1>15, <1>16, <1>17 DEF Trouble
<1> QED BY <1>1, <1>9, <1>10, <1>11, <1>12, <1>14, <1>15, <1>16, <1>17 DEF Next

(* A timer fires into the cycle it was set for, unless the next one is     *)
(* being saved, or the code gave the alert up.                             *)
THEOREM WakesInItsCycle == Spec => SendsForItsCycle
<1>1. ASSUME AlertInv, Next, NEW t \in Tasks, tk[t].pc = "sleep", tk'[t].pc = "send",
             tk[t].alert \notin excused, ~Adopting
      PROVE  tk[t].cycle = mem.since
  <2>1. Current(t) /\ ~Ended(t)
    BY <1>1 DEF AlertInv, TaskInv, Ended
  <2>2. TaskStep(t) \/ SendFails(t) \/ SaveBreaks(t)
    BY <1>1, WhoGoesOn DEF AlertInv
  <2>3. Wake(t)
    BY <1>1, <2>2, WhereTasksAre DEF TaskStep
  <2>4. mem.on
    <3>1. Goes(t, "ended") => tk'[t].pc = "ended"
      BY <1>1, GoesDoes DEF AlertInv, Steps
    <3> QED BY <1>1, <2>3, <3>1 DEF Wake
  <2> QED BY <1>1, <2>1, <2>4 DEF Current
<1>2. AlertInv /\ [Next]_vars =>
        [\A t \in Tasks :
           tk[t].pc = "sleep" /\ tk'[t].pc = "send" /\ tk[t].alert \notin excused /\ ~Adopting
             => tk[t].cycle = mem.since]_vars
  BY <1>1
<1> QED BY <1>2, AlertInvariant, PTL DEF Spec, SendsForItsCycle

(* What a task crosses off was told in the cycle whose list it is: a new   *)
(* cycle does not start with the marks of the one before.                  *)
THEOREM MarksAreOfTheCycle == Spec => MarksAreTrue
<1>1. ASSUME AlertInv, Next, NEW t \in Tasks, tk[t].pc = "mark", tk'[t].pc = "save",
             tk[t].alert \notin excused
      PROVE  <<tk[t].alert, tk[t].channel, mem.since>> \in told
  <2>1. Current(t) /\ Reported(t) /\ ~Ended(t) /\ Owed(t)
    BY <1>1 DEF AlertInv, TaskInv, Ended, Owed
  <2>2. TaskStep(t) \/ SendFails(t) \/ SaveBreaks(t)
    BY <1>1, WhoGoesOn DEF AlertInv
  <2>3. Mark(t)
    BY <1>1, <2>2, WhereTasksAre DEF TaskStep
  <2>4. First(line, t)
    BY <2>3 DEF Mark, Holds, First
  <2>5. ~Adopting
    BY <1>1, <2>4, TaskAlone, AlertAssumption DEF AlertInv, Adopting
  <2>6. mem.on
    <3>1. AfterChannel(t, mem) => tk'[t].pc # "save"
      <4>1. AlertTypeOK
        BY <1>1 DEF AlertInv
      <4> QED BY <2>1, <4>1, AfterChannelDoes DEF Continues, Steps, Sends
    <3>2. AfterChannel(t, mem) \/ mem.on
      BY <2>3 DEF Mark
    <3> QED BY <1>1, <3>1, <3>2
  <2>7. tk[t].cycle = mem.since
    BY <1>1, <2>1, <2>5, <2>6 DEF Current
  <2> QED BY <2>1, <2>7 DEF Reported, Triple
<1>2. AlertInv /\ [Next]_vars =>
        [\A t \in Tasks :
           tk[t].pc = "mark" /\ tk'[t].pc = "save" /\ tk[t].alert \notin excused
             => <<tk[t].alert, tk[t].channel, mem.since>> \in told]_vars
  BY <1>1
<1> QED BY <1>2, AlertInvariant, PTL DEF Spec, MarksAreTrue

=============================================================================
