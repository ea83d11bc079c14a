------------------------ MODULE CoffeeTimingPolicy -------------------------
(***************************************************************************)
(* The timing policy of the coffee alerts: two helpers in Home Assistant   *)
(* and the copy that the bot publishes, services/coffee_timing_policy.py.  *)
(*                                                                         *)
(* Every request to Home Assistant is a step of its own.  Routes, Telegram *)
(* and the refresh loop read the pair of helpers one after the other and   *)
(* without a lock; only patches exclude each other.  A patch writes the    *)
(* helpers one by one, reads them back, and after a failure writes the old *)
(* values again.  The owner changes helpers in Home Assistant at any time. *)
(***************************************************************************)
EXTENDS Naturals, Sequences, FiniteSets, SequencesExt

CONSTANTS
  Callers,          \* coroutines that serve routes and Telegram
  Poller,           \* the refresh loop, which also does the refresh at the start
  Script,           \* scripts/migrate_coffee_timing_to_ha.py
  Minutes,          \* what a helper accepts
  Asked,            \* what clients ask for
  Bare,             \* the value of a helper that nobody has set yet
  Bootstrap,        \* the default pair
  Legacies,         \* pairs that an older release may have kept, or NoPair for none
  NoPair, NoCaller,
  Budgets       \* bounds: clients' calls, changes by the owner, faults

Helpers == {"warmup", "long"}
Order == <<"warmup", "long">>
Actors == Callers \cup {Poller, Script}

ASSUME TimingAssumption ==
  /\ Poller \notin Callers /\ Script \notin Callers \cup {Poller}
  /\ NoCaller \notin Actors
  /\ Minutes \subseteq Nat /\ Asked \subseteq Nat /\ Bare \in Minutes
  /\ Bootstrap \in [Helpers -> Minutes]
  /\ Legacies \subseteq [Helpers -> Minutes] \cup {NoPair}
  /\ NoPair \notin [Helpers -> Nat] \cup [Helpers -> [value : Nat, at : Nat]]
  /\ Budgets \subseteq [calls : Nat, edits : Nat, faults : Nat]

VARIABLES
  helper,       \* Home Assistant: the value of each helper and when it changed
  marker,       \* Home Assistant: input_boolean.coffee_timing_initialized
  late,         \* writes whose sender stopped waiting and that may still happen
  stamp,        \* the last time of a change
  policy,       \* _policy, as read; its revision is the pair with its times
  failing,      \* _last_error_at is set
  lock,         \* holder of _mutation_lock
  ac,           \* local variables of each actor
  lastRevision, \* the refresh loop's _last_revision
  timers,       \* the policy that the running alert timers were scheduled with
  calls, edits, faults,   \* what is left of the budget
  strayed,      \* history: the timers took a policy the refresh loop had not seen
  won,          \* history: revisions on which a patch succeeded
  disturbed     \* history: at whose work somebody else changed a helper

haVars == <<helper, marker, late, stamp>>
botVars == <<policy, failing, lastRevision, timers, strayed>>
vars == <<haVars, botVars, lock, ac, calls, edits, faults, won, disturbed>>

Reading == [value : Nat, at : Nat]
Pair == [Helpers -> Reading]
Wishes == UNION {[H -> Asked] : H \in SUBSET Helpers}
NoWish == [x \in {} |-> Bare]
Values(pair) == [x \in Helpers |-> pair[x].value]

Resting == [pc |-> "idle", phase |-> "refresh", by |-> "route", want |-> NoWish,
            asked |-> NoPair, got |-> NoPair, orig |-> NoPair, todo |-> <<>>,
            done |-> <<>>, verdict |-> "none"]
Goto(a, pc) == [ac[a] EXCEPT !.pc = pc]
Become(a, rec) ==
  ac' = [ac EXCEPT ![a] = IF rec.pc = "long" THEN rec ELSE [rec EXCEPT !.got = NoPair]]
Booting == ac[Poller].by = "boot" /\ ac[Poller].pc # "idle"

-----------------------------------------------------------------------------
(* Home Assistant.  Its last_updated moves only when the value does.       *)
Wrote(x, v) ==
  IF helper[x].value = v THEN helper ELSE [helper EXCEPT ![x] = [value |-> v, at |-> stamp + 1]]
Change(x, v) ==
  /\ helper' = Wrote(x, v)
  /\ stamp' = IF helper[x].value = v THEN stamp ELSE stamp + 1

(* All that work on the helpers while a is not the one that changes them.  *)
OthersAtWork(a) == disturbed \cup {b \in Actors \ {a} : ac[b].pc # "idle"}

OthersSet(x, v) ==
  /\ edits > 0 /\ helper[x].value # v
  /\ Change(x, v)
  /\ edits' = edits - 1
  /\ disturbed' = OthersAtWork(NoCaller)
  /\ UNCHANGED <<marker, late, botVars, lock, ac, calls, faults, won>>

Arrive(w) ==
  /\ w \in late /\ late' = late \ {w}
  /\ Change(w[1], w[2])
  /\ disturbed' = OthersAtWork(NoCaller)
  /\ UNCHANGED <<marker, botVars, lock, ac, calls, edits, faults, won>>

-----------------------------------------------------------------------------
(* Ends of a call.  Stop gives the lock back if the caller holds it.       *)
Stop(a, verdict) ==
  /\ Become(a, [Resting EXCEPT !.verdict = verdict])
  /\ lock' = IF lock = a THEN NoCaller ELSE lock

(* reschedule_active_alerts: the timers take the published policy.         *)
Reschedule(revision) == timers' = policy' /\ strayed' = (policy' # revision)
KeepTimers == UNCHANGED <<timers, strayed>>

(* Mutant: the loop compares with what is published, not with what it saw. *)
TakeOverIfNew(a) ==
  CASE ac[a].by = "poll" ->
         /\ lastRevision' = policy'
         /\ IF policy' # policy THEN Reschedule(policy') ELSE KeepTimers
    [] ac[a].by = "boot" -> lastRevision' = policy' /\ Reschedule(policy')
    [] ac[a].by = "telegram" /\ ac[a].phase # "refresh" ->
         Reschedule(lastRevision) /\ UNCHANGED lastRevision
    [] OTHER -> KeepTimers /\ UNCHANGED lastRevision

(* What the timers become when a publishes, or fails to: the refresh loop  *)
(* reschedules on a new revision, Telegram after its change, the start of  *)
(* the program always.                                                     *)
TakeOver(a) ==
  CASE ac[a].by = "poll" ->
         /\ lastRevision' = policy'
         /\ IF policy' # lastRevision THEN Reschedule(policy') ELSE KeepTimers
    [] ac[a].by = "boot" -> lastRevision' = policy' /\ Reschedule(policy')
    [] ac[a].by = "telegram" /\ ac[a].phase # "refresh" ->
         Reschedule(lastRevision) /\ UNCHANGED lastRevision
    [] OTHER -> KeepTimers /\ UNCHANGED lastRevision
Publish(a, pair) ==
  /\ policy' = pair /\ failing' = FALSE
  /\ TakeOver(a)

(* An exception in the middle of a call, by what the call was doing.       *)
RefreshFails(a) ==
  /\ ac[a].phase = "refresh"
  /\ failing' = TRUE /\ UNCHANGED policy
  /\ IF ac[a].by = "boot" THEN TakeOver(a) ELSE UNCHANGED <<lastRevision, timers, strayed>>
  /\ Stop(a, "failed")
CheckFails(a) ==
  /\ ac[a].phase \in {"check", "plan", "move", "settle"}
  /\ Stop(a, "failed")
  /\ UNCHANGED botVars
(* Mutant: a failed patch says that it restored, and does not.             *)
RaiseOnly(a) == ac[a].phase = "apply" /\ Stop(a, "restored") /\ UNCHANGED botVars

StartRollback(a) ==
  /\ ac[a].phase = "apply"
  /\ Become(a, [ac[a] EXCEPT !.phase = "undo", !.pc = "set", !.todo = Reverse(ac[a].done)])
  /\ UNCHANGED <<botVars, lock>>
MarkUnknown(a) ==
  /\ ac[a].phase = "undo"
  /\ policy' = NoPair /\ failing' = TRUE
  /\ UNCHANGED <<lastRevision, timers, strayed>>
  /\ Stop(a, "unknown")
Fails(a) == RefreshFails(a) \/ CheckFails(a) \/ StartRollback(a) \/ MarkUnknown(a)

CallFails(a) ==
  /\ ac[a].pc \in {"marker", "warmup", "long", "confirm", "turnOn", "confirmMarker"}
  /\ faults > 0 /\ faults' = faults - 1
  /\ Fails(a)
  /\ UNCHANGED <<haVars, calls, edits, won, disturbed>>

-----------------------------------------------------------------------------
(* Starts of a call; of clients at rest it does not matter which one calls.*)
NextFree == CHOOSE a \in Callers : ac[a].pc = "idle"
Start(a, rec) ==
  /\ ac[a].pc = "idle" /\ (a \in Callers => a = NextFree)
  /\ Become(a, rec)
  /\ disturbed' = disturbed \ {a}
  /\ UNCHANGED <<haVars, botVars, lock, edits, faults, won>>

(* GET of the timing route, /health/ready.                                 *)
Refresh(a) ==
  /\ a \in Callers /\ ~Booting /\ calls > 0 /\ calls' = calls - 1
  /\ Start(a, [Resting EXCEPT !.pc = "marker"])
(* Mutant: the loop refreshes until it has a policy.                       *)
PollUntilLoaded ==
  /\ ~Booting /\ policy = NoPair
  /\ Start(Poller, [Resting EXCEPT !.pc = "marker", !.by = "poll"])
  /\ UNCHANGED calls
Poll ==
  /\ ~Booting
  /\ Start(Poller, [Resting EXCEPT !.pc = "marker", !.by = "poll"])
  /\ UNCHANGED calls
(* set_warmup_duration_seconds, set_long_running_threshold_seconds.        *)
TelegramSet(a, want) ==
  /\ a \in Callers /\ ~Booting /\ calls > 0 /\ calls' = calls - 1
  /\ Cardinality(DOMAIN want) = 1
  /\ Start(a, [Resting EXCEPT !.pc = "marker", !.by = "telegram", !.want = want])
(* PATCH of the timing route, for a revision that the client has seen.     *)
PatchMinutes(a, want) ==
  /\ a \in Callers /\ ~Booting /\ calls > 0 /\ calls' = calls - 1
  /\ DOMAIN want # {} /\ policy # NoPair
  /\ Start(a, [Resting EXCEPT !.pc = "lock", !.phase = "check", !.want = want,
                              !.asked = policy])
(* migrate_legacy with apply.                                              *)
Migrate ==
  /\ calls > 0 /\ calls' = calls - 1
  /\ Start(Script, [Resting EXCEPT !.pc = "marker", !.phase = "plan", !.by = "script"])

(* A settings button of Telegram reschedules with what is published.       *)
Toggle ==
  /\ ~Booting /\ edits > 0 /\ edits' = edits - 1
  /\ UNCHANGED <<policy, failing, lastRevision>>
  /\ Reschedule(lastRevision)
  /\ UNCHANGED <<haVars, lock, ac, calls, faults, won, disturbed>>

Lock(a) ==
  /\ ac[a].pc = "lock" /\ lock = NoCaller
  /\ lock' = a
  /\ Become(a, Goto(a, "marker"))
  /\ UNCHANGED <<haVars, botVars, calls, edits, faults, won, disturbed>>

-----------------------------------------------------------------------------
(* Reads.  _is_initialized first, then the helpers in their order.         *)
AskMarker(a) ==
  /\ ac[a].pc = "marker"
  /\ \/ /\ ac[a].phase # "plan" /\ marker
        /\ Become(a, Goto(a, "warmup"))
        /\ UNCHANGED <<botVars, lock>>
     \/ ac[a].phase # "plan" /\ ~marker /\ Fails(a)
     \/ ac[a].phase = "plan" /\ marker /\ Stop(a, "already") /\ UNCHANGED botVars
     \/ /\ ac[a].phase = "plan" /\ ~marker
        /\ Become(a, Goto(a, "warmup"))
        /\ UNCHANGED <<botVars, lock>>
  /\ UNCHANGED <<haVars, calls, edits, faults, won, disturbed>>

ReadWarmup(a) ==
  /\ ac[a].pc = "warmup"
  /\ Become(a, [ac[a] EXCEPT !.pc = "long", !.got = helper["warmup"]])
  /\ UNCHANGED <<haVars, botVars, lock, calls, edits, faults, won, disturbed>>

(* The pair as a has read it when the second answer is there.              *)
PairRead(a) == [helper EXCEPT !["warmup"] = ac[a].got]
Expected(a) ==
  [x \in Helpers |-> IF x \in DOMAIN ac[a].want THEN ac[a].want[x] ELSE ac[a].orig[x].value]
Differing(want, pair) ==
  LET part(x) == IF x \in DOMAIN want /\ want[x] # pair[x].value THEN <<x>> ELSE <<>>
  IN  part("warmup") \o part("long")

EndRefresh(a, pair) ==
  /\ ac[a].phase = "refresh"
  /\ Publish(a, pair)
  /\ IF DOMAIN ac[a].want = {} THEN Stop(a, "read")
     ELSE /\ Become(a, [ac[a] EXCEPT !.pc = "lock", !.phase = "check", !.asked = pair])
          /\ UNCHANGED lock
  /\ UNCHANGED won

Decide(a, pair) ==
  /\ ac[a].phase = "check"
  /\ LET bad == \E x \in DOMAIN ac[a].want : ac[a].want[x] \notin Minutes
         changed == Differing(ac[a].want, pair)
     IN  \/ pair # ac[a].asked /\ Stop(a, "conflict") /\ UNCHANGED botVars
         \/ pair = ac[a].asked /\ bad /\ Stop(a, "refused") /\ UNCHANGED botVars
         \/ /\ pair = ac[a].asked /\ ~bad /\ changed = <<>>
            /\ Publish(a, pair) /\ Stop(a, "unchanged")
         \/ /\ pair = ac[a].asked /\ ~bad /\ changed # <<>>
            /\ Become(a, [ac[a] EXCEPT !.phase = "apply", !.pc = "set", !.orig = pair,
                                       !.todo = changed])
            /\ UNCHANGED <<botVars, lock>>
  /\ UNCHANGED won

Verify(a, pair) ==
  /\ ac[a].phase = "apply"
  /\ \/ /\ Values(pair) = Expected(a)
        /\ Publish(a, pair) /\ Stop(a, "ok")
        /\ won' = won \cup {ac[a].asked}
     \/ Values(pair) # Expected(a) /\ StartRollback(a) /\ UNCHANGED won

VerifyRollback(a, pair) ==
  /\ ac[a].phase = "undo"
  /\ \/ /\ Values(pair) = Values(ac[a].orig)
        /\ policy' = pair /\ failing' = FALSE
        /\ UNCHANGED <<lastRevision, timers, strayed>>
        /\ Stop(a, "restored")
     \/ Values(pair) # Values(ac[a].orig) /\ MarkUnknown(a)
  /\ UNCHANGED won

(* The script: what it will write, then the check after each helper.       *)
Kept(pair) == pair # NoPair /\ \E x \in Helpers : pair[x].value # Bare
Target(legacy, pair) ==
  CASE legacy # NoPair -> legacy
    [] legacy = NoPair /\ Kept(pair) -> Values(pair)
    [] OTHER -> Bootstrap
Plan(a, pair) ==
  /\ ac[a].phase = "plan"
  /\ \E legacy \in Legacies :
       LET keeps == legacy = NoPair /\ Kept(pair)
       IN  Become(a, [ac[a] EXCEPT !.want = Target(legacy, pair),
                                   !.phase = IF keeps THEN "settle" ELSE "move",
                                   !.pc = IF keeps THEN "warmup" ELSE "set",
                                   !.todo = IF keeps THEN <<>> ELSE Order])
  /\ UNCHANGED <<botVars, lock, won>>
MoveOn(a, pair) ==
  /\ ac[a].phase = "move"
  /\ LET x == Head(ac[a].todo)
     IN  \/ /\ pair[x].value = ac[a].want[x] /\ Len(ac[a].todo) > 1
            /\ Become(a, [ac[a] EXCEPT !.pc = "set", !.todo = Tail(ac[a].todo)])
            /\ UNCHANGED <<botVars, lock>>
         \/ /\ pair[x].value = ac[a].want[x] /\ Len(ac[a].todo) = 1
            /\ Become(a, [ac[a] EXCEPT !.pc = "warmup", !.phase = "settle", !.todo = <<>>])
            /\ UNCHANGED <<botVars, lock>>
         \/ pair[x].value # ac[a].want[x] /\ CheckFails(a)
  /\ UNCHANGED won
Settle(a, pair) ==
  /\ ac[a].phase = "settle"
  /\ \/ /\ Values(pair) = ac[a].want
        /\ Become(a, Goto(a, "turnOn"))
        /\ UNCHANGED <<botVars, lock>>
     \/ Values(pair) # ac[a].want /\ CheckFails(a)
  /\ UNCHANGED won

ReadLong(a) ==
  /\ ac[a].pc = "long"
  /\ LET pair == PairRead(a)
     IN  \/ EndRefresh(a, pair) \/ Decide(a, pair) \/ Verify(a, pair)
         \/ VerifyRollback(a, pair) \/ Plan(a, pair) \/ MoveOn(a, pair) \/ Settle(a, pair)
  /\ UNCHANGED <<haVars, calls, edits, faults, disturbed>>

(* A helper that is unavailable at this moment: to the script it is as if  *)
(* there were no pair, to all others it is an error.                       *)
Unavailable(a) ==
  /\ ac[a].pc = "long" /\ ac[a].phase = "plan"
  /\ faults > 0 /\ faults' = faults - 1
  /\ Plan(a, NoPair)
  /\ UNCHANGED <<haVars, calls, edits, disturbed>>

-----------------------------------------------------------------------------
(* Writes.  call_service tries twice: the first request may still be       *)
(* carried out after the second.  When it gives up, the helper may be      *)
(* written, not written, or be written later.                              *)
Value(a) ==
  LET x == Head(ac[a].todo)
  IN  IF ac[a].phase = "undo" THEN ac[a].orig[x].value ELSE ac[a].want[x]
Noted(a) ==
  IF ac[a].phase = "apply" THEN Append(ac[a].done, Head(ac[a].todo)) ELSE ac[a].done

SetHelper(a) ==
  /\ ac[a].pc = "set"
  /\ Change(Head(ac[a].todo), Value(a))
  /\ Become(a, [ac[a] EXCEPT !.done = Noted(a),
                             !.pc = IF ac[a].phase = "move" THEN "warmup" ELSE "confirm"])
  /\ disturbed' = OthersAtWork(a)
  /\ \/ UNCHANGED <<late, faults>>
     \/ /\ faults > 0 /\ faults' = faults - 1
        /\ late' = late \cup {<<Head(ac[a].todo), Value(a)>>}
  /\ UNCHANGED <<marker, botVars, lock, calls, edits, won>>

SetFails(a) ==
  /\ ac[a].pc = "set"
  /\ faults > 0 /\ faults' = faults - 1
  /\ LET x == Head(ac[a].todo)
         v == Value(a)
     IN  \/ UNCHANGED <<helper, stamp, late, disturbed>>
         \/ Change(x, v) /\ disturbed' = OthersAtWork(a) /\ UNCHANGED late
         \/ late' = late \cup {<<x, v>>} /\ UNCHANGED <<helper, stamp, disturbed>>
  /\ \/ /\ ac[a].phase = "apply"
        /\ Become(a, [ac[a] EXCEPT !.phase = "undo", !.done = Noted(a),
                                   !.todo = Reverse(Noted(a))])
        /\ UNCHANGED <<botVars, lock>>
     \/ MarkUnknown(a)
     \/ CheckFails(a)
  /\ UNCHANGED <<marker, calls, edits, won>>

(* _confirm_helper_minutes.                                                *)
Confirm(a) ==
  /\ ac[a].pc = "confirm"
  /\ \/ /\ helper[Head(ac[a].todo)].value = Value(a)
        /\ Become(a, [ac[a] EXCEPT !.todo = Tail(ac[a].todo),
                                   !.pc = IF Len(ac[a].todo) > 1 THEN "set" ELSE "warmup"])
        /\ UNCHANGED <<botVars, lock>>
     \/ helper[Head(ac[a].todo)].value # Value(a) /\ Fails(a)
  /\ UNCHANGED <<haVars, calls, edits, faults, won, disturbed>>

TurnOnMarker(a) ==
  /\ ac[a].pc = "turnOn"
  /\ marker' = TRUE
  /\ Become(a, Goto(a, "confirmMarker"))
  /\ UNCHANGED <<helper, late, stamp, botVars, lock, calls, edits, faults, won, disturbed>>
ConfirmMarker(a) ==
  /\ ac[a].pc = "confirmMarker"
  /\ IF marker THEN Stop(a, "initialized") /\ UNCHANGED botVars ELSE Fails(a)
  /\ UNCHANGED <<haVars, calls, edits, faults, won, disturbed>>

(* The bot ends and starts again: the refresh at the start comes before    *)
(* everything else.                                                        *)
Restart ==
  /\ faults > 0 /\ faults' = faults - 1
  /\ policy' = NoPair /\ failing' = FALSE /\ lock' = NoCaller
  /\ ac' = [a \in Actors |->
              CASE a = Script -> ac[a]
                [] a = Poller -> [Resting EXCEPT !.pc = "marker", !.by = "boot"]
                [] OTHER -> Resting]
  /\ disturbed' = disturbed \cap {Script}
  /\ timers' = NoPair /\ lastRevision' = NoPair /\ strayed' = FALSE
  /\ UNCHANGED <<haVars, calls, edits, won>>

-----------------------------------------------------------------------------
Init ==
  /\ helper \in [Helpers -> [value : Minutes, at : {0}]]
  /\ marker \in BOOLEAN
  /\ late = {} /\ stamp = 0
  /\ policy = NoPair /\ failing = FALSE /\ lock = NoCaller
  /\ ac = [a \in Actors |-> IF a = Poller THEN [Resting EXCEPT !.pc = "marker", !.by = "boot"]
                            ELSE Resting]
  /\ lastRevision = NoPair /\ timers = NoPair /\ strayed = FALSE
  /\ \E b \in Budgets : calls = b.calls /\ edits = b.edits /\ faults = b.faults
  /\ won = {} /\ disturbed = {}

Step(a) ==
  \/ Lock(a) \/ AskMarker(a) \/ ReadWarmup(a) \/ ReadLong(a)
  \/ SetHelper(a) \/ Confirm(a) \/ TurnOnMarker(a) \/ ConfirmMarker(a)
Client(a) ==
  \/ Refresh(a)
  \/ \E want \in Wishes : TelegramSet(a, want) \/ PatchMinutes(a, want)
Trouble ==
  \/ \E x \in Helpers, v \in Minutes : OthersSet(x, v)
  \/ \E w \in late : Arrive(w)
  \/ \E a \in Actors : CallFails(a) \/ Unavailable(a) \/ SetFails(a)
  \/ Toggle \/ Restart
Next ==
  \/ \E a \in Actors : Step(a)
  \/ \E a \in Callers : Client(a)
  \/ Poll \/ Migrate
  \/ Trouble

Spec == Init /\ [][Next]_vars

(* The loop polls again and again, and the timeouts of the client end      *)
(* every call.                                                             *)
FairSpec == Spec /\ WF_vars(Poll) /\ \A a \in Actors : WF_vars(Step(a))

-----------------------------------------------------------------------------
Phases == {"refresh", "check", "apply", "undo", "plan", "move", "settle"}
Steps == {"idle", "lock", "marker", "warmup", "long", "set", "confirm", "turnOn",
          "confirmMarker"}

(* The published policy and every local copy are pairs of readings, and    *)
(* who writes a helper knows which and, in a patch, the values to restore. *)
TimingTypeOK ==
  /\ helper \in [Helpers -> [value : Minutes, at : Nat]]
  /\ marker \in BOOLEAN /\ failing \in BOOLEAN
  /\ policy \in Pair \cup {NoPair} /\ timers \in Pair \cup {NoPair}
  /\ lastRevision \in Pair \cup {NoPair}
  /\ lock \in Callers \cup {NoCaller}
  /\ \A a \in Actors :
       /\ ac[a].pc \in Steps /\ ac[a].phase \in Phases
       /\ ac[a].pc \in {"set", "confirm"} => ac[a].todo # <<>>
       /\ ac[a].phase \in {"apply", "undo"} => ac[a].orig \in Pair
       /\ ac[a].phase \in {"check", "apply", "undo"} => ac[a].asked \in Pair

Stops(a) == ac[a].pc # "idle" /\ ac'[a].pc = "idle"

(* What a patch answers is what it did (patch_minutes): "ok" when both     *)
(* helpers are as the client wanted, "restored" when both are as before,   *)
(* and a refusal when nothing was written -- unless somebody else, or a    *)
(* write that came late, changed a helper in the meantime.  Of all patches *)
(* that name one revision at most one is answered "ok".                    *)
PatchAnswersAreTrue ==
  [][\A a \in Callers : Stops(a) =>
       /\ ac'[a].verdict = "ok" => ac[a].asked \notin won
       /\ a \notin disturbed =>
            CASE ac'[a].verdict = "ok" -> Values(helper) = Expected(a)
              [] ac'[a].verdict = "restored" -> Values(helper) = Values(ac[a].orig)
              [] ac'[a].verdict \in {"conflict", "refused", "unchanged"} -> ac[a].done = <<>>
              [] OTHER -> TRUE]_vars

(* Once nobody changes the helpers, what the bot publishes becomes and     *)
(* stays what they hold, whatever slow readers and failed patches have     *)
(* published before.                                                       *)
PolicyConverges == <>[](marker => policy = helper)

(* And so do the timers of a running cycle, unless a button rescheduled    *)
(* them with a policy other than the one the refresh loop saw last: the    *)
(* loop reschedules only when it sees a revision that it has not seen.     *)
TimersFollow == <>[](marker => timers = helper \/ strayed)
=============================================================================
