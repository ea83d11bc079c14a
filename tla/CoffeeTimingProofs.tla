------------------------- MODULE CoffeeTimingProofs -------------------------
(***************************************************************************)
(* Proofs about CoffeeTimingPolicy for any number of clients, any minutes  *)
(* and bounds, whatever the owner changes in Home Assistant, writes that   *)
(* come late, answers that are lost, and restarts: the types, and that a   *)
(* patch answers what it did.                                              *)
(*                                                                         *)
(* Each actor is followed by itself: Actor(a) speaks of its own record, of *)
(* the helpers, whose times only grow (Grows), of the lock and of the      *)
(* revisions that have won.  OthersKeep shows it for all who do not move,  *)
(* so that the lemma of an action is about the actor that takes it.        *)
(***************************************************************************)
EXTENDS CoffeeTimingPolicy, TLAPS

-----------------------------------------------------------------------------
(* The inductive invariant.  What an actor knows of itself: where it can   *)
(* be in each phase, who goes through which phase, and what its local      *)
(* variables hold there.                                                   *)
Sighting == [value : Minutes, at : Nat]
Sightings == [Helpers -> Sighting]
Wanted == UNION {[H -> Minutes \cup Asked] : H \in SUBSET Helpers}
Origins == {"route", "boot", "poll", "telegram", "script"}
Verdicts == {"none", "already", "conflict", "failed", "initialized", "ok", "read",
             "refused", "restored", "unchanged", "unknown"}
Row == [pc : Steps, phase : Phases, by : Origins, want : Wanted,
        asked : Sightings \cup {NoPair}, got : Sighting \cup {NoPair},
        orig : Sightings \cup {NoPair}, todo : Seq(Helpers), done : Seq(Helpers),
        verdict : Verdicts]

InPlace(s) ==
  /\ s.phase = "refresh" => s.pc \in {"idle", "marker", "warmup", "long"}
  /\ s.phase = "check" => s.pc \in {"lock", "marker", "warmup", "long"}
  /\ s.phase \in {"apply", "undo"} => s.pc \in {"set", "confirm", "warmup", "long"}
  /\ s.phase = "plan" => s.pc \in {"marker", "warmup", "long"}
  /\ s.phase = "move" => s.pc \in {"set", "warmup", "long"}
  /\ s.phase = "settle" => s.pc \in {"warmup", "long", "turnOn", "confirmMarker"}
Patching(s) == s.phase \in {"check", "apply", "undo"}
Role(a, s) ==
  /\ a = Poller => s.phase = "refresh" /\ DOMAIN s.want = {}
  /\ a = Script => ~ Patching(s) /\ (s.phase = "refresh" => s.pc = "idle")
  /\ s.phase \in {"plan", "move", "settle"} => a = Script
Knows(s) ==
  /\ s.pc = "long" => s.got \in Sighting
  /\ s.pc \in {"set", "confirm"} => s.todo # <<>>
  /\ s.phase \notin {"apply", "undo"} => s.done = <<>>
  /\ s.phase = "apply" /\ s.pc # "set" => s.done # <<>>
  /\ Patching(s) => s.asked \in Sightings
  /\ s.phase \in {"apply", "undo"} => s.orig \in Sightings
  /\ s.phase \in {"move", "settle"} => s.want \in [Helpers -> Minutes]
  /\ s.phase = "apply" =>
       /\ \A x \in DOMAIN s.want : s.want[x] \in Minutes
       /\ \A i \in 1..Len(s.todo) :
            s.todo[i] \in DOMAIN s.want /\ s.want[s.todo[i]] # s.asked[s.todo[i]].value
Local(a, s) == s \in Row /\ InPlace(s) /\ Role(a, s) /\ Knows(s)

(* A reading is of the helper as it is or as it was before, and a helper   *)
(* that has changed shows a later time.                                    *)
Old(x, reading) ==
  /\ reading.at <= helper[x].at
  /\ reading.at = helper[x].at => reading = helper[x]
Seen(pair) == \A x \in Helpers : Old(x, pair[x])
Overtaken(pair) == \E x \in Helpers : pair[x].at < helper[x].at

Eyes(s) ==
  /\ s.pc = "long" => Old("warmup", s.got)
  /\ Patching(s) => Seen(s.asked)
  /\ s.phase = "apply" /\ s.done # <<>> => Overtaken(s.asked)

(* A patch that has read its revision will not find one that has won.      *)
Claim(s) ==
  /\ s.phase = "check" /\ s.pc = "long" =>
       \A pair \in won : pair["warmup"].at < s.got.at \/ pair["long"].at < helper["long"].at
  /\ s.phase = "apply" => s.asked \notin won

Holds(a, s) == Patching(s) /\ s.pc # "lock" => lock = a
Fresh(a, s) == a \notin disturbed /\ s.pc = "long" => s.got = helper["warmup"]

Actor(a) == LET s == ac[a] IN Local(a, s) /\ Eyes(s) /\ Claim(s) /\ Holds(a, s) /\ Fresh(a, s)

House ==
  /\ helper \in Sightings /\ stamp \in Nat
  /\ \A x \in Helpers : helper[x].at <= stamp
  /\ late \subseteq Helpers \X Minutes
  /\ marker \in BOOLEAN
Bot ==
  /\ policy \in Sightings \cup {NoPair} /\ (policy # NoPair => Seen(policy))
  /\ timers \in Sightings \cup {NoPair} /\ lastRevision \in Sightings \cup {NoPair}
  /\ failing \in BOOLEAN /\ lock \in Callers \cup {NoCaller}
  /\ \A pair \in won : pair \in Sightings /\ Overtaken(pair)

TimingInv == House /\ Bot /\ ac \in [Actors -> Row] /\ \A a \in Actors : Actor(a)

-----------------------------------------------------------------------------
(* Steps that others do not notice.                                        *)
LEMMA Constants ==
  /\ Minutes \subseteq Nat /\ Asked \subseteq Nat /\ Bare \in Minutes
  /\ NoPair \notin Sightings /\ NoWish \in Wanted /\ DOMAIN NoWish = {}
  /\ Poller \notin Callers /\ Script \notin Callers /\ Script # Poller
  /\ NoCaller \notin Actors /\ Callers \subseteq Actors
  /\ Poller \in Actors /\ Script \in Actors
<1>1. Sightings \subseteq [Helpers -> [value : Nat, at : Nat]]
  BY TimingAssumption DEF Sightings, Sighting
<1>2. NoWish \in [{} -> Minutes \cup Asked] /\ DOMAIN NoWish = {}
  BY DEF NoWish
<1>. QED  BY <1>1, <1>2, TimingAssumption DEF Wanted, Actors

LEMMA WantedFacts ==
  ASSUME NEW want \in Wanted
  PROVE  /\ DOMAIN want \subseteq Helpers
         /\ \A x \in DOMAIN want : want[x] \in Nat
<1>1. PICK H \in SUBSET Helpers : want \in [H -> Minutes \cup Asked]
  BY DEF Wanted
<1>. QED  BY <1>1, Constants

Moves(a) ==
  /\ ac' \in [Actors -> Row]
  /\ \A b \in Actors \ {a} : ac'[b] = ac[b]

\* A helper keeps its reading or has a later one.
Grows ==
  /\ helper' \in Sightings
  /\ \A x \in Helpers : helper'[x] = helper[x] \/ helper[x].at < helper'[x].at

\* Who is at work and is not disturbed has seen no helper change.
Told(a) ==
  \A b \in Actors \ {a} : b \notin disturbed' =>
    b \notin disturbed /\ (ac[b].pc = "idle" \/ helper' = helper)

Frame(a) ==
  /\ Grows /\ Told(a)
  /\ won' = won \/ (a \in Callers /\ ac[a].phase = "apply" /\ won' = won \cup {ac[a].asked})
  /\ lock' = lock \/ lock = a \/ lock = NoCaller

Answer(a) ==
  Stops(a) =>
    /\ ac'[a].verdict = "ok" => ac[a].asked \notin won
    /\ a \notin disturbed =>
         CASE ac'[a].verdict = "ok" -> Values(helper) = Expected(a)
           [] ac'[a].verdict = "restored" -> Values(helper) = Values(ac[a].orig)
           [] ac'[a].verdict \in {"conflict", "refused", "unchanged"} -> ac[a].done = <<>>
           [] OTHER -> TRUE
Answers == \A a \in Callers : Answer(a)
Modest == Verdicts \ {"ok", "restored", "conflict", "refused", "unchanged"}

LEMMA SeenStays ==
  ASSUME House, Grows
  PROVE  /\ \A x \in Helpers, reading \in Sighting : Old(x, reading) => Old(x, reading)'
         /\ \A pair \in Sightings : Seen(pair) => Seen(pair)'
         /\ \A pair \in Sightings : Overtaken(pair) => Overtaken(pair)'
<1>1. \A x \in Helpers : /\ helper[x] \in Sighting /\ helper'[x] \in Sighting
                         /\ helper[x].at \in Nat /\ helper'[x].at \in Nat
  BY DEF House, Grows, Sightings, Sighting
<1>2. ASSUME NEW x \in Helpers, NEW reading \in Sighting, Old(x, reading)
      PROVE  Old(x, reading)'
  <2>1. reading.at \in Nat
    BY DEF Sighting
  <2>. QED  BY <1>1, <1>2, <2>1 DEF Old, Grows
<1>3. \A pair \in Sightings, x \in Helpers : pair[x] \in Sighting /\ pair[x].at \in Nat
  BY DEF Sightings, Sighting
<1>4. \A pair \in Sightings : Seen(pair) => Seen(pair)'
  BY <1>2, <1>3 DEF Seen
<1>5. ASSUME NEW pair \in Sightings, Overtaken(pair)
      PROVE  Overtaken(pair)'
  <2>1. PICK x \in Helpers : pair[x].at < helper[x].at
    BY <1>5 DEF Overtaken
  <2>2. pair[x].at < helper'[x].at
    BY <1>1, <1>3, <2>1 DEF Grows
  <2>. QED  BY <2>2 DEF Overtaken
<1>. QED  BY <1>2, <1>4, <1>5

LEMMA OthersKeep ==
  ASSUME TimingInv, NEW a \in Actors, Moves(a), Frame(a), NEW b \in Actors \ {a}
  PROVE  Actor(b)'
<1>. DEFINE s == ac[b]
<1>1. s \in Row /\ Local(b, s) /\ Eyes(s) /\ Claim(s) /\ Holds(b, s) /\ Fresh(b, s)
  BY DEF TimingInv, Actor
<1>2. ac'[b] = s
  BY DEF Moves
<1>3. b # NoCaller
  BY Constants
<1>4. /\ s.pc = "long" => s.got \in Sighting
      /\ Patching(s) => s.asked \in Sightings
      /\ s.phase = "apply" => Patching(s)
      /\ s.phase = "check" => Patching(s)
  BY <1>1 DEF Local, Knows, Patching
<1>5. Local(b, s)'
  BY <1>1, <1>2 DEF Local, InPlace, Role, Knows, Patching
<1>6. Eyes(s)'
  <2>1. /\ s.pc = "long" => Old("warmup", s.got)'
        /\ Patching(s) => Seen(s.asked)'
        /\ s.phase = "apply" /\ s.done # <<>> => Overtaken(s.asked)'
    BY <1>1, <1>2, <1>4, SeenStays DEF Eyes, TimingInv, Frame, Helpers, Old, Seen, Overtaken
  <2>. QED  BY <1>2, <2>1 DEF Eyes, Patching
<1>7. Claim(s)'
  <2>1. Patching(s) /\ s.pc # "lock" => lock = b
    BY <1>1 DEF Holds
  <2>2. a \in Callers /\ ac[a].phase = "apply" => lock = a
    <3>1. Holds(a, ac[a]) /\ Local(a, ac[a])
      BY DEF TimingInv, Actor
    <3>. QED  BY <3>1 DEF Holds, Patching, Local, InPlace
  <2>3. CASE s.phase = "check" /\ s.pc = "long"
    <3>1. won' = won
      BY <1>4, <2>1, <2>2, <2>3 DEF Frame
    <3>2. \A pair \in won : pair["warmup"].at < s.got.at \/ pair["long"].at < helper["long"].at
      BY <1>1, <2>3 DEF Claim
    <3>3. \A pair \in won : pair["long"].at \in Nat
      BY DEF TimingInv, Bot, Sightings, Sighting, Helpers
    <3>4. helper["long"].at \in Nat /\ helper'["long"].at \in Nat
      BY DEF TimingInv, House, Frame, Grows, Sightings, Sighting, Helpers
    <3>5. helper["long"].at <= helper'["long"].at
      BY <3>4 DEF Frame, Grows, Helpers
    <3>6. \A pair \in won : pair["warmup"].at < s.got.at \/ pair["long"].at < helper'["long"].at
      BY <3>2, <3>3, <3>4, <3>5
    <3>. QED  BY <1>2, <2>3, <3>1, <3>6 DEF Claim
  <2>4. CASE s.phase = "apply"
    <3>1. s.pc # "lock"
      BY <1>1, <2>4 DEF Local, InPlace
    <3>2. won' = won
      BY <1>4, <2>1, <2>2, <2>4, <3>1 DEF Frame
    <3>. QED  BY <1>1, <1>2, <2>4, <3>2 DEF Claim
  <2>. QED  BY <1>2, <2>3, <2>4 DEF Claim
<1>8. Holds(b, s)'
  BY <1>1, <1>2, <1>3 DEF Holds, Patching, Frame
<1>9. Fresh(b, s)'
  <2>1. b \notin disturbed' /\ s.pc = "long" => b \notin disturbed /\ helper' = helper
    BY DEF Frame, Told
  <2>. QED  BY <1>1, <1>2, <2>1 DEF Fresh
<1>. QED  BY <1>5, <1>6, <1>7, <1>8, <1>9 DEF Actor

\* Who has stopped is at rest, with nothing to remember.
LEMMA StopDoes ==
  ASSUME TimingInv, NEW a \in Actors, NEW v \in Verdicts, Stop(a, v)
  PROVE  /\ Moves(a) /\ Actor(a)' /\ ac'[a].pc = "idle" /\ ac'[a].verdict = v
         /\ ac'[a].phase = "refresh" /\ ac'[a].want = NoWish
         /\ lock' \in {lock, NoCaller} /\ (lock' = lock \/ lock = a)
<1>. DEFINE t == [Resting EXCEPT !.verdict = v]
            u == [t EXCEPT !.got = NoPair]
<1>1. /\ t.pc = "idle" /\ u.pc = "idle" /\ u.phase = "refresh" /\ u.verdict = v
      /\ u.want = NoWish /\ u.done = <<>>
  BY DEF Resting
<1>2. Resting \in Row
  BY Constants DEF Resting, Row, Steps, Phases, Origins, Verdicts
<1>3. u \in Row
  BY <1>2 DEF Row
<1>4. ac \in [Actors -> Row]
  BY DEF TimingInv
<1>5. ac' = [ac EXCEPT ![a] = u]
  BY <1>1 DEF Stop, Become
<1>. HIDE DEF t, u
<1>6. ac'[a] = u /\ Moves(a)
  BY <1>3, <1>4, <1>5 DEF Moves
<1>7. Actor(a)'
  <2>1. Local(a, u)
    BY <1>1, <1>3, Constants DEF Local, InPlace, Role, Knows, Patching
  <2>2. (Local(a, ac[a]))'
    BY <1>6, <2>1 DEF Local, InPlace, Role, Knows, Patching
  <2>3. (Eyes(ac[a]) /\ Claim(ac[a]) /\ Holds(a, ac[a]) /\ Fresh(a, ac[a]))'
    BY <1>1, <1>6 DEF Eyes, Claim, Holds, Fresh, Patching
  <2>. QED  BY <2>2, <2>3 DEF Actor
<1>. QED  BY <1>1, <1>6, <1>7 DEF Stop

\* A step of one actor keeps the invariant when that actor fits and the rest is framed.
LEMMA ActorStep ==
  ASSUME TimingInv, NEW a \in Actors, Moves(a), Frame(a), Actor(a)', House', Bot',
         a \in Callers => Answer(a)
  PROVE  TimingInv' /\ Answers
<1>1. \A b \in Actors \ {a} : Actor(b)'
  BY OthersKeep
<1>2. \A b \in Callers \ {a} : Answer(b)
  BY Constants DEF Moves, Answer, Stops
<1>3. TimingInv'
  <2>1. \A b \in Actors : Actor(b)'
    BY <1>1
  <2>. QED  BY <2>1 DEF TimingInv, Moves
<1>. QED  BY <1>2, <1>3 DEF Answers

\* An answer that promises nothing is true.
LEMMA ModestAnswer ==
  ASSUME NEW a \in Callers, ~ Stops(a) \/ ac'[a].verdict \in Modest
  PROVE  Answer(a)
BY DEF Answer, Modest

-----------------------------------------------------------------------------
(* What is around an actor.                                                *)
LEMMA BecomeDoes ==
  ASSUME TimingInv, NEW a \in Actors, NEW rec \in Row, Become(a, rec)
  PROVE  /\ Moves(a) /\ ac'[a] \in Row
         /\ ac'[a].pc = rec.pc /\ ac'[a].phase = rec.phase /\ ac'[a].want = rec.want
         /\ ac'[a].asked = rec.asked /\ ac'[a].orig = rec.orig /\ ac'[a].todo = rec.todo
         /\ ac'[a].done = rec.done /\ ac'[a].verdict = rec.verdict
         /\ rec.pc = "long" => ac'[a].got = rec.got
<1>. DEFINE u == [rec EXCEPT !.got = NoPair]
<1>1. u \in Row /\ u.pc = rec.pc /\ u.phase = rec.phase /\ u.want = rec.want
      /\ u.asked = rec.asked /\ u.orig = rec.orig /\ u.todo = rec.todo
      /\ u.done = rec.done /\ u.verdict = rec.verdict
  BY DEF Row
<1>2. ac \in [Actors -> Row]
  BY DEF TimingInv
<1>3. ac' = [ac EXCEPT ![a] = IF rec.pc = "long" THEN rec ELSE u]
  BY DEF Become
<1>. HIDE DEF u
<1>4. ac'[a] = (IF rec.pc = "long" THEN rec ELSE u) /\ Moves(a)
  BY <1>1, <1>2, <1>3 DEF Moves
<1>. QED  BY <1>1, <1>4

LEMMA QuietFrame ==
  ASSUME TimingInv, NEW a \in Actors, helper' = helper, won' = won,
         disturbed \subseteq disturbed' \cup {a},
         lock' = lock \/ lock = a \/ lock = NoCaller
  PROVE  Frame(a)
BY DEF Frame, Grows, Told, TimingInv, House

LEMMA StillGrows ==
  ASSUME TimingInv, helper' = helper
  PROVE  Grows
BY DEF Grows, TimingInv, House

LEMMA HouseStays ==
  ASSUME TimingInv, UNCHANGED haVars
  PROVE  House'
BY DEF TimingInv, House, haVars

LEMMA TakeOverDoes ==
  ASSUME TimingInv, NEW a \in Actors, policy' \in Sightings \cup {NoPair}, TakeOver(a)
  PROVE  /\ timers' \in Sightings \cup {NoPair}
         /\ lastRevision' \in Sightings \cup {NoPair}
BY DEF TakeOver, Reschedule, KeepTimers, TimingInv, Bot

LEMMA BotStays ==
  ASSUME TimingInv, Grows, failing' \in BOOLEAN,
         \A pair \in won' : pair \in won \/ (pair \in Sightings /\ Overtaken(pair)),
         lock' \in Callers \cup {NoCaller},
         policy' = policy \/ policy' = NoPair \/ (policy' \in Sightings /\ Seen(policy')),
         helper' = helper \/ policy' \in {policy, NoPair},
         timers' \in Sightings \cup {NoPair}, lastRevision' \in Sightings \cup {NoPair}
  PROVE  Bot'
<1>1. \A pair \in won' : pair \in Sightings /\ Overtaken(pair)'
  BY SeenStays DEF TimingInv, Bot, Overtaken
<1>2. policy' \in Sightings \cup {NoPair}
  BY DEF TimingInv, Bot
<1>3. policy' # NoPair => Seen(policy)'
  <2>1. CASE policy' = policy
    <3>1. policy # NoPair => policy \in Sightings /\ Seen(policy)
      BY DEF TimingInv, Bot
    <3>2. \A pair \in Sightings : Seen(pair) => \A x \in Helpers : Old(x, pair[x])'
      BY SeenStays DEF TimingInv, Seen, Old
    <3>. QED  BY <2>1, <3>1, <3>2 DEF Seen, Old
  <2>2. CASE policy' \in Sightings /\ Seen(policy') /\ helper' = helper
    BY <2>2 DEF Seen, Old
  <2>. QED  BY <2>1, <2>2
<1>. QED  BY <1>1, <1>2, <1>3 DEF Bot, Overtaken

LEMMA BotQuiet ==
  ASSUME TimingInv, Grows, won' = won, UNCHANGED botVars, lock' \in Callers \cup {NoCaller}
  PROVE  Bot'
BY BotStays DEF TimingInv, Bot, botVars

\* The pair that an actor has read.
LEMMA PairKnown ==
  ASSUME TimingInv, NEW a \in Actors, ac[a].pc = "long"
  PROVE  /\ PairRead(a) \in Sightings /\ Seen(PairRead(a))
         /\ PairRead(a)["warmup"] = ac[a].got /\ PairRead(a)["long"] = helper["long"]
         /\ a \notin disturbed => PairRead(a) = helper
<1>. DEFINE pair == PairRead(a)
<1>1. ac[a].got \in Sighting /\ Old("warmup", ac[a].got)
      /\ (a \notin disturbed => ac[a].got = helper["warmup"])
  BY DEF TimingInv, Actor, Local, Knows, Eyes, Fresh
<1>2. helper \in Sightings /\ \A x \in Helpers : helper[x].at \in Nat
  BY DEF TimingInv, House, Sightings, Sighting
<1>3. pair \in Sightings
  BY <1>1, <1>2 DEF PairRead, Sightings
<1>4. pair["warmup"] = ac[a].got /\ pair["long"] = helper["long"]
  BY <1>2 DEF PairRead, Sightings, Helpers
<1>5. Old("warmup", pair["warmup"]) /\ Old("long", pair["long"])
  BY <1>1, <1>2, <1>4 DEF Old, Helpers
<1>6. Seen(pair)
  BY <1>5 DEF Seen, Helpers
<1>7. a \notin disturbed => pair = helper
  BY <1>1, <1>2 DEF PairRead, Sightings, Helpers
<1>. QED  BY <1>3, <1>4, <1>6, <1>7

\* Who stops with a verdict that promises nothing and touches no helper.
LEMMA StopKeeps ==
  ASSUME TimingInv, NEW a \in Actors, NEW v \in Modest, Stop(a, v),
         Frame(a), won' = won, House', failing' \in BOOLEAN,
         policy' = policy \/ policy' = NoPair \/ (policy' \in Sightings /\ Seen(policy')),
         helper' = helper \/ policy' \in {policy, NoPair},
         timers' \in Sightings \cup {NoPair}, lastRevision' \in Sightings \cup {NoPair}
  PROVE  TimingInv' /\ Answers
<1>1. v \in Verdicts
  BY DEF Modest
<1>2. Moves(a) /\ Actor(a)' /\ ac'[a].verdict = v /\ lock' \in {lock, NoCaller}
  BY <1>1, StopDoes
<1>3. Grows /\ lock' \in Callers \cup {NoCaller}
  BY <1>2 DEF Frame, TimingInv, Bot
<1>4. Bot'
  BY <1>3, BotStays
<1>5. a \in Callers => Answer(a)
  BY <1>2, ModestAnswer
<1>. QED  BY <1>2, <1>4, <1>5, ActorStep

\* Who goes on, not to the answer of the second read.
LEMMA GoesOn ==
  ASSUME TimingInv, NEW a \in Actors, NEW rec \in Row, Become(a, rec), Local(a, rec),
         rec.pc \notin {"idle", "long"}, Frame(a), House', Bot',
         Patching(rec) => Seen(rec.asked),
         Patching(rec) /\ rec.pc # "lock" => lock' = a,
         rec.phase = "apply" => rec.asked \notin won',
         rec.phase = "apply" /\ rec.done # <<>> =>
           \E x \in Helpers : rec.asked[x].at < helper'[x].at
  PROVE  TimingInv' /\ Answers
<1>. DEFINE s == ac'[a]
<1>1. /\ Moves(a) /\ s \in Row
      /\ s.pc = rec.pc /\ s.phase = rec.phase /\ s.want = rec.want /\ s.asked = rec.asked
      /\ s.orig = rec.orig /\ s.todo = rec.todo /\ s.done = rec.done
  BY BecomeDoes
<1>2. Local(a, ac[a])'
  BY <1>1 DEF Local, InPlace, Role, Knows, Patching
<1>3. Patching(rec) => rec.asked \in Sightings
  BY DEF Local, Knows
<1>4. Eyes(ac[a])'
  <2>1. Patching(rec) => \A x \in Helpers : Old(x, rec.asked[x])'
    BY <1>3, SeenStays DEF TimingInv, Frame, Seen, Old
  <2>2. Patching(ac[a])' => Seen(ac[a].asked)'
    BY <1>1, <2>1 DEF Patching, Seen, Old
  <2>. QED  BY <1>1, <2>2 DEF Eyes, Overtaken
<1>5. Claim(ac[a])'
  BY <1>1 DEF Claim
<1>6. Holds(a, ac[a])' /\ Fresh(a, ac[a])'
  BY <1>1 DEF Holds, Fresh, Patching
<1>7. Actor(a)'
  BY <1>2, <1>4, <1>5, <1>6 DEF Actor
<1>8. a \in Callers => Answer(a)
  BY <1>1 DEF Answer, Stops
<1>. QED  BY <1>1, <1>7, <1>8, ActorStep

LEMMA ActorKnown ==
  ASSUME TimingInv, NEW a \in Actors
  PROVE  /\ ac[a] \in Row /\ Local(a, ac[a]) /\ Eyes(ac[a]) /\ Claim(ac[a])
         /\ Holds(a, ac[a]) /\ Fresh(a, ac[a])
         /\ DOMAIN ac[a].want \subseteq Helpers
BY WantedFacts DEF TimingInv, Actor, Row

LEMMA Backwards ==
  ASSUME NEW s \in Seq(Helpers), s # <<>>
  PROVE  Reverse(s) \in Seq(Helpers) /\ Reverse(s) # <<>>
<1>1. Reverse(s) \in Seq(Helpers) /\ Len(Reverse(s)) = Len(s)
  BY DEF Reverse
<1>. QED  BY <1>1

LEMMA UnknownKeeps ==
  ASSUME TimingInv, NEW a \in Actors, MarkUnknown(a), Frame(a), won' = won, House'
  PROVE  TimingInv' /\ Answers
BY StopKeeps DEF MarkUnknown, Modest, Verdicts, TimingInv, Bot

LEMMA CheckKeeps ==
  ASSUME TimingInv, NEW a \in Actors, CheckFails(a), Frame(a), won' = won, House'
  PROVE  TimingInv' /\ Answers
BY StopKeeps DEF CheckFails, Modest, Verdicts, botVars, TimingInv, Bot

LEMMA RefreshFailsKeeps ==
  ASSUME TimingInv, NEW a \in Actors, RefreshFails(a), Frame(a), won' = won, House'
  PROVE  TimingInv' /\ Answers
<1>1. policy' = policy /\ policy' \in Sightings \cup {NoPair}
  BY DEF RefreshFails, TimingInv, Bot
<1>2. timers' \in Sightings \cup {NoPair} /\ lastRevision' \in Sightings \cup {NoPair}
  BY <1>1, TakeOverDoes DEF RefreshFails, TimingInv, Bot
<1>. QED  BY <1>1, <1>2, StopKeeps DEF RefreshFails, Modest, Verdicts

\* The patch turns to its rollback, with the helpers it has tried to write.
LEMMA TurnsBack ==
  ASSUME TimingInv, NEW a \in Actors, ac[a].phase = "apply", NEW rec \in Row, Become(a, rec),
         rec.phase = "undo", rec.pc = "set", rec.todo # <<>>,
         rec.asked = ac[a].asked, rec.orig = ac[a].orig,
         UNCHANGED <<botVars, lock>>, Frame(a), won' = won, House'
  PROVE  TimingInv' /\ Answers
<1>1. Local(a, ac[a]) /\ Eyes(ac[a]) /\ Holds(a, ac[a])
  BY ActorKnown
<1>2. /\ ac[a].asked \in Sightings /\ ac[a].orig \in Sightings /\ Seen(ac[a].asked)
      /\ lock = a /\ a # Poller /\ a # Script
  BY <1>1 DEF Local, InPlace, Role, Knows, Eyes, Holds, Patching
<1>3. Local(a, rec)
  BY <1>2 DEF Local, InPlace, Role, Knows, Patching
<1>4. Bot'
  BY BotQuiet DEF Frame, TimingInv, Bot
<1>. QED  BY <1>2, <1>3, <1>4, GoesOn DEF Patching

LEMMA FailsKeep ==
  ASSUME TimingInv, NEW a \in Actors, Fails(a), Frame(a), won' = won, House',
         ac[a].phase = "apply" => ac[a].pc # "set"
  PROVE  TimingInv' /\ Answers
<1>1. CASE StartRollback(a)
  <2>. DEFINE rec == [ac[a] EXCEPT !.phase = "undo", !.pc = "set", !.todo = Reverse(ac[a].done)]
  <2>1. ac[a] \in Row /\ ac[a].done \in Seq(Helpers) /\ ac[a].done # <<>>
    BY <1>1, ActorKnown DEF StartRollback, Local, Knows, Row
  <2>2. Reverse(ac[a].done) \in Seq(Helpers) /\ Reverse(ac[a].done) # <<>>
    BY <2>1, Backwards
  <2>3. rec \in Row /\ rec.phase = "undo" /\ rec.pc = "set" /\ rec.todo # <<>>
        /\ rec.asked = ac[a].asked /\ rec.orig = ac[a].orig
    BY <2>1, <2>2 DEF Row, Phases, Steps
  <2>4. Become(a, rec) /\ ac[a].phase = "apply" /\ UNCHANGED <<botVars, lock>>
    BY <1>1 DEF StartRollback
  <2>. HIDE DEF rec
  <2>. QED  BY <2>3, <2>4, TurnsBack
<1>. QED  BY <1>1, UnknownKeeps, CheckKeeps, RefreshFailsKeeps DEF Fails

LEMMA CallFailsKeeps ==
  ASSUME TimingInv, NEW a \in Actors, CallFails(a)
  PROVE  TimingInv' /\ Answers
<1>1. Fails(a) /\ ac[a].pc # "set" /\ UNCHANGED haVars /\ won' = won /\ disturbed' = disturbed
  BY DEF CallFails
<1>2. House' /\ helper' = helper
  BY <1>1, HouseStays DEF haVars
<1>3. lock' = lock \/ lock = a
  BY <1>1 DEF Fails, RefreshFails, CheckFails, StartRollback, MarkUnknown, Stop
<1>4. Frame(a)
  BY <1>1, <1>2, <1>3, QuietFrame
<1>. QED  BY <1>1, <1>2, <1>4, FailsKeep

-----------------------------------------------------------------------------
(* Calls begin, the world changes, the program starts again.               *)
LEMMA Beginnings ==
  /\ Resting \in Row
  /\ Wishes \subseteq Wanted
  /\ \A a \in Actors : a \notin Callers => a = Poller \/ a = Script
<1>1. Resting \in Row
  BY Constants DEF Resting, Row, Steps, Phases, Origins, Verdicts
<1>2. ASSUME NEW want \in Wishes
      PROVE  want \in Wanted
  <2>1. PICK H \in SUBSET Helpers : want \in [H -> Asked]
    BY <1>2 DEF Wishes
  <2>2. want \in [H -> Minutes \cup Asked]
    BY <2>1
  <2>. QED  BY <2>2 DEF Wanted
<1>. QED  BY <1>1, <1>2 DEF Actors

LEMMA StartKeeps ==
  ASSUME TimingInv, NEW a \in Actors, NEW rec \in Row, Start(a, rec), Local(a, rec),
         rec.pc \notin {"idle", "long"}, rec.phase # "apply",
         Patching(rec) => Seen(rec.asked) /\ rec.pc = "lock"
  PROVE  TimingInv' /\ Answers
<1>1. /\ Become(a, rec) /\ disturbed' = disturbed \ {a} /\ won' = won /\ lock' = lock
      /\ UNCHANGED haVars /\ UNCHANGED botVars
  BY DEF Start
<1>2. House' /\ helper' = helper /\ Grows
  BY <1>1, HouseStays, StillGrows DEF haVars
<1>3. Frame(a)
  BY <1>1, <1>2, QuietFrame
<1>4. Bot'
  BY <1>1, <1>2, BotQuiet DEF TimingInv, Bot
<1>. QED  BY <1>1, <1>2, <1>3, <1>4, GoesOn

LEMMA ClientKeeps ==
  ASSUME TimingInv, NEW a \in Callers, Client(a)
  PROVE  TimingInv' /\ Answers
<1>0. a \in Actors /\ a # Poller /\ a # Script /\ DOMAIN NoWish = {}
  BY Constants
<1>1. CASE Refresh(a)
  <2>. DEFINE rec == [Resting EXCEPT !.pc = "marker"]
  <2>1. rec \in Row /\ rec.pc = "marker" /\ rec.phase = "refresh" /\ rec.done = <<>>
        /\ rec.want = NoWish
    BY Beginnings DEF Resting, Row, Steps
  <2>2. Start(a, rec)
    BY <1>1 DEF Refresh
  <2>. HIDE DEF rec
  <2>3. Local(a, rec)
    BY <1>0, <2>1 DEF Local, InPlace, Role, Knows, Patching
  <2>. QED  BY <1>0, <2>1, <2>2, <2>3, StartKeeps DEF Patching
<1>2. ASSUME NEW want \in Wishes, TelegramSet(a, want)
      PROVE  TimingInv' /\ Answers
  <2>. DEFINE rec == [Resting EXCEPT !.pc = "marker", !.by = "telegram", !.want = want]
  <2>1. rec \in Row /\ rec.pc = "marker" /\ rec.phase = "refresh" /\ rec.done = <<>>
    BY Beginnings DEF Resting, Row, Steps, Origins
  <2>2. Start(a, rec)
    BY <1>2 DEF TelegramSet
  <2>. HIDE DEF rec
  <2>3. Local(a, rec)
    BY <1>0, <2>1 DEF Local, InPlace, Role, Knows, Patching
  <2>. QED  BY <1>0, <2>1, <2>2, <2>3, StartKeeps DEF Patching
<1>3. ASSUME NEW want \in Wishes, PatchMinutes(a, want)
      PROVE  TimingInv' /\ Answers
  <2>. DEFINE rec == [Resting EXCEPT !.pc = "lock", !.phase = "check", !.want = want,
                                     !.asked = policy]
  <2>1. policy \in Sightings /\ Seen(policy)
    BY <1>3 DEF PatchMinutes, TimingInv, Bot
  <2>2. rec \in Row /\ rec.pc = "lock" /\ rec.phase = "check" /\ rec.done = <<>>
        /\ rec.asked = policy
    BY <2>1, Beginnings DEF Resting, Row, Steps, Phases
  <2>3. Start(a, rec)
    BY <1>3 DEF PatchMinutes
  <2>. HIDE DEF rec
  <2>4. Local(a, rec)
    BY <1>0, <2>1, <2>2 DEF Local, InPlace, Role, Knows, Patching
  <2>. QED  BY <1>0, <2>1, <2>2, <2>3, <2>4, StartKeeps
<1>. QED  BY <1>1, <1>2, <1>3 DEF Client

LEMMA PollKeeps ==
  ASSUME TimingInv, Poll
  PROVE  TimingInv' /\ Answers
<1>. DEFINE rec == [Resting EXCEPT !.pc = "marker", !.by = "poll"]
<1>0. Poller \in Actors /\ Poller # Script /\ DOMAIN NoWish = {}
  BY Constants
<1>1. rec \in Row /\ rec.pc = "marker" /\ rec.phase = "refresh" /\ rec.done = <<>>
      /\ rec.want = NoWish
  BY Beginnings DEF Resting, Row, Steps, Origins
<1>2. Start(Poller, rec)
  BY DEF Poll
<1>. HIDE DEF rec
<1>3. Local(Poller, rec)
  BY <1>0, <1>1 DEF Local, InPlace, Role, Knows, Patching
<1>. QED  BY <1>0, <1>1, <1>2, <1>3, StartKeeps DEF Patching

LEMMA MigrateKeeps ==
  ASSUME TimingInv, Migrate
  PROVE  TimingInv' /\ Answers
<1>. DEFINE rec == [Resting EXCEPT !.pc = "marker", !.phase = "plan", !.by = "script"]
<1>0. Script \in Actors /\ Poller # Script
  BY Constants
<1>1. rec \in Row /\ rec.pc = "marker" /\ rec.phase = "plan" /\ rec.done = <<>>
  BY Beginnings DEF Resting, Row, Steps, Phases, Origins
<1>2. Start(Script, rec)
  BY DEF Migrate
<1>. HIDE DEF rec
<1>3. Local(Script, rec)
  BY <1>0, <1>1 DEF Local, InPlace, Role, Knows, Patching
<1>. QED  BY <1>0, <1>1, <1>2, <1>3, StartKeeps DEF Patching

\* A step of nobody at work.
LEMMA WorldStep ==
  ASSUME TimingInv, ac' = ac, Frame(Poller), Frame(Script), House', Bot'
  PROVE  TimingInv' /\ Answers
<1>1. Poller \in Actors /\ Script \in Actors /\ Poller # Script
  BY Constants
<1>2. Moves(Poller) /\ Moves(Script)
  BY DEF Moves, TimingInv
<1>3. \A b \in Actors \ {Poller} : Actor(b)'
  BY <1>1, <1>2, OthersKeep
<1>4. Actor(Poller)'
  BY <1>1, <1>2, OthersKeep
<1>5. Answers
  BY DEF Answers, Answer, Stops
<1>6. \A b \in Actors : Actor(b)'
  BY <1>3, <1>4
<1>. QED  BY <1>2, <1>5, <1>6 DEF TimingInv, Moves

LEMMA ChangeDoes ==
  ASSUME TimingInv, NEW x \in Helpers, NEW v \in Minutes, Change(x, v)
  PROVE  /\ Grows /\ stamp' \in Nat /\ \A y \in Helpers : helper'[y].at <= stamp'
         /\ helper'[x].value = v
         /\ \A y \in Helpers \ {x} : helper'[y] = helper[y]
<1>1. /\ helper \in Sightings /\ stamp \in Nat
      /\ \A y \in Helpers : /\ helper[y] \in Sighting /\ helper[y].at \in Nat
                            /\ helper[y].at <= stamp
  BY DEF TimingInv, House, Sightings, Sighting
<1>2. CASE helper[x].value = v
  BY <1>1, <1>2 DEF Change, Wrote, Grows
<1>3. CASE helper[x].value # v
  <2>. DEFINE new == [value |-> v, at |-> stamp + 1]
  <2>1. new \in Sighting /\ new.at = stamp + 1 /\ new.value = v
    BY <1>1 DEF Sighting
  <2>2. helper' = [helper EXCEPT ![x] = new] /\ stamp' = stamp + 1
    BY <1>3 DEF Change, Wrote
  <2>. HIDE DEF new
  <2>3. helper'[x] = new /\ \A y \in Helpers \ {x} : helper'[y] = helper[y]
    BY <1>1, <2>2 DEF Sightings
  <2>4. helper' \in Sightings
    BY <1>1, <2>1, <2>2 DEF Sightings
  <2>5. Grows
    BY <1>1, <2>1, <2>3, <2>4 DEF Grows
  <2>. QED  BY <1>1, <2>1, <2>2, <2>3, <2>5
<1>. QED  BY <1>2, <1>3

LEMMA WorldKeeps ==
  ASSUME TimingInv,
         \/ \E x \in Helpers, v \in Minutes : OthersSet(x, v)
         \/ \E w \in late : Arrive(w)
  PROVE  TimingInv' /\ Answers
<1>1. PICK x \in Helpers, v \in Minutes :
        /\ Change(x, v) /\ late' \subseteq late /\ disturbed' = OthersAtWork(NoCaller)
        /\ UNCHANGED <<marker, botVars, lock, ac, won>>
  BY DEF OthersSet, Arrive, TimingInv, House
<1>2. Grows /\ stamp' \in Nat /\ \A y \in Helpers : helper'[y].at <= stamp'
  BY <1>1, ChangeDoes
<1>3. House'
  BY <1>1, <1>2 DEF House, Grows, TimingInv
<1>4. Bot'
  BY <1>1, <1>2, BotQuiet DEF TimingInv, Bot
<1>5. Told(Poller) /\ Told(Script)
  BY <1>1, Constants DEF Told, OthersAtWork
<1>. QED  BY <1>1, <1>2, <1>3, <1>4, <1>5, WorldStep DEF Frame

LEMMA ToggleKeeps ==
  ASSUME TimingInv, Toggle
  PROVE  TimingInv' /\ Answers
<1>1. /\ UNCHANGED <<haVars, policy, failing, lastRevision, lock, ac, won, disturbed>>
      /\ timers' = policy
  BY DEF Toggle, Reschedule
<1>2. House' /\ helper' = helper /\ Grows
  BY <1>1, HouseStays, StillGrows DEF haVars
<1>3. Bot'
  BY <1>1, <1>2, BotStays DEF TimingInv, Bot
<1>4. Frame(Poller) /\ Frame(Script)
  BY <1>1, <1>2, QuietFrame, Constants
<1>. QED  BY <1>1, <1>2, <1>3, <1>4, WorldStep

LEMMA RestartKeeps ==
  ASSUME TimingInv, Restart
  PROVE  TimingInv' /\ Answers
<1>. DEFINE boot == [Resting EXCEPT !.pc = "marker", !.by = "boot"]
<1>0. boot \in Row /\ boot.pc = "marker" /\ boot.phase = "refresh" /\ boot.done = <<>>
      /\ boot.want = NoWish /\ DOMAIN NoWish = {}
  BY Beginnings, Constants DEF Resting, Row, Steps, Origins
<1>1. /\ Resting \in Row /\ Resting.pc = "idle" /\ Resting.phase = "refresh"
      /\ Resting.done = <<>> /\ Resting.want = NoWish /\ Resting.verdict = "none"
  BY Beginnings DEF Resting
<1>2. ac' = [a \in Actors |-> IF a = Script THEN ac[a] ELSE IF a = Poller THEN boot ELSE Resting]
  BY Constants DEF Restart
<1>3. Script \in Actors /\ Poller # Script /\ ac[Script] \in Row
  BY Constants, ActorKnown
<1>. HIDE DEF boot
<1>4. ac' \in [Actors -> Row]
  BY <1>0, <1>1, <1>2, <1>3 DEF TimingInv
<1>5. UNCHANGED haVars /\ House' /\ helper' = helper /\ Grows /\ won' = won
  BY HouseStays, StillGrows DEF Restart, haVars
<1>6. Bot'
  BY <1>5, BotStays DEF Restart
<1>7. Actor(Script)'
  <2>1. ac'[Script] = ac[Script]
    BY <1>2, <1>3
  <2>2. Local(Script, ac[Script]) /\ Eyes(ac[Script]) /\ Fresh(Script, ac[Script])
    BY <1>3, ActorKnown
  <2>3. ~ Patching(ac[Script])
    BY <2>2 DEF Local, Role
  <2>4. Local(Script, ac[Script])'
    BY <2>1, <2>2 DEF Local, InPlace, Role, Knows, Patching
  <2>5. Eyes(ac[Script])' /\ Claim(ac[Script])' /\ Holds(Script, ac[Script])'
    BY <1>5, <2>1, <2>2, <2>3 DEF Eyes, Claim, Holds, Patching, Old
  <2>6. Fresh(Script, ac[Script])'
    BY <1>5, <2>1, <2>2 DEF Fresh, Restart
  <2>. QED  BY <2>4, <2>5, <2>6 DEF Actor
<1>8. ASSUME NEW a \in Actors, a # Script
      PROVE  Actor(a)'
  <2>1. ac'[a] \in {boot, Resting} /\ (a = Poller \/ ac'[a] = Resting)
    BY <1>2, <1>8
  <2>2. Local(a, ac[a])'
    BY <1>0, <1>1, <1>8, <2>1 DEF Local, InPlace, Role, Knows, Patching
  <2>3. (Eyes(ac[a]) /\ Claim(ac[a]) /\ Holds(a, ac[a]) /\ Fresh(a, ac[a]))'
    BY <1>0, <1>1, <2>1 DEF Eyes, Claim, Holds, Fresh, Patching
  <2>. QED  BY <2>2, <2>3 DEF Actor
<1>9. Answers
  <2>1. \A a \in Callers : ac'[a].verdict = "none"
    BY <1>1, <1>2, Constants
  <2>. QED  BY <2>1 DEF Answers, Answer
<1>. QED  BY <1>4, <1>5, <1>6, <1>7, <1>8, <1>9 DEF TimingInv

-----------------------------------------------------------------------------
(* The steps of a call.                                                    *)
LEMMA StillFrame ==
  ASSUME TimingInv, NEW a \in Actors, UNCHANGED haVars, disturbed' = disturbed
  PROVE  /\ House' /\ helper' = helper /\ Grows
         /\ won' = won /\ (lock' = lock \/ lock = a \/ lock = NoCaller) => Frame(a)
<1>1. House' /\ helper' = helper /\ Grows
  BY HouseStays, StillGrows DEF haVars
<1>. QED  BY <1>1, QuietFrame

LEMMA LockKeeps ==
  ASSUME TimingInv, NEW a \in Actors, Lock(a)
  PROVE  TimingInv' /\ Answers
<1>. DEFINE rec == [ac[a] EXCEPT !.pc = "marker"]
<1>1. ac[a] \in Row /\ Local(a, ac[a]) /\ Eyes(ac[a]) /\ ac[a].pc = "lock"
  BY ActorKnown DEF Lock
<1>2. /\ ac[a].phase = "check" /\ ac[a].done = <<>> /\ ac[a].asked \in Sightings
      /\ Seen(ac[a].asked) /\ a # Poller /\ a # Script
  BY <1>1 DEF Local, InPlace, Role, Knows, Eyes, Patching, Row, Phases
<1>3. /\ rec \in Row /\ rec.pc = "marker" /\ rec.phase = "check" /\ rec.done = <<>>
      /\ rec.asked = ac[a].asked
  BY <1>1, <1>2 DEF Row, Steps
<1>4. Become(a, rec) /\ lock' = a /\ lock = NoCaller /\ UNCHANGED <<haVars, botVars, won, disturbed>>
  BY DEF Lock, Goto
<1>. HIDE DEF rec
<1>5. Local(a, rec)
  BY <1>2, <1>3 DEF Local, InPlace, Role, Knows, Patching
<1>6. House' /\ Grows /\ Frame(a)
  BY <1>4, StillFrame
<1>7. lock' \in Callers
  BY <1>2, <1>4, Beginnings
<1>8. Bot'
  BY <1>4, <1>6, <1>7, BotQuiet
<1>. QED  BY <1>2, <1>3, <1>4, <1>5, <1>6, <1>8, GoesOn

LEMMA AskMarkerKeeps ==
  ASSUME TimingInv, NEW a \in Actors, AskMarker(a)
  PROVE  TimingInv' /\ Answers
<1>0. /\ ac[a].pc = "marker" /\ won' = won /\ House' /\ helper' = helper /\ Grows
      /\ (lock' = lock \/ lock = a \/ lock = NoCaller => Frame(a))
  BY StillFrame DEF AskMarker
<1>1. ac[a] \in Row /\ Local(a, ac[a]) /\ Eyes(ac[a]) /\ Holds(a, ac[a])
  BY ActorKnown
<1>2. ac[a].phase \in {"refresh", "check", "plan"} /\ ac[a].done = <<>>
  BY <1>0, <1>1 DEF Local, InPlace, Knows, Row, Phases
<1>3. CASE Become(a, Goto(a, "warmup")) /\ UNCHANGED <<botVars, lock>>
  <2>. DEFINE rec == [ac[a] EXCEPT !.pc = "warmup"]
  <2>1. /\ rec \in Row /\ rec.pc = "warmup" /\ rec.phase = ac[a].phase /\ rec.done = <<>>
        /\ rec.asked = ac[a].asked /\ rec.want = ac[a].want
    BY <1>1, <1>2 DEF Row, Steps
  <2>2. Become(a, rec)
    BY <1>3 DEF Goto
  <2>. HIDE DEF rec
  <2>3. Local(a, rec)
    BY <1>0, <1>1, <1>2, <2>1 DEF Local, InPlace, Role, Knows, Patching
  <2>4. Bot'
    BY <1>0, <1>3, BotQuiet DEF TimingInv, Bot
  <2>5. Patching(rec) => Seen(rec.asked) /\ lock' = a
    BY <1>0, <1>1, <1>3, <2>1 DEF Eyes, Holds, Patching
  <2>. QED  BY <1>0, <1>2, <1>3, <2>1, <2>2, <2>3, <2>4, <2>5, GoesOn
<1>4. CASE Fails(a)
  <2>1. lock' = lock \/ lock = a
    BY <1>4 DEF Fails, RefreshFails, CheckFails, StartRollback, MarkUnknown, Stop
  <2>. QED  BY <1>0, <1>4, <2>1, FailsKeep
<1>5. CASE Stop(a, "already") /\ UNCHANGED botVars
  <2>1. lock' = lock \/ lock = a
    BY <1>5 DEF Stop
  <2>. QED  BY <1>0, <1>5, <2>1, StopKeeps DEF Modest, Verdicts, botVars, TimingInv, Bot
<1>. QED  BY <1>3, <1>4, <1>5 DEF AskMarker

LEMMA ReadWarmupKeeps ==
  ASSUME TimingInv, NEW a \in Actors, ReadWarmup(a)
  PROVE  TimingInv' /\ Answers
<1>. DEFINE rec == [ac[a] EXCEPT !.pc = "long", !.got = helper["warmup"]]
<1>1. ac[a] \in Row /\ Local(a, ac[a]) /\ Eyes(ac[a]) /\ Claim(ac[a]) /\ Holds(a, ac[a])
      /\ ac[a].pc = "warmup"
  BY ActorKnown DEF ReadWarmup
<1>2. helper["warmup"] \in Sighting /\ helper["warmup"].at \in Nat
  BY DEF TimingInv, House, Sightings, Sighting, Helpers
<1>3. /\ rec \in Row /\ rec.pc = "long" /\ rec.phase = ac[a].phase /\ rec.done = ac[a].done
      /\ rec.asked = ac[a].asked /\ rec.want = ac[a].want /\ rec.orig = ac[a].orig
      /\ rec.todo = ac[a].todo /\ rec.got = helper["warmup"]
  BY <1>1, <1>2 DEF Row, Steps
<1>4. Become(a, rec) /\ UNCHANGED <<haVars, botVars, lock, won, disturbed>>
  BY DEF ReadWarmup
<1>. HIDE DEF rec
<1>5. Local(a, rec)
  BY <1>1, <1>2, <1>3 DEF Local, InPlace, Role, Knows, Patching
<1>6. House' /\ Grows /\ Frame(a) /\ helper' = helper /\ won' = won
  BY <1>4, StillFrame
<1>7. Bot'
  BY <1>4, <1>6, BotQuiet DEF TimingInv, Bot
<1>8. /\ Moves(a) /\ ac'[a] \in Row
      /\ ac'[a].pc = rec.pc /\ ac'[a].phase = rec.phase /\ ac'[a].want = rec.want
      /\ ac'[a].asked = rec.asked /\ ac'[a].orig = rec.orig /\ ac'[a].todo = rec.todo
      /\ ac'[a].done = rec.done /\ ac'[a].got = rec.got
  BY <1>3, <1>4, BecomeDoes
<1>9. Actor(a)'
  <2>1. Local(a, ac[a])'
    BY <1>5, <1>8 DEF Local, InPlace, Role, Knows, Patching
  <2>2. Old("warmup", ac[a].got)'
    BY <1>2, <1>3, <1>6, <1>8 DEF Old
  <2>3. Eyes(ac[a])'
    BY <1>1, <1>3, <1>6, <1>8, <2>2 DEF Eyes, Seen, Overtaken, Old, Patching
  <2>4. Claim(ac[a])'
    <3>1. \A pair \in won : pair["warmup"].at < helper["warmup"].at \/ pair["long"].at < helper["long"].at
      BY DEF TimingInv, Bot, Overtaken, Helpers
    <3>. QED  BY <1>1, <1>3, <1>6, <1>8, <3>1 DEF Claim
  <2>5. Holds(a, ac[a])' /\ Fresh(a, ac[a])'
    BY <1>1, <1>3, <1>4, <1>6, <1>8 DEF Holds, Fresh, Patching
  <2>. QED  BY <2>1, <2>3, <2>4, <2>5 DEF Actor
<1>10. a \in Callers => Answer(a)
  BY <1>3, <1>8 DEF Answer, Stops
<1>. QED  BY <1>6, <1>7, <1>8, <1>9, <1>10, ActorStep

-----------------------------------------------------------------------------
(* The second answer of a read, by what the reader does with the pair.     *)

\* A reader with the answer: what it knows, and that its step leaves the helpers alone.
Reads(a) ==
  /\ ac[a].pc = "long"
  /\ UNCHANGED <<haVars, disturbed>>

LEMMA ReaderKnown ==
  ASSUME TimingInv, NEW a \in Actors, Reads(a)
  PROVE  /\ ac[a] \in Row /\ Local(a, ac[a]) /\ Eyes(ac[a]) /\ Claim(ac[a]) /\ Holds(a, ac[a])
         /\ House' /\ helper' = helper /\ Grows
         /\ (won' = won /\ (lock' = lock \/ lock = a)) => Frame(a)
BY ActorKnown, StillFrame DEF Reads

LEMMA EndRefreshKeeps ==
  ASSUME TimingInv, NEW a \in Actors, Reads(a), EndRefresh(a, PairRead(a))
  PROVE  TimingInv' /\ Answers
<1>1. PairRead(a) \in Sightings /\ Seen(PairRead(a))
  BY PairKnown DEF Reads
<1>2. PICK pair \in Sightings : pair = PairRead(a) /\ Seen(pair)
  BY <1>1
<1>3. policy' = pair /\ failing' = FALSE /\ TakeOver(a) /\ won' = won /\ ac[a].phase = "refresh"
  BY <1>2 DEF EndRefresh, Publish
<1>4. timers' \in Sightings \cup {NoPair} /\ lastRevision' \in Sightings \cup {NoPair}
  BY <1>3, TakeOverDoes
<1>5. House' /\ helper' = helper /\ Grows /\ Local(a, ac[a]) /\ ac[a] \in Row
  BY ReaderKnown
<1>6. CASE DOMAIN ac[a].want = {}
  <2>1. Stop(a, "read") /\ (lock' = lock \/ lock = a)
    BY <1>6 DEF EndRefresh, Stop
  <2>2. Frame(a)
    BY <1>3, <2>1, ReaderKnown
  <2>. QED  BY <1>2, <1>3, <1>4, <1>5, <2>1, <2>2, StopKeeps DEF Modest, Verdicts
<1>7. CASE DOMAIN ac[a].want # {}
  <2>. DEFINE rec == [ac[a] EXCEPT !.pc = "lock", !.phase = "check", !.asked = pair]
  <2>1. Become(a, rec) /\ lock' = lock
    BY <1>2, <1>7 DEF EndRefresh
  <2>2. /\ rec \in Row /\ rec.pc = "lock" /\ rec.phase = "check" /\ rec.asked = pair
        /\ rec.done = ac[a].done /\ rec.want = ac[a].want
    BY <1>2, <1>5 DEF Row, Steps, Phases
  <2>. HIDE DEF rec
  <2>3. a # Poller /\ a # Script /\ ac[a].done = <<>>
    BY <1>3, <1>5, <1>7 DEF Local, Role, Knows, Reads
  <2>4. Local(a, rec)
    BY <1>2, <2>2, <2>3 DEF Local, InPlace, Role, Knows, Patching
  <2>5. Frame(a)
    BY <1>3, <2>1, ReaderKnown
  <2>6. Bot'
    BY <1>2, <1>3, <1>4, <1>5, <2>1, BotStays DEF TimingInv, Bot
  <2>. QED  BY <1>2, <1>5, <2>1, <2>2, <2>4, <2>5, <2>6, GoesOn
<1>. QED  BY <1>6, <1>7

\* A verdict of a check, before anything was written.
LEMMA SpokenKeeps ==
  ASSUME TimingInv, NEW a \in Actors, Reads(a), ac[a].phase = "check", won' = won,
         NEW v \in {"conflict", "refused", "unchanged"}, Stop(a, v), Bot'
  PROVE  TimingInv' /\ Answers
<1>1. v \in Verdicts
  BY DEF Verdicts
<1>2. Moves(a) /\ Actor(a)' /\ ac'[a].verdict = v /\ (lock' = lock \/ lock = a)
  BY <1>1, StopDoes
<1>3. House' /\ Frame(a) /\ ac[a].done = <<>>
  BY <1>2, ReaderKnown DEF Local, Knows
<1>4. a \in Callers => Answer(a)
  BY <1>2, <1>3 DEF Answer
<1>. QED  BY <1>2, <1>3, <1>4, ActorStep

\* The helpers that a patch changes, in their order.
LEMMA DifferingKnown ==
  ASSUME NEW want, NEW pair
  PROVE  /\ Differing(want, pair) \in Seq(Helpers)
         /\ \A i \in 1..Len(Differing(want, pair)) :
              LET x == Differing(want, pair)[i] IN x \in DOMAIN want /\ want[x] # pair[x].value
<1>. DEFINE D(x) == x \in DOMAIN want /\ want[x] # pair[x].value
            part(x) == IF D(x) THEN <<x>> ELSE <<>>
            s == part("warmup") \o part("long")
<1>1. Differing(want, pair) = s
  BY DEF Differing
<1>. HIDE DEF D
<1>2. s \in Seq(Helpers) /\ \A i \in 1..Len(s) : D(s[i])
  <2>1. CASE D("warmup") /\ D("long")
    <3>1. part("warmup") = <<"warmup">> /\ part("long") = <<"long">>
      BY <2>1
    <3>. HIDE DEF part
    <3>2. /\ s \in Seq(Helpers) /\ Len(s) = 2 /\ s[1] = "warmup" /\ s[2] = "long"
      BY <3>1 DEF Helpers
    <3>. QED  BY <2>1, <3>2
  <2>2. CASE D("warmup") /\ ~ D("long")
    <3>1. s = <<"warmup">>
      BY <2>2
    <3>. QED  BY <2>2, <3>1 DEF Helpers
  <2>3. CASE ~ D("warmup") /\ D("long")
    <3>1. s = <<"long">>
      BY <2>3
    <3>. QED  BY <2>3, <3>1 DEF Helpers
  <2>4. CASE ~ D("warmup") /\ ~ D("long")
    <3>1. s = <<>>
      BY <2>4
    <3>. QED  BY <3>1
  <2>. QED  BY <2>1, <2>2, <2>3, <2>4
<1>. QED  BY <1>1, <1>2 DEF D

LEMMA DecideKeeps ==
  ASSUME TimingInv, NEW a \in Actors, Reads(a), Decide(a, PairRead(a))
  PROVE  TimingInv' /\ Answers
<1>1. PairRead(a) \in Sightings /\ Seen(PairRead(a))
      /\ PairRead(a)["warmup"] = ac[a].got /\ PairRead(a)["long"] = helper["long"]
  BY PairKnown DEF Reads
<1>2. PICK pair \in Sightings : /\ pair = PairRead(a) /\ Seen(pair)
                                /\ pair["warmup"] = ac[a].got /\ pair["long"] = helper["long"]
  BY <1>1
<1>. DEFINE s == ac[a]
            changed == Differing(s.want, pair)
<1>3. s.phase = "check" /\ won' = won
  BY DEF Decide
<1>4. /\ s \in Row /\ Local(a, s) /\ Claim(s) /\ Holds(a, s)
      /\ House' /\ helper' = helper /\ Grows
      /\ s.pc = "long"
  BY ReaderKnown DEF Reads
<1>5. CASE (Stop(a, "conflict") \/ Stop(a, "refused")) /\ UNCHANGED botVars
  <2>1. lock' \in Callers \cup {NoCaller}
    BY <1>5 DEF Stop, TimingInv, Bot
  <2>2. Bot'
    BY <1>3, <1>4, <1>5, <2>1, BotQuiet
  <2>. QED  BY <1>3, <1>5, <2>2, SpokenKeeps
<1>6. CASE Publish(a, pair) /\ Stop(a, "unchanged")
  <2>1. policy' = pair /\ failing' = FALSE
    BY <1>6 DEF Publish
  <2>2. timers' \in Sightings \cup {NoPair} /\ lastRevision' \in Sightings \cup {NoPair}
    BY <1>6, <2>1, TakeOverDoes DEF Publish
  <2>3. lock' \in Callers \cup {NoCaller}
    BY <1>6 DEF Stop, TimingInv, Bot
  <2>4. Bot'
    BY <1>2, <1>3, <1>4, <2>1, <2>2, <2>3, BotStays
  <2>. QED  BY <1>3, <1>6, <2>4, SpokenKeeps
<1>7. CASE /\ pair = s.asked /\ \A x \in DOMAIN s.want : s.want[x] \in Minutes
           /\ changed # <<>>
           /\ Become(a, [s EXCEPT !.phase = "apply", !.pc = "set", !.orig = pair, !.todo = changed])
           /\ UNCHANGED <<botVars, lock>>
  <2>1. PICK todo \in Seq(Helpers) :
          /\ todo = changed /\ todo # <<>>
          /\ \A i \in 1..Len(todo) : todo[i] \in DOMAIN s.want /\ s.want[todo[i]] # pair[todo[i]].value
    BY <1>7, DifferingKnown
  <2>. HIDE DEF changed
  <2>. DEFINE rec == [s EXCEPT !.phase = "apply", !.pc = "set", !.orig = pair, !.todo = todo]
  <2>2. Become(a, rec)
    BY <1>7, <2>1
  <2>3. /\ rec \in Row /\ rec.pc = "set" /\ rec.phase = "apply" /\ rec.asked = s.asked
        /\ rec.done = s.done /\ rec.want = s.want /\ rec.orig = pair /\ rec.todo = todo
    BY <1>4 DEF Row, Steps, Phases
  <2>. HIDE DEF rec
  <2>4. a # Poller /\ a # Script /\ s.done = <<>> /\ lock = a
    BY <1>3, <1>4 DEF Local, Role, Knows, Holds, Patching
  <2>5. Local(a, rec)
    BY <1>7, <2>1, <2>3, <2>4 DEF Local, InPlace, Role, Knows, Patching
  <2>6. pair \notin won
    <3>1. pair["warmup"].at \in Nat /\ pair["long"].at \in Nat
      BY DEF Sightings, Sighting, Helpers
    <3>. QED  BY <1>2, <1>3, <1>4, <3>1 DEF Claim
  <2>7. Frame(a)
    BY <1>3, <1>7, ReaderKnown
  <2>8. Bot'
    BY <1>3, <1>4, <1>7, BotQuiet DEF TimingInv, Bot
  <2>. QED  BY <1>2, <1>3, <1>4, <1>7, <2>2, <2>3, <2>4, <2>5, <2>6, <2>7, <2>8, GoesOn
<1>. QED  BY <1>2, <1>5, <1>6, <1>7 DEF Decide

LEMMA VerifyKeeps ==
  ASSUME TimingInv, NEW a \in Actors, Reads(a), Verify(a, PairRead(a))
  PROVE  TimingInv' /\ Answers
<1>1. PairRead(a) \in Sightings /\ Seen(PairRead(a)) /\ (a \notin disturbed => PairRead(a) = helper)
  BY PairKnown DEF Reads
<1>2. PICK pair \in Sightings : pair = PairRead(a) /\ Seen(pair) /\ (a \notin disturbed => pair = helper)
  BY <1>1
<1>3. /\ ac[a] \in Row /\ Local(a, ac[a]) /\ Eyes(ac[a]) /\ Claim(ac[a]) /\ Holds(a, ac[a])
      /\ House' /\ helper' = helper /\ Grows /\ ac[a].pc = "long" /\ ac[a].phase = "apply"
  BY ReaderKnown DEF Reads, Verify
<1>4. CASE StartRollback(a) /\ UNCHANGED won
  <2>1. lock' = lock
    BY <1>4 DEF StartRollback
  <2>2. Frame(a)
    BY <1>4, <2>1, ReaderKnown
  <2>. QED  BY <1>3, <1>4, <2>2, FailsKeep DEF Fails
<1>5. CASE /\ Values(pair) = Expected(a) /\ Publish(a, pair) /\ Stop(a, "ok")
           /\ won' = won \cup {ac[a].asked}
  <2>1. /\ Moves(a) /\ Actor(a)' /\ ac'[a].verdict = "ok"
        /\ (lock' = lock \/ lock = a) /\ lock' \in {lock, NoCaller}
    BY <1>5, StopDoes DEF Verdicts
  <2>2. policy' = pair /\ failing' = FALSE
    BY <1>5 DEF Publish
  <2>3. timers' \in Sightings \cup {NoPair} /\ lastRevision' \in Sightings \cup {NoPair}
    BY <1>5, <2>2, TakeOverDoes DEF Publish
  <2>4. ac[a].asked \in Sightings /\ Overtaken(ac[a].asked) /\ a # Poller /\ a # Script
    BY <1>3 DEF Local, Role, Knows, Eyes, Patching
  <2>5. Bot'
    <3>1. lock' \in Callers \cup {NoCaller}
      BY <2>1 DEF TimingInv, Bot
    <3>. QED  BY <1>2, <1>3, <1>5, <2>2, <2>3, <2>4, <3>1, BotStays
  <2>6. a \in Callers
    BY <2>4, Beginnings
  <2>7. Frame(a)
    BY <1>3, <1>5, <2>1, <2>6 DEF Frame, Told, Reads
  <2>8. Answer(a)
    BY <1>2, <1>3, <1>5, <2>1 DEF Answer, Claim
  <2>. QED  BY <1>3, <2>1, <2>5, <2>7, <2>8, ActorStep
<1>. QED  BY <1>2, <1>4, <1>5 DEF Verify

LEMMA VerifyRollbackKeeps ==
  ASSUME TimingInv, NEW a \in Actors, Reads(a), VerifyRollback(a, PairRead(a))
  PROVE  TimingInv' /\ Answers
<1>1. PairRead(a) \in Sightings /\ Seen(PairRead(a)) /\ (a \notin disturbed => PairRead(a) = helper)
  BY PairKnown DEF Reads
<1>2. PICK pair \in Sightings : pair = PairRead(a) /\ Seen(pair) /\ (a \notin disturbed => pair = helper)
  BY <1>1
<1>3. House' /\ helper' = helper /\ Grows /\ won' = won
  BY ReaderKnown DEF VerifyRollback
<1>4. CASE MarkUnknown(a)
  <2>1. lock' = lock \/ lock = a
    BY <1>4 DEF MarkUnknown, Stop
  <2>2. Frame(a)
    BY <1>3, <2>1, ReaderKnown
  <2>. QED  BY <1>3, <1>4, <2>2, UnknownKeeps
<1>5. CASE /\ Values(pair) = Values(ac[a].orig)
           /\ policy' = pair /\ failing' = FALSE
           /\ UNCHANGED <<lastRevision, timers, strayed>>
           /\ Stop(a, "restored")
  <2>1. /\ Moves(a) /\ Actor(a)' /\ ac'[a].verdict = "restored"
        /\ (lock' = lock \/ lock = a) /\ lock' \in {lock, NoCaller}
    BY <1>5, StopDoes DEF Verdicts
  <2>2. Bot'
    <3>1. lock' \in Callers \cup {NoCaller}
      BY <2>1 DEF TimingInv, Bot
    <3>. QED  BY <1>2, <1>3, <1>5, <3>1, BotStays DEF TimingInv, Bot
  <2>3. Frame(a)
    BY <1>3, <2>1, ReaderKnown
  <2>4. Answer(a)
    BY <1>2, <1>5, <2>1 DEF Answer
  <2>. QED  BY <1>3, <2>1, <2>2, <2>3, <2>4, ActorStep
<1>. QED  BY <1>2, <1>4, <1>5 DEF VerifyRollback

LEMMA Tails ==
  ASSUME NEW s \in Seq(Helpers), s # <<>>
  PROVE  /\ Head(s) \in Helpers /\ Head(s) = s[1] /\ 1 \in 1..Len(s)
         /\ Tail(s) \in Seq(Helpers) /\ (Len(s) > 1 => Tail(s) # <<>>)
         /\ \A i \in 1..Len(Tail(s)) : i + 1 \in 1..Len(s) /\ Tail(s)[i] = s[i + 1]
         /\ \A done \in Seq(Helpers) : /\ Append(done, Head(s)) \in Seq(Helpers)
                                       /\ Append(done, Head(s)) # <<>>
OBVIOUS

\* The script of the migration works on its own.
LEMMA ScriptGoesOn ==
  ASSUME TimingInv, NEW a \in Actors, ac[a].phase \in {"plan", "move", "settle"},
         NEW rec \in Row, Become(a, rec),
         rec.phase \in {"move", "settle"}, rec.want \in [Helpers -> Minutes],
         \/ rec.phase = "move" /\ rec.pc = "set" /\ rec.todo # <<>>
         \/ rec.phase = "settle" /\ rec.pc \in {"warmup", "turnOn", "confirmMarker"},
         rec.done = ac[a].done, UNCHANGED <<botVars, lock, won>>, House', Frame(a)
  PROVE  TimingInv' /\ Answers
<1>1. Local(a, ac[a])
  BY ActorKnown
<1>2. a = Script /\ ac[a].done = <<>> /\ Script # Poller
  BY <1>1, Constants DEF Local, Role, Knows
<1>3. Local(a, rec)
  BY <1>2 DEF Local, InPlace, Role, Knows, Patching
<1>4. Bot'
  BY BotQuiet DEF Frame, TimingInv, Bot
<1>. QED  BY <1>3, <1>4, GoesOn DEF Patching

LEMMA MinutesWanted == [Helpers -> Minutes] \subseteq Wanted
<1>. SUFFICES ASSUME NEW f \in [Helpers -> Minutes] PROVE f \in Wanted
  OBVIOUS
<1>1. f \in [Helpers -> Minutes \cup Asked]
  OBVIOUS
<1>. QED  BY <1>1 DEF Wanted

LEMMA PlanKeeps ==
  ASSUME TimingInv, NEW a \in Actors, NEW pair \in Sightings \cup {NoPair}, Plan(a, pair),
         House', Frame(a)
  PROVE  TimingInv' /\ Answers
<1>. DEFINE s == ac[a]
<1>1. PICK legacy \in Legacies :
        LET keeps == legacy = NoPair /\ Kept(pair)
        IN  Become(a, [s EXCEPT !.want = Target(legacy, pair),
                                !.phase = IF keeps THEN "settle" ELSE "move",
                                !.pc = IF keeps THEN "warmup" ELSE "set",
                                !.todo = IF keeps THEN <<>> ELSE Order])
  BY DEF Plan
<1>2. Target(legacy, pair) \in [Helpers -> Minutes]
  <2>1. pair # NoPair => Values(pair) \in [Helpers -> Minutes]
    BY DEF Values, Sightings, Sighting
  <2>2. legacy # NoPair => legacy \in [Helpers -> Minutes]
    BY TimingAssumption
  <2>. QED  BY <2>1, <2>2, TimingAssumption DEF Target, Kept
<1>3. PICK want \in [Helpers -> Minutes] : want = Target(legacy, pair)
  BY <1>2
<1>4. want \in Wanted /\ s \in Row /\ s.phase = "plan"
  BY MinutesWanted, ActorKnown DEF Plan
<1>5. Order \in Seq(Helpers) /\ Order # <<>>
  BY DEF Order, Helpers
<1>6. CASE legacy = NoPair /\ Kept(pair)
  <2>0. PICK none \in Seq(Helpers) : none = <<>>
    <3>1. <<>> \in Seq(Helpers)
      OBVIOUS
    <3>. QED  BY <3>1
  <2>. DEFINE rec == [s EXCEPT !.want = want, !.phase = "settle", !.pc = "warmup", !.todo = none]
  <2>1. Become(a, rec)
    BY <1>1, <1>3, <1>6, <2>0
  <2>2. /\ rec \in Row /\ rec.phase = "settle" /\ rec.pc = "warmup" /\ rec.want = want
        /\ rec.done = s.done
    BY <1>4 DEF Row, Phases, Steps
  <2>. HIDE DEF rec
  <2>. QED  BY <1>4, <2>1, <2>2, ScriptGoesOn DEF Plan
<1>7. CASE ~ (legacy = NoPair /\ Kept(pair))
  <2>. DEFINE rec == [s EXCEPT !.want = want, !.phase = "move", !.pc = "set", !.todo = Order]
  <2>1. Become(a, rec)
    BY <1>1, <1>3, <1>7
  <2>2. /\ rec \in Row /\ rec.phase = "move" /\ rec.pc = "set" /\ rec.want = want
        /\ rec.done = s.done /\ rec.todo # <<>>
    BY <1>4, <1>5 DEF Row, Phases, Steps
  <2>. HIDE DEF rec
  <2>. QED  BY <1>4, <2>1, <2>2, ScriptGoesOn DEF Plan
<1>. QED  BY <1>6, <1>7

LEMMA MoveOnKeeps ==
  ASSUME TimingInv, NEW a \in Actors, Reads(a), MoveOn(a, PairRead(a))
  PROVE  TimingInv' /\ Answers
<1>. DEFINE s == ac[a]
<1>1. /\ s \in Row /\ Local(a, s) /\ House' /\ won' = won /\ s.phase = "move"
      /\ ((lock' = lock \/ lock = a) => Frame(a))
  BY ReaderKnown DEF MoveOn
<1>2. s.want \in [Helpers -> Minutes] /\ s.todo \in Seq(Helpers)
  BY <1>1 DEF Local, Knows, Row
<1>3. CASE /\ Len(s.todo) > 1 /\ UNCHANGED <<botVars, lock>>
           /\ Become(a, [s EXCEPT !.pc = "set", !.todo = Tail(s.todo)])
  <2>1. PICK todo \in Seq(Helpers) : todo = Tail(s.todo) /\ todo # <<>>
    <3>1. s.todo # <<>>
      BY <1>2, <1>3
    <3>. QED  BY <1>2, <1>3, <3>1, Tails
  <2>. DEFINE rec == [s EXCEPT !.pc = "set", !.todo = todo]
  <2>2. Become(a, rec)
    BY <1>3, <2>1
  <2>3. /\ rec \in Row /\ rec.phase = "move" /\ rec.pc = "set" /\ rec.want = s.want
        /\ rec.done = s.done /\ rec.todo = todo
    BY <1>1 DEF Row, Steps
  <2>. HIDE DEF rec
  <2>. QED  BY <1>1, <1>2, <1>3, <2>1, <2>2, <2>3, ScriptGoesOn
<1>4. CASE /\ UNCHANGED <<botVars, lock>>
           /\ Become(a, [s EXCEPT !.pc = "warmup", !.phase = "settle", !.todo = <<>>])
  <2>0. PICK none \in Seq(Helpers) : none = <<>>
    <3>1. <<>> \in Seq(Helpers)
      OBVIOUS
    <3>. QED  BY <3>1
  <2>. DEFINE rec == [s EXCEPT !.pc = "warmup", !.phase = "settle", !.todo = none]
  <2>1. Become(a, rec)
    BY <1>4, <2>0
  <2>2. /\ rec \in Row /\ rec.phase = "settle" /\ rec.pc = "warmup" /\ rec.want = s.want
        /\ rec.done = s.done
    BY <1>1 DEF Row, Steps, Phases
  <2>. HIDE DEF rec
  <2>. QED  BY <1>1, <1>2, <1>4, <2>1, <2>2, ScriptGoesOn
<1>5. CASE CheckFails(a)
  <2>1. lock' = lock \/ lock = a
    BY <1>5 DEF CheckFails, Stop
  <2>. QED  BY <1>1, <1>5, <2>1, CheckKeeps
<1>. QED  BY <1>3, <1>4, <1>5 DEF MoveOn

LEMMA SettleKeeps ==
  ASSUME TimingInv, NEW a \in Actors, Reads(a), Settle(a, PairRead(a))
  PROVE  TimingInv' /\ Answers
<1>. DEFINE s == ac[a]
<1>1. /\ s \in Row /\ Local(a, s) /\ House' /\ won' = won /\ s.phase = "settle"
      /\ ((lock' = lock \/ lock = a) => Frame(a))
  BY ReaderKnown DEF Settle
<1>2. s.want \in [Helpers -> Minutes]
  BY <1>1 DEF Local, Knows
<1>3. CASE Become(a, Goto(a, "turnOn")) /\ UNCHANGED <<botVars, lock>>
  <2>. DEFINE rec == [s EXCEPT !.pc = "turnOn"]
  <2>1. Become(a, rec)
    BY <1>3 DEF Goto
  <2>2. /\ rec \in Row /\ rec.phase = "settle" /\ rec.pc = "turnOn" /\ rec.want = s.want
        /\ rec.done = s.done
    BY <1>1 DEF Row, Steps
  <2>. HIDE DEF rec
  <2>. QED  BY <1>1, <1>2, <1>3, <2>1, <2>2, ScriptGoesOn
<1>4. CASE CheckFails(a)
  <2>1. lock' = lock \/ lock = a
    BY <1>4 DEF CheckFails, Stop
  <2>. QED  BY <1>1, <1>4, <2>1, CheckKeeps
<1>. QED  BY <1>3, <1>4 DEF Settle

LEMMA ReadLongKeeps ==
  ASSUME TimingInv, NEW a \in Actors, ReadLong(a)
  PROVE  TimingInv' /\ Answers
<1>1. Reads(a)
  BY DEF ReadLong, Reads
<1>2. CASE Plan(a, PairRead(a))
  <2>1. PairRead(a) \in Sightings
    BY <1>1, PairKnown DEF Reads
  <2>2. House' /\ Frame(a)
    BY <1>1, <1>2, ReaderKnown DEF Plan
  <2>. QED  BY <1>2, <2>1, <2>2, PlanKeeps
<1>3. \/ EndRefresh(a, PairRead(a)) \/ Decide(a, PairRead(a)) \/ Verify(a, PairRead(a))
      \/ VerifyRollback(a, PairRead(a)) \/ Plan(a, PairRead(a)) \/ MoveOn(a, PairRead(a))
      \/ Settle(a, PairRead(a))
  BY DEF ReadLong
<1>. QED  BY <1>1, <1>2, <1>3, EndRefreshKeeps, DecideKeeps, VerifyKeeps, VerifyRollbackKeeps,
             MoveOnKeeps, SettleKeeps

LEMMA UnavailableKeeps ==
  ASSUME TimingInv, NEW a \in Actors, Unavailable(a)
  PROVE  TimingInv' /\ Answers
<1>1. Plan(a, NoPair) /\ Reads(a)
  BY DEF Unavailable, Reads
<1>2. House' /\ Frame(a)
  BY <1>1, ReaderKnown DEF Plan
<1>. QED  BY <1>1, <1>2, PlanKeeps

-----------------------------------------------------------------------------
(* Writes of a call.                                                       *)
LEMMA WriterKnown ==
  ASSUME TimingInv, NEW a \in Actors, ac[a].pc \in {"set", "confirm"}
  PROVE  /\ ac[a].todo \in Seq(Helpers) /\ ac[a].todo # <<>>
         /\ Head(ac[a].todo) \in Helpers /\ Value(a) \in Minutes
         /\ Noted(a) \in Seq(Helpers) /\ (ac[a].phase = "apply" => Noted(a) # <<>>)
         /\ ac[a].phase \in {"apply", "undo", "move"}
         /\ ac[a].phase = "apply" => Value(a) # ac[a].asked[Head(ac[a].todo)].value
<1>. DEFINE s == ac[a]
<1>1. s \in Row /\ Local(a, s)
  BY ActorKnown
<1>2. s.todo \in Seq(Helpers) /\ s.todo # <<>> /\ s.done \in Seq(Helpers)
  BY <1>1 DEF Row, Local, Knows
<1>3. Head(s.todo) \in Helpers /\ Head(s.todo) = s.todo[1] /\ 1 \in 1..Len(s.todo)
  BY <1>2, Tails
<1>4. s.phase \in {"apply", "undo", "move"}
  BY <1>1 DEF Local, InPlace, Row, Phases
<1>5. CASE s.phase = "apply"
  <2>1. s.todo[1] \in DOMAIN s.want /\ s.want[s.todo[1]] # s.asked[s.todo[1]].value
        /\ s.want[s.todo[1]] \in Minutes
    BY <1>1, <1>3, <1>5 DEF Local, Knows
  <2>2. Noted(a) = Append(s.done, Head(s.todo))
    BY <1>5 DEF Noted
  <2>3. Noted(a) \in Seq(Helpers) /\ Noted(a) # <<>>
    BY <1>2, <2>2, Tails
  <2>. QED  BY <1>2, <1>3, <1>5, <2>1, <2>3 DEF Value
<1>6. CASE s.phase = "undo"
  <2>1. s.orig \in Sightings
    BY <1>1, <1>6 DEF Local, Knows
  <2>2. s.orig[Head(s.todo)].value \in Minutes
    BY <1>3, <2>1 DEF Sightings, Sighting
  <2>. QED  BY <1>2, <1>3, <1>6, <2>2 DEF Value, Noted
<1>7. CASE s.phase = "move"
  <2>1. s.want \in [Helpers -> Minutes]
    BY <1>1, <1>7 DEF Local, Knows
  <2>. QED  BY <1>2, <1>3, <1>7, <2>1 DEF Value, Noted
<1>. QED  BY <1>4, <1>5, <1>6, <1>7

\* What a write that arrives does to the helpers.
LEMMA WriteHouse ==
  ASSUME TimingInv, NEW x \in Helpers, NEW v \in Minutes, marker' = marker,
         late' \subseteq late \cup {<<x, v>>},
         Change(x, v) \/ UNCHANGED <<helper, stamp>>
  PROVE  House' /\ Grows
<1>1. late' \subseteq Helpers \X Minutes
  BY DEF TimingInv, House
<1>2. CASE Change(x, v)
  <2>1. Grows /\ stamp' \in Nat /\ \A y \in Helpers : helper'[y].at <= stamp'
    BY <1>2, ChangeDoes
  <2>. QED  BY <1>1, <2>1 DEF House, Grows, TimingInv
<1>3. CASE UNCHANGED <<helper, stamp>>
  BY <1>1, <1>3, StillGrows DEF House, TimingInv
<1>. QED  BY <1>2, <1>3

LEMMA SetHelperKeeps ==
  ASSUME TimingInv, NEW a \in Actors, SetHelper(a)
  PROVE  TimingInv' /\ Answers
<1>. DEFINE s == ac[a]
<1>1. /\ s \in Row /\ Local(a, s) /\ Eyes(s) /\ Claim(s) /\ Holds(a, s) /\ s.pc = "set"
  BY ActorKnown DEF SetHelper
<1>2. PICK x \in Helpers, v \in Minutes, noted \in Seq(Helpers) :
        /\ x = Head(s.todo) /\ v = Value(a) /\ noted = Noted(a)
        /\ s.phase = "apply" => v # s.asked[x].value /\ noted # <<>>
        /\ s.phase \in {"apply", "undo", "move"}
  BY <1>1, WriterKnown
<1>3. /\ Change(x, v) /\ late' \subseteq late \cup {<<x, v>>} /\ disturbed' = OthersAtWork(a)
      /\ UNCHANGED <<marker, botVars, lock, won>>
  BY <1>2 DEF SetHelper
<1>4. House' /\ Grows /\ helper'[x].value = v
  BY <1>3, WriteHouse, ChangeDoes
<1>. DEFINE pc == IF s.phase = "move" THEN "warmup" ELSE "confirm"
            rec == [s EXCEPT !.done = noted, !.pc = pc]
<1>5. Become(a, rec)
  BY <1>2 DEF SetHelper
<1>6. pc \in {"warmup", "confirm"} /\ (pc = "warmup" => s.phase = "move")
      /\ (pc = "confirm" => s.phase # "move")
  OBVIOUS
<1>. HIDE DEF pc
<1>7. /\ rec \in Row /\ rec.pc = pc /\ rec.phase = s.phase /\ rec.want = s.want
      /\ rec.done = noted /\ rec.asked = s.asked /\ rec.orig = s.orig /\ rec.todo = s.todo
  BY <1>1, <1>6 DEF Row, Steps
<1>. HIDE DEF rec
<1>8. s.phase = "move" => noted = <<>>
  BY <1>1, <1>2 DEF Noted, Local, Knows
<1>9. Local(a, rec)
  BY <1>1, <1>2, <1>6, <1>7, <1>8 DEF Local, InPlace, Role, Knows, Patching
<1>10. Told(a)
  BY <1>3 DEF Told, OthersAtWork
<1>11. Frame(a) /\ Bot'
  BY <1>3, <1>4, <1>10, BotQuiet DEF Frame, TimingInv, Bot
<1>12. s.phase = "apply" => \E y \in Helpers : s.asked[y].at < helper'[y].at
  <2>. SUFFICES ASSUME s.phase = "apply" PROVE s.asked[x].at < helper'[x].at
    OBVIOUS
  <2>1. s.asked \in Sightings /\ Seen(s.asked)
    BY <1>1 DEF Local, Knows, Eyes, Patching
  <2>2. s.asked[x] \in Sighting /\ s.asked[x].at \in Nat /\ Old(x, s.asked[x])
    BY <2>1 DEF Sightings, Sighting, Seen
  <2>3. PICK reading \in Sighting : reading = s.asked[x] /\ Old(x, reading)
    BY <2>2
  <2>4. Old(x, reading)'
    BY <1>4, <2>3, SeenStays DEF TimingInv
  <2>5. reading.at <= helper'[x].at /\ (reading.at = helper'[x].at => reading = helper'[x])
    BY <2>4 DEF Old
  <2>6. helper'[x].at \in Nat
    BY <1>4 DEF House, Sightings, Sighting
  <2>. QED  BY <1>2, <1>4, <2>2, <2>3, <2>5, <2>6
<1>. QED  BY <1>1, <1>3, <1>4, <1>5, <1>6, <1>7, <1>9, <1>11, <1>12, GoesOn
          DEF Eyes, Claim, Holds, Patching

LEMMA SetFailsKeeps ==
  ASSUME TimingInv, NEW a \in Actors, SetFails(a)
  PROVE  TimingInv' /\ Answers
<1>. DEFINE s == ac[a]
<1>1. s \in Row /\ s.pc = "set"
  BY ActorKnown DEF SetFails
<1>2. PICK x \in Helpers, v \in Minutes, noted \in Seq(Helpers) :
        /\ x = Head(s.todo) /\ v = Value(a) /\ noted = Noted(a)
        /\ s.phase = "apply" => noted # <<>>
  BY <1>1, WriterKnown
<1>3. /\ late' \subseteq late \cup {<<x, v>>} /\ UNCHANGED <<marker, won>>
      /\ Change(x, v) \/ UNCHANGED <<helper, stamp>>
      /\ disturbed' = OthersAtWork(a) \/ (helper' = helper /\ disturbed' = disturbed)
  BY <1>2 DEF SetFails
<1>4. House' /\ Grows
  BY <1>3, WriteHouse
<1>5. Told(a)
  BY <1>3 DEF Told, OthersAtWork
<1>6. (lock' = lock \/ lock = a) => Frame(a)
  BY <1>3, <1>4, <1>5 DEF Frame
<1>7. CASE /\ s.phase = "apply" /\ UNCHANGED <<botVars, lock>>
           /\ Become(a, [s EXCEPT !.phase = "undo", !.done = Noted(a), !.todo = Reverse(Noted(a))])
  <2>1. PICK back \in Seq(Helpers) : back = Reverse(noted) /\ back # <<>>
    BY <1>2, <1>7, Backwards
  <2>. DEFINE rec == [s EXCEPT !.phase = "undo", !.done = noted, !.todo = back]
  <2>2. Become(a, rec)
    BY <1>2, <1>7, <2>1
  <2>3. /\ rec \in Row /\ rec.phase = "undo" /\ rec.pc = "set" /\ rec.todo # <<>>
        /\ rec.asked = s.asked /\ rec.orig = s.orig
    BY <1>1, <2>1 DEF Row, Phases
  <2>. HIDE DEF rec
  <2>. QED  BY <1>3, <1>4, <1>6, <1>7, <2>2, <2>3, TurnsBack
<1>8. CASE MarkUnknown(a)
  <2>1. lock' = lock \/ lock = a
    BY <1>8 DEF MarkUnknown, Stop
  <2>. QED  BY <1>3, <1>4, <1>6, <1>8, <2>1, UnknownKeeps
<1>9. CASE CheckFails(a)
  <2>1. lock' = lock \/ lock = a
    BY <1>9 DEF CheckFails, Stop
  <2>. QED  BY <1>3, <1>4, <1>6, <1>9, <2>1, CheckKeeps
<1>. QED  BY <1>7, <1>8, <1>9 DEF SetFails

LEMMA ConfirmKeeps ==
  ASSUME TimingInv, NEW a \in Actors, Confirm(a)
  PROVE  TimingInv' /\ Answers
<1>. DEFINE s == ac[a]
<1>1. /\ s \in Row /\ Local(a, s) /\ Eyes(s) /\ Claim(s) /\ Holds(a, s) /\ s.pc = "confirm"
  BY ActorKnown DEF Confirm
<1>2. /\ won' = won /\ House' /\ helper' = helper /\ Grows
      /\ (lock' = lock \/ lock = a => Frame(a))
  BY StillFrame DEF Confirm
<1>3. /\ s.todo \in Seq(Helpers) /\ s.todo # <<>>
      /\ s.phase \in {"apply", "undo"}
  BY <1>1, WriterKnown DEF Local, InPlace
<1>4. CASE /\ Become(a, [s EXCEPT !.todo = Tail(s.todo),
                                  !.pc = IF Len(s.todo) > 1 THEN "set" ELSE "warmup"])
           /\ UNCHANGED <<botVars, lock>>
  <2>1. PICK todo \in Seq(Helpers), pc \in {"set", "warmup"} :
          /\ todo = Tail(s.todo) /\ pc = (IF Len(s.todo) > 1 THEN "set" ELSE "warmup")
          /\ pc = "set" => todo # <<>>
          /\ \A i \in 1..Len(todo) : i + 1 \in 1..Len(s.todo) /\ todo[i] = s.todo[i + 1]
    BY <1>3, Tails
  <2>. DEFINE rec == [s EXCEPT !.todo = todo, !.pc = pc]
  <2>2. Become(a, rec)
    BY <1>4, <2>1
  <2>3. /\ rec \in Row /\ rec.pc = pc /\ rec.phase = s.phase /\ rec.want = s.want
        /\ rec.done = s.done /\ rec.asked = s.asked /\ rec.orig = s.orig /\ rec.todo = todo
    BY <1>1 DEF Row, Steps
  <2>. HIDE DEF rec
  <2>4. s.phase = "apply" =>
          \A i \in 1..Len(todo) : todo[i] \in DOMAIN s.want /\ s.want[todo[i]] # s.asked[todo[i]].value
    BY <1>1, <2>1 DEF Local, Knows
  <2>5. Local(a, rec)
    BY <1>1, <1>3, <2>1, <2>3, <2>4 DEF Local, InPlace, Role, Knows, Patching
  <2>6. Bot'
    BY <1>2, <1>4, BotQuiet DEF TimingInv, Bot
  <2>7. /\ Patching(s) /\ Seen(s.asked) /\ lock' = a
        /\ s.phase = "apply" => s.asked \notin won' /\ s.done # <<>>
        /\ s.phase = "apply" => Overtaken(s.asked)
    BY <1>1, <1>2, <1>3, <1>4 DEF Local, Knows, Eyes, Claim, Holds, Patching
  <2>8. s.phase = "apply" => \E x \in Helpers : s.asked[x].at < helper'[x].at
    BY <1>2, <2>7 DEF Overtaken
  <2>. QED  BY <1>2, <1>4, <2>1, <2>2, <2>3, <2>5, <2>6, <2>7, <2>8, GoesOn DEF Patching
<1>5. CASE Fails(a)
  <2>1. lock' = lock \/ lock = a
    BY <1>5 DEF Fails, RefreshFails, CheckFails, StartRollback, MarkUnknown, Stop
  <2>. QED  BY <1>1, <1>2, <1>5, <2>1, FailsKeep
<1>. QED  BY <1>4, <1>5 DEF Confirm

LEMMA TurnOnKeeps ==
  ASSUME TimingInv, NEW a \in Actors, TurnOnMarker(a)
  PROVE  TimingInv' /\ Answers
<1>. DEFINE s == ac[a]
            rec == [s EXCEPT !.pc = "confirmMarker"]
<1>1. s \in Row /\ Local(a, s) /\ s.pc = "turnOn"
  BY ActorKnown DEF TurnOnMarker
<1>2. s.phase = "settle" /\ s.want \in [Helpers -> Minutes]
  BY <1>1 DEF Local, InPlace, Knows, Row, Phases
<1>3. /\ rec \in Row /\ rec.phase = "settle" /\ rec.pc = "confirmMarker" /\ rec.want = s.want
      /\ rec.done = s.done
  BY <1>1, <1>2 DEF Row, Steps
<1>4. Become(a, rec) /\ UNCHANGED <<botVars, lock, won>>
  BY DEF TurnOnMarker, Goto
<1>. HIDE DEF rec
<1>5. House' /\ helper' = helper
  BY DEF TurnOnMarker, House, TimingInv
<1>6. Frame(a)
  BY <1>4, <1>5, QuietFrame DEF TurnOnMarker
<1>. QED  BY <1>2, <1>3, <1>4, <1>5, <1>6, ScriptGoesOn

LEMMA ConfirmMarkerKeeps ==
  ASSUME TimingInv, NEW a \in Actors, ConfirmMarker(a)
  PROVE  TimingInv' /\ Answers
<1>1. /\ won' = won /\ House' /\ helper' = helper /\ Grows /\ ac[a].pc = "confirmMarker"
      /\ (lock' = lock \/ lock = a => Frame(a))
  BY StillFrame DEF ConfirmMarker
<1>2. CASE Fails(a)
  <2>1. lock' = lock \/ lock = a
    BY <1>2 DEF Fails, RefreshFails, CheckFails, StartRollback, MarkUnknown, Stop
  <2>. QED  BY <1>1, <1>2, <2>1, FailsKeep
<1>3. CASE Stop(a, "initialized") /\ UNCHANGED botVars
  <2>1. lock' = lock \/ lock = a
    BY <1>3 DEF Stop
  <2>. QED  BY <1>1, <1>3, <2>1, StopKeeps DEF Modest, Verdicts, botVars, TimingInv, Bot
<1>. QED  BY <1>2, <1>3 DEF ConfirmMarker

-----------------------------------------------------------------------------
LEMMA TimingInit == Init => TimingInv
<1>. SUFFICES ASSUME Init PROVE TimingInv
  OBVIOUS
<1>. DEFINE boot == [Resting EXCEPT !.pc = "marker", !.by = "boot"]
<1>0. boot \in Row /\ boot.pc = "marker" /\ boot.phase = "refresh" /\ boot.done = <<>>
      /\ boot.want = NoWish /\ DOMAIN NoWish = {}
  BY Beginnings, Constants DEF Resting, Row, Steps, Origins
<1>1. /\ Resting \in Row /\ Resting.pc = "idle" /\ Resting.phase = "refresh"
      /\ Resting.done = <<>> /\ Resting.want = NoWish
  BY Beginnings DEF Resting
<1>2. ac = [a \in Actors |-> IF a = Poller THEN boot ELSE Resting]
  BY DEF Init
<1>. HIDE DEF boot
<1>3. ac \in [Actors -> Row]
  BY <1>0, <1>1, <1>2
<1>4. ASSUME NEW a \in Actors
      PROVE  Actor(a)
  <2>1. ac[a] \in {boot, Resting} /\ (a = Poller \/ ac[a] = Resting)
    BY <1>2
  <2>2. Local(a, ac[a])
    BY <1>0, <1>1, <2>1, Constants DEF Local, InPlace, Role, Knows, Patching
  <2>3. Eyes(ac[a]) /\ Claim(ac[a]) /\ Holds(a, ac[a]) /\ Fresh(a, ac[a])
    BY <1>0, <1>1, <2>1 DEF Eyes, Claim, Holds, Fresh, Patching
  <2>. QED  BY <2>2, <2>3 DEF Actor
<1>5. House
  <2>1. \A x \in Helpers : helper[x] \in [value : Minutes, at : {0}] /\ helper[x].at = 0
    BY DEF Init
  <2>2. helper \in Sightings
    BY DEF Init, Sightings, Sighting
  <2>. QED  BY <2>1, <2>2 DEF Init, House
<1>6. Bot
  BY DEF Init, Bot
<1>. QED  BY <1>3, <1>4, <1>5, <1>6 DEF TimingInv

LEMMA TimingStep ==
  ASSUME TimingInv, [Next]_vars
  PROVE  TimingInv' /\ Answers
<1>1. CASE UNCHANGED vars
  <2>1. UNCHANGED <<haVars, botVars, lock, ac, won, disturbed>>
    BY <1>1 DEF vars
  <2>2. House' /\ helper' = helper /\ Grows /\ Bot'
    BY <2>1, HouseStays, StillGrows, BotQuiet DEF haVars, TimingInv, Bot
  <2>3. Frame(Poller) /\ Frame(Script)
    BY <2>1, <2>2, QuietFrame, Constants
  <2>. QED  BY <2>1, <2>2, <2>3, WorldStep
<1>2. ASSUME NEW a \in Actors, Step(a)
      PROVE  TimingInv' /\ Answers
  BY <1>2, LockKeeps, AskMarkerKeeps, ReadWarmupKeeps, ReadLongKeeps, SetHelperKeeps,
     ConfirmKeeps, TurnOnKeeps, ConfirmMarkerKeeps DEF Step
<1>3. CASE Trouble
  BY <1>3, WorldKeeps, CallFailsKeeps, UnavailableKeeps, SetFailsKeeps, ToggleKeeps, RestartKeeps
     DEF Trouble
<1>. QED  BY <1>1, <1>2, <1>3, ClientKeeps, PollKeeps, MigrateKeeps DEF Next

\* The published policy, every local copy and the lock have their types, for any number
\* of clients, whatever the owner, lost answers, late writes and restarts do.
THEOREM TimingTypesHold == Spec => []TimingTypeOK
<1>1. TimingInv /\ [Next]_vars => TimingInv'
  BY TimingStep
<1>2. TimingInv => TimingTypeOK
  <2>. SUFFICES ASSUME TimingInv PROVE TimingTypeOK
    OBVIOUS
  <2>1. Sightings \subseteq Pair /\ Callers \subseteq Actors
    BY Constants DEF Sightings, Sighting, Pair, Reading
  <2>2. /\ helper \in [Helpers -> [value : Minutes, at : Nat]] /\ marker \in BOOLEAN
        /\ failing \in BOOLEAN /\ lock \in Callers \cup {NoCaller}
        /\ policy \in Pair \cup {NoPair} /\ timers \in Pair \cup {NoPair}
        /\ lastRevision \in Pair \cup {NoPair}
    BY <2>1 DEF TimingInv, House, Bot, Sightings, Sighting
  <2>3. ASSUME NEW a \in Actors
        PROVE  /\ ac[a].pc \in Steps /\ ac[a].phase \in Phases
               /\ ac[a].pc \in {"set", "confirm"} => ac[a].todo # <<>>
               /\ ac[a].phase \in {"apply", "undo"} => ac[a].orig \in Pair
               /\ ac[a].phase \in {"check", "apply", "undo"} => ac[a].asked \in Pair
    <3>1. ac[a] \in Row /\ Local(a, ac[a])
      BY ActorKnown
    <3>. QED  BY <2>1, <3>1 DEF Row, Local, Knows, Patching
  <2>. QED  BY <2>2, <2>3 DEF TimingTypeOK
<1>. QED  BY <1>1, <1>2, TimingInit, PTL DEF Spec

\* What a patch answers is what it did, and of all patches for one revision at most one
\* succeeds, for any number of clients, whatever else happens to the helpers.
THEOREM PatchAnswersHold == Spec => PatchAnswersAreTrue
<1>. DEFINE Body ==
       \A a \in Callers : Stops(a) =>
         /\ ac'[a].verdict = "ok" => ac[a].asked \notin won
         /\ a \notin disturbed =>
              CASE ac'[a].verdict = "ok" -> Values(helper) = Expected(a)
                [] ac'[a].verdict = "restored" -> Values(helper) = Values(ac[a].orig)
                [] ac'[a].verdict \in {"conflict", "refused", "unchanged"} -> ac[a].done = <<>>
                [] OTHER -> TRUE
<1>1. TimingInv /\ [Next]_vars => TimingInv'
  BY TimingStep
<1>2. TimingInv /\ [Next]_vars => [Body]_vars
  BY TimingStep DEF Answers, Answer
<1>. QED  BY <1>1, <1>2, TimingInit, PTL DEF Spec, PatchAnswersAreTrue
=============================================================================
