-------------------------- MODULE ProviderMutation --------------------------
(***************************************************************************)
(* Writes to the owner's iCloud calendars through the planning API:        *)
(* create, update and delete an event, create and delete a calendar        *)
(* (api/service.py, the writing half of providers/icloud.py and the        *)
(* idempotency rows of repositories.py), next to the refresh and to other  *)
(* devices (CalendarCache).                                                *)
(*                                                                         *)
(* A request carries an idempotency key.  Its handler looks the key up,    *)
(* checks the request against the cache, claims the key, writes to the     *)
(* server under the ETag of the cached event, reads the result back and    *)
(* stores it together with the answer in one transaction.  Between any two *)
(* of these steps other devices write, a refresh commits, the process      *)
(* ends, or an answer is lost while its write still travels.               *)
(*                                                                         *)
(* Looking a key up and claiming it are separate steps.  In one process no *)
(* other coroutine runs between them; on a database that two processes     *)
(* share one may, which is what the claim is there for.                    *)
(***************************************************************************)
EXTENDS CalendarCache

CONSTANTS
  Keys, Handlers,   \* idempotency keys, request handlers
  Ops,              \* the operations that clients call
  ReadOnly,         \* calendars without the privilege to write
  NoKey, NoResource,
  MaxSends          \* bound on the requests

ASSUME MutationAssumption ==
  /\ Ops \subseteq {"create", "update", "delete", "mkcal", "rmcal"}
  /\ ReadOnly \subseteq Calendars
  /\ NoKey \notin Keys /\ NoResource \notin Resources
  /\ MaxSends \in Nat

VARIABLES
  keyRow,   \* table idempotency_keys
  hs,       \* the local variables of the handlers
  flight,   \* writes whose sender has stopped waiting
  sends,
  effects,  \* history: how often a write under a key took effect
  heard     \* history: the final answers that clients got under a key

mutationVars == <<keyRow, hs, flight, sends, effects, heard>>
vars == <<cacheVars, mutationVars>>

-----------------------------------------------------------------------------
(* Requests.  An event request names an event and the version its client   *)
(* saw; seen is what that version said, which only the properties read.    *)
Request == [op : Ops, c : Calendars \cup {NoCalendar}, o : Occurrences \cup {<<>>},
            version : Nat, content : Contents \cup {NoContent}, seen : Contents \cup {NoContent}]
NewRequest(op, c, content) ==
  [op |-> op, c |-> c, o |-> <<>>, version |-> 0, content |-> content, seen |-> NoContent]
EventRequest(op, o, content) ==
  [op |-> op, c |-> NoCalendar, o |-> o, version |-> ev[o].version,
   content |-> content, seen |-> ev[o].content]
NoRequest == NewRequest("none", NoCalendar, NoContent)

OnEvent(req) == req.op \in {"update", "delete"}
CalendarOf(req) == IF OnEvent(req) THEN CollectionOf[req.o[1]] ELSE req.c

LiveEvents == {o \in Occurrences : Live(ev[o])}
Requests ==
  {NewRequest("create", c, x) : c \in Calendars, x \in Contents}
  \cup {NewRequest("mkcal", NoCalendar, NoContent)}
  \cup {NewRequest("rmcal", c, NoContent) : c \in Calendars}
  \cup {EventRequest("update", o, x) : o \in LiveEvents, x \in Contents}
  \cup {EventRequest("delete", o, NoContent) : o \in LiveEvents}

NoAnswer == "none"
Refusals == {"etag_conflict", "not_found", "read_only", "rejected", "payload_invalid"}
Answers == Refusals \cup {"ok", "uncertain"}
Unclaimed == [claimed |-> FALSE, req |-> NoRequest, answer |-> NoAnswer]

(* etag is that of the row the preflight read; primed is the event that    *)
(* prepare_write_state puts into the provider, made of the row as claimed. *)
NoPrimed == [etag |-> 0, safe |-> FALSE]
HandlerAt(pc, k, req) ==
  [pc |-> pc, k |-> k, req |-> req, etag |-> 0, primed |-> NoPrimed,
   r |-> NoResource, c |-> NoCalendar, got |-> {}]
Quiet == HandlerAt("idle", NoKey, NoRequest)

(* A client sends a request, for the first time or again under its key.    *)
Send(h, k, req) ==
  /\ sends < MaxSends
  /\ hs[h].pc = "idle"
  /\ req.op \in Ops
  /\ hs' = [hs EXCEPT ![h] = HandlerAt("admit", k, req)]
  /\ sends' = sends + 1
  /\ UNCHANGED <<cacheVars, keyRow, flight, effects, heard>>

\* mutant: work in progress is a failure
ReplayedInProgress(h) ==
  LET row == keyRow[hs[h].k]
  IN  IF row.req # hs[h].req THEN {}
      ELSE {IF row.answer = NoAnswer THEN "uncertain" ELSE row.answer}

(* The answer to a key that exists: a replay of the stored response, "in   *)
(* progress" while there is none, a conflict for another request.          *)
Replayed(h) ==
  LET row == keyRow[hs[h].k]
  IN  IF row.req = hs[h].req /\ row.answer # NoAnswer THEN {row.answer} ELSE {}
AnswerFromKey(h) ==
  /\ heard' = [heard EXCEPT ![hs[h].k] = @ \cup Replayed(h)]
  /\ hs' = [hs EXCEPT ![h] = Quiet]
  /\ UNCHANGED <<cacheVars, keyRow, flight, sends, effects>>

Destination(c) == Enabled(calRow[c]) /\ c \notin ReadOnly
Writable(req) ==
  LET row == ev[req.o]
  IN  /\ Live(row) /\ row.version = req.version
      /\ row.safe /\ row.etag # 0 /\ req.o[2] = "base"
      /\ Destination(CollectionOf[req.o[1]])
Acceptable(req) ==
  CASE OnEvent(req) -> Writable(req)
    [] req.op \in {"create", "rmcal"} -> Destination(req.c)
    [] OTHER -> TRUE

(* Look the key up, then the gates and the preflight.  A request that is   *)
(* refused here leaves no row.                                             *)
Admit(h) ==
  /\ hs[h].pc = "admit"
  /\ \/ keyRow[hs[h].k].claimed /\ AnswerFromKey(h)
     \/ /\ ~keyRow[hs[h].k].claimed
        /\ hs' = [hs EXCEPT ![h] =
             IF ~Acceptable(hs[h].req) THEN Quiet
             ELSE [hs[h] EXCEPT !.pc = "claim",
                                !.etag = IF OnEvent(hs[h].req) THEN ev[hs[h].req.o].etag ELSE 0]]
        /\ UNCHANGED <<cacheVars, keyRow, flight, sends, effects, heard>>

(* mutant: the claim replaces a row that appeared since the lookup         *)
ClaimOver(h) ==
  /\ hs[h].pc = "claim"
  /\ keyRow' = [keyRow EXCEPT ![hs[h].k] =
                  [claimed |-> TRUE, req |-> hs[h].req, answer |-> NoAnswer]]
  /\ hs' = [hs EXCEPT ![h].pc = "prepare",
                      ![h].primed = IF OnEvent(hs[h].req)
                                    THEN [etag |-> ev[hs[h].req.o].etag,
                                          safe |-> ev[hs[h].req.o].safe]
                                    ELSE NoPrimed]
  /\ UNCHANGED <<cacheVars, flight, sends, effects, heard>>

(* Claim the key; then prepare_provider_write reads the event's row.       *)
Claim(h) ==
  /\ hs[h].pc = "claim"
  /\ \/ keyRow[hs[h].k].claimed /\ AnswerFromKey(h)
     \/ /\ ~keyRow[hs[h].k].claimed
        /\ keyRow' = [keyRow EXCEPT ![hs[h].k] =
                        [claimed |-> TRUE, req |-> hs[h].req, answer |-> NoAnswer]]
        /\ hs' = [hs EXCEPT ![h].pc = "prepare",
                            ![h].primed = IF OnEvent(hs[h].req)
                                          THEN [etag |-> ev[hs[h].req.o].etag,
                                                safe |-> ev[hs[h].req.o].safe]
                                          ELSE NoPrimed]
        /\ UNCHANGED <<cacheVars, flight, sends, effects, heard>>

-----------------------------------------------------------------------------
(* Answers.  Storing never replaces an answer.                             *)
Store(h, answer) ==
  /\ keyRow' = [keyRow EXCEPT ![hs[h].k].answer =
                  IF keyRow[hs[h].k].answer = NoAnswer THEN answer ELSE @]
  /\ heard' = [heard EXCEPT ![hs[h].k] =
                 @ \cup {IF keyRow[hs[h].k].answer = NoAnswer THEN answer
                         ELSE keyRow[hs[h].k].answer}]
  /\ hs' = [hs EXCEPT ![h] = Quiet]

Stop(h, answer) ==
  /\ Store(h, answer)
  /\ UNCHANGED <<cacheVars, flight, sends, effects>>

(* A call to the server that fails: without an outcome, or by a refusal    *)
(* of the server (rate limit, authentication).                             *)
CallFails(h, answer) ==
  /\ faults < MaxFaults
  /\ faults' = faults + 1
  /\ Store(h, answer)
  /\ UNCHANGED <<serverVars, cacheRows, rf, clock, history, flight, sends, effects>>

Goto(h, pc) ==
  /\ hs' = [hs EXCEPT ![h].pc = pc]
  /\ UNCHANGED <<cacheVars, keyRow, flight, sends, effects, heard>>

(* prepare_write_state lists the calendars and primes the event, then the  *)
(* checks before the first call of the write.                              *)
Prepare(h) ==
  LET req == hs[h].req
      c == CalendarOf(req)
  IN  /\ hs[h].pc = "prepare"
      /\ \/ \E answer \in {"uncertain", "rejected"} : CallFails(h, answer)
         \/ req.op # "mkcal" /\ c \notin collections /\ Stop(h, "not_found")
         \/ /\ OnEvent(req) /\ c \in collections
            /\ \/ (~hs[h].primed.safe \/ hs[h].primed.etag = 0) /\ Stop(h, "read_only")
               \/ /\ hs[h].primed.safe /\ hs[h].primed.etag # 0
                  /\ IF hs[h].primed.etag = hs[h].etag
                     THEN Goto(h, "check") ELSE Stop(h, "etag_conflict")
         \/ /\ ~OnEvent(req)
            /\ req.op = "mkcal" \/ c \in collections
            /\ Goto(h, "write")

(* _current_simple_uid: the event is still the one that the cache knows.   *)
CheckCurrent(h) ==
  LET r == hs[h].req.o[1]
  IN  /\ hs[h].pc = "check"
      /\ \/ \E answer \in {"uncertain", "rejected"} : CallFails(h, answer)
         \/ ~Reachable(r) /\ Stop(h, "not_found")
         \/ Reachable(r) /\ server[r].etag # hs[h].etag /\ Stop(h, "etag_conflict")
         \/ Reachable(r) /\ server[r].etag = hs[h].etag /\ Goto(h, "write")

-----------------------------------------------------------------------------
(* The write.  A new resource or collection gets a name never used.        *)
Reserved == {hs[h].r : h \in Handlers} \cup {w.r : w \in flight}
ReservedCalendars == {hs[h].c : h \in Handlers} \cup {w.c : w \in flight}
FreshResources(c) ==
  {r \in Resources \ Reserved : CollectionOf[r] = c /\ server[r].etag = 0}
FreshCalendars ==
  {c \in Calendars \ (collections \cup ReservedCalendars \cup Listed) :
     calRow[c] = "none" /\ \A r \in Resources : CollectionOf[r] = c => server[r].etag = 0}

Targets(h) ==
  LET req == hs[h].req
  IN  CASE OnEvent(req) -> {[r |-> req.o[1], c |-> NoCalendar]}
        [] req.op = "create" -> {[r |-> r, c |-> NoCalendar] : r \in FreshResources(req.c)}
        [] req.op = "mkcal" -> {[r |-> NoResource, c |-> c] : c \in FreshCalendars}
        [] OTHER -> {[r |-> NoResource, c |-> req.c]}

WriteOf(h, target) ==
  [k |-> hs[h].k, req |-> hs[h].req, etag |-> hs[h].etag, r |-> target.r, c |-> target.c]

(* mutant: the write carries no precondition                               *)
VerdictOnName(w) ==
  CASE OnEvent(w.req) -> IF ~Reachable(w.r) THEN "not_found" ELSE "ok"
    [] w.req.op = "create" -> IF w.req.c \notin collections THEN "not_found"
                              ELSE IF server[w.r].etag # 0 THEN "etag_conflict" ELSE "ok"
    [] w.req.op = "mkcal" -> "ok"
    [] OTHER -> IF w.c \in collections THEN "ok" ELSE "not_found"

(* What the server answers to a write: "ok" when the precondition holds.   *)
Verdict(w) ==
  CASE OnEvent(w.req) -> IF ~Reachable(w.r) THEN "not_found"
                         ELSE IF server[w.r].etag # w.etag THEN "etag_conflict" ELSE "ok"
    [] w.req.op = "create" -> IF w.req.c \notin collections THEN "not_found"
                              ELSE IF server[w.r].etag # 0 THEN "etag_conflict" ELSE "ok"
    [] w.req.op = "mkcal" -> "ok"
    [] OTHER -> IF w.c \in collections THEN "ok" ELSE "not_found"

Apply(w) ==
  /\ Verdict(w) = "ok"
  /\ server' =
       CASE w.req.op \in {"create", "update"} ->
              [server EXCEPT ![w.r] = [there |-> TRUE, etag |-> server[w.r].etag + 1,
                                       kind |-> "simple", content |-> w.req.content]]
         [] w.req.op = "delete" -> [server EXCEPT ![w.r].there = FALSE]
         [] w.req.op = "rmcal" -> [r \in Resources |-> IF CollectionOf[r] = w.c
                                     THEN [server[r] EXCEPT !.there = FALSE] ELSE server[r]]
         [] OTHER -> server
  /\ collections' = CASE w.req.op = "mkcal" -> collections \cup {w.c}
                      [] w.req.op = "rmcal" -> collections \ {w.c}
                      [] OTHER -> collections
  /\ effects' = [effects EXCEPT ![w.k] = @ + 1]
  /\ calm' = FALSE
  /\ UNCHANGED <<changes, cacheRows, rf, clock, told>>

Write(h) ==
  /\ hs[h].pc = "write"
  /\ \E target \in Targets(h) :
       LET w == WriteOf(h, target)
       IN  \/ /\ Apply(w)
              /\ hs' = [hs EXCEPT ![h].pc = "readback", ![h].r = target.r, ![h].c = target.c]
              /\ UNCHANGED <<faults, keyRow, flight, sends, heard>>
           \/ Verdict(w) # "ok" /\ Stop(h, Verdict(w))
           \/ CallFails(h, "rejected")
           \* applied, with an answer that cannot be understood
           \/ /\ Apply(w)
              /\ faults < MaxFaults /\ faults' = faults + 1
              /\ Store(h, "payload_invalid")
              /\ UNCHANGED <<flight, sends>>
           \* no answer: the write is on its way, or lost
           \/ /\ faults < MaxFaults
              /\ faults' = faults + 1
              /\ flight' = flight \cup {w}
              /\ Store(h, "uncertain")
              /\ UNCHANGED <<serverVars, cacheRows, rf, clock, history, sends, effects>>

Arrive(w) ==
  /\ flight' = flight \ {w}
  /\ \/ Apply(w)
     \/ Verdict(w) # "ok" /\ UNCHANGED <<collections, server, calRow, ev, source, rf, clock,
                                         changes, told, calm, effects>>
  /\ UNCHANGED <<faults, keyRow, hs, sends, heard>>

-----------------------------------------------------------------------------
(* Reading back what was written.                                          *)
Found(h, got) ==
  /\ hs' = [hs EXCEPT ![h].pc = "finish", ![h].got = got]
  /\ UNCHANGED <<cacheVars, keyRow, flight, sends, effects, heard>>

ReadEvent(h) ==
  LET r == hs[h].r
  IN  \/ ~Reachable(r) /\ Stop(h, "uncertain")
      \/ Reachable(r) /\ server[r].kind = "multi" /\ Stop(h, "payload_invalid")
      \/ /\ Reachable(r) /\ server[r].kind # "multi"
         /\ Found(h, {[o |-> OccurrenceOf(r), content |-> server[r].content,
                       etag |-> server[r].etag, safe |-> server[r].kind = "simple"]})

(* A deletion, or a calendar, is confirmed by what is (not) there.         *)
ReadPresence(h) ==
  LET done == CASE hs[h].req.op = "delete" -> ~server[hs[h].r].there
                [] hs[h].req.op = "mkcal" -> hs[h].c \in collections
                [] OTHER -> hs[h].c \notin collections
  IN  IF done THEN Found(h, {}) ELSE Stop(h, "uncertain")

\* mutant: a readback that fails counts as a refusal
ReadbackRefused(h) ==
  /\ hs[h].pc = "readback"
  /\ \/ CallFails(h, "rejected")
     \/ hs[h].req.op \in {"create", "update"} /\ ReadEvent(h)
     \/ hs[h].req.op \notin {"create", "update"} /\ ReadPresence(h)
Readback(h) ==
  /\ hs[h].pc = "readback"
  /\ \/ CallFails(h, "uncertain")
     \/ hs[h].req.op \in {"create", "update"} /\ ReadEvent(h)
     \/ hs[h].req.op \notin {"create", "update"} /\ ReadPresence(h)

(* The final transaction: the confirmed result and the answer, or neither. *)
ReconcileEvent(x) ==
  /\ ev' = [ev EXCEPT ![x.o] = Upsert(ev[x.o], x)]
  /\ UNCHANGED <<calRow, source>>
ReconcileDeletedEvent(o) ==
  /\ ev' = [ev EXCEPT ![o] = IF ev[o].deleted THEN ClearMisses(ev[o]) ELSE Tombstone(ev[o])]
  /\ UNCHANGED <<calRow, source>>
ReconcileCreatedCalendar(c) ==
  /\ source' = [status |-> "current", last |-> clock]
  /\ calRow' = [calRow EXCEPT ![c] = "current"]
  /\ UNCHANGED ev
ReconcileDeletedCalendar(c) ==
  /\ calRow' = [calRow EXCEPT ![c] = IF @ = "none" THEN @ ELSE "disabled"]
  /\ UNCHANGED <<ev, source>>

Reconcile(h) ==
  LET req == hs[h].req
  IN  \/ req.op \in {"create", "update"} /\ \E x \in hs[h].got : ReconcileEvent(x)
      \/ req.op = "delete" /\ ReconcileDeletedEvent(req.o)
      \/ req.op = "mkcal" /\ ReconcileCreatedCalendar(hs[h].c)
      \/ req.op = "rmcal" /\ ReconcileDeletedCalendar(hs[h].c)

(* The event that was updated has become a series: another identity.       *)
IdentityChanged(h) ==
  hs[h].req.op = "update" /\ \E x \in hs[h].got : x.o # hs[h].req.o

Finish(h) ==
  /\ hs[h].pc = "finish"
  /\ \/ CallFails(h, "uncertain")
     \/ IdentityChanged(h) /\ Stop(h, "uncertain")
     \/ /\ ~IdentityChanged(h)
        /\ Reconcile(h)
        /\ Store(h, "ok")
        /\ calm' = FALSE
        /\ UNCHANGED <<serverVars, rf, clock, faults, told, flight, sends, effects>>

-----------------------------------------------------------------------------
HandlerStep(h) ==
  \/ Admit(h) \/ Claim(h) \/ Prepare(h) \/ CheckCurrent(h)
  \/ Write(h) \/ Readback(h) \/ Finish(h)

(* The process ends: refresh and handlers are gone; the rows stay, and so  *)
(* do the writes that had been sent.                                       *)
Restart ==
  /\ rf.pc # "idle" \/ \E h \in Handlers : hs[h].pc # "idle"
  /\ faults < MaxFaults
  /\ faults' = faults + 1
  /\ rf' = Idle
  /\ hs' = [h \in Handlers |-> Quiet]
  /\ \E sent \in SUBSET {h \in Handlers : hs[h].pc = "write" /\ Targets(h) # {}} :
       flight' = flight \cup {WriteOf(h, CHOOSE target \in Targets(h) : TRUE) : h \in sent}
  /\ UNCHANGED <<serverVars, cacheRows, clock, history, keyRow, sends, effects, heard>>

MutationInit ==
  /\ Init
  /\ keyRow = [k \in Keys |-> Unclaimed]
  /\ hs = [h \in Handlers |-> Quiet]
  /\ flight = {} /\ sends = 0
  /\ effects = [k \in Keys |-> 0]
  /\ heard = [k \in Keys |-> {}]

CacheStep == (Others \/ RefreshStep \/ Tick) /\ UNCHANGED mutationVars

MutationNext ==
  \/ CacheStep
  \/ \E h \in Handlers, k \in Keys : \E req \in Requests : Send(h, k, req)
  \/ \E h \in Handlers : HandlerStep(h)
  \/ \E w \in flight : Arrive(w)
  \/ Restart

MutationSpec == MutationInit /\ [][MutationNext]_vars

-----------------------------------------------------------------------------
Primed == [etag : Nat, safe : BOOLEAN]
HandlerState ==
  [pc : {"idle", "admit", "claim", "prepare", "check", "write", "readback", "finish"},
   k : Keys \cup {NoKey}, req : Request \cup {NoRequest}, etag : Nat, primed : Primed,
   r : Resources \cup {NoResource}, c : Calendars \cup {NoCalendar}, got : SUBSET Observation]

MutationTypeOK ==
  /\ TypeOK
  /\ keyRow \in [Keys -> [claimed : BOOLEAN, req : Request \cup {NoRequest},
                          answer : Answers \cup {NoAnswer}]]
  /\ hs \in [Handlers -> HandlerState]
  /\ flight \subseteq [k : Keys, req : Request, etag : Nat,
                       r : Resources \cup {NoResource}, c : Calendars \cup {NoCalendar}]
  /\ sends \in Nat
  /\ effects \in [Keys -> Nat]
  /\ heard \in [Keys -> SUBSET Answers]

(* One key, one effect: requests repeated under a key, at the same time or *)
(* after a restart, change the server at most once between them.           *)
OneEffectPerKey == \A k \in Keys : effects[k] <= 1

(* One key, one answer: whoever asks under a key hears the same outcome.   *)
OneAnswerPerKey == \A k \in Keys : Cardinality(heard[k]) <= 1

(* A stored success took effect, a stored refusal did not.  An answer or a *)
(* readback that cannot be understood is excepted: README.md, section 5,   *)
(* says what it does.                                                      *)
AnswersAreTrue ==
  \A k \in Keys :
     /\ keyRow[k].answer = "ok" => effects[k] = 1
     /\ keyRow[k].answer \in Refusals \ {"payload_invalid"} => effects[k] = 0

(* A write of the bot replaces or deletes only what the client saw when it *)
(* chose the version, however many refreshes and changes lie between.      *)
Overwrites(k) == effects'[k] # effects[k] /\ OnEvent(keyRow[k].req)
NoLostUpdate ==
  [][\A k \in Keys : Overwrites(k) =>
       LET req == keyRow[k].req
       IN  server[req.o[1]].kind = "simple" /\ server[req.o[1]].content = req.seen]_vars
=============================================================================
