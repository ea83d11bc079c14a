----------------------- MODULE ProviderMutationProofs -----------------------
(***************************************************************************)
(* Proofs about the calendar copy and the writes through the provider, for *)
(* any number of keys, handlers, calendars and resources, any restart,     *)
(* lost answer and late write: the types of CalendarCache alone and of     *)
(* ProviderMutation, what an idempotency key promises, that no write       *)
(* replaces a content its client has not seen, when a copy is called       *)
(* current, and, for calendars that a refresh verifies as a whole, what    *)
(* tombstones take and what a refresh in a calm leaves behind.             *)
(***************************************************************************)
EXTENDS ProviderMutation, FiniteSetTheorems, TLAPS

-----------------------------------------------------------------------------
(* The calendar copy by itself.                                            *)

(* The operators on rows return rows.                                      *)
LEMMA RowOperators ==
  ASSUME NEW row \in Row
  PROVE  /\ Tombstone(row) \in Row
         /\ MarkStale(row) \in Row
         /\ ClearMisses(row) \in Row
         /\ \A x \in Observation : Upsert(row, x) \in Row
<1>1. /\ row.known \in BOOLEAN /\ row.content \in Contents \cup {NoContent}
      /\ row.deleted \in BOOLEAN /\ row.sync \in {"none", "synced", "stale"}
      /\ row.version \in Nat /\ row.etag \in Nat /\ row.safe \in BOOLEAN /\ row.misses \in 0..1
  BY DEF Row
<1>2. Tombstone(row) \in Row
  <2> DEFINE version == row.version + 1
  <2>1. version \in Nat
    BY <1>1
  <2>2. Tombstone(row) = [row EXCEPT !.deleted = TRUE, !.version = version, !.misses = 0]
    BY DEF Tombstone
  <2> HIDE DEF version
  <2>3. Tombstone(row) = [known |-> row.known, content |-> row.content, deleted |-> TRUE,
                          sync |-> row.sync, version |-> version, etag |-> row.etag,
                          safe |-> row.safe, misses |-> 0]
    BY <2>2 DEF Row
  <2> QED BY <1>1, <2>1, <2>3 DEF Row
<1>3. MarkStale(row) \in Row
  BY DEF Row, MarkStale
<1>4. ClearMisses(row) \in Row
  BY DEF Row, ClearMisses
<1>5. ASSUME NEW x \in Observation PROVE Upsert(row, x) \in Row
  <2>1. x.content \in Contents \cup {NoContent} /\ x.etag \in Nat /\ x.safe \in BOOLEAN
    BY DEF Observation
  <2> DEFINE version == Upsert(row, x).version
  <2>2. version \in Nat
    BY <1>1 DEF Upsert
  <2>3. Upsert(row, x) = [known |-> TRUE, content |-> x.content, deleted |-> FALSE,
                          sync |-> "synced", version |-> version, etag |-> x.etag,
                          safe |-> x.safe, misses |-> 0]
    BY DEF Upsert
  <2> HIDE DEF version
  <2> QED BY <2>1, <2>2, <2>3 DEF Row
<1> QED BY <1>2, <1>3, <1>4, <1>5

(* An answer of the server consists of observations.                       *)
LEMMA ReportType ==
  ASSUME server \in [Resources -> Resource], NEW r \in Resources, NEW tagged \in BOOLEAN
  PROVE  Report(r, tagged) \subseteq Observation
<1> DEFINE plain == tagged /\ server[r].kind = "simple"
<1> DEFINE Obs(o) == [o |-> o, content |-> server[r].content, safe |-> plain,
                      etag |-> IF plain THEN server[r].etag ELSE 0]
<1>1. server[r].content \in Contents \cup {NoContent} /\ server[r].etag \in Nat
  BY DEF Resource
<1>2. OccurrenceOf(r) \in Occurrences
  BY DEF OccurrenceOf, Occurrences
<1>3. \A o \in Occurrences : Obs(o) \in Observation
  BY <1>1 DEF Observation
<1>4. Report(r, tagged) = {Obs(o) : o \in {x \in {OccurrenceOf(r)} : Shown(x)}}
  BY DEF Report
<1> QED BY <1>2, <1>3, <1>4

(* An empty copy of the calendars that exist is well typed.                *)
LEMMA InitType == ASSUME CalendarAssumption, Init PROVE TypeOK
<1>1. (CHOOSE x \in Contents : TRUE) \in Contents
  BY DEF CalendarAssumption
<1>2. server \in [Resources -> Resource]
  BY <1>1 DEF CalendarAssumption, Init, Resource
<1>3. ev \in [Occurrences -> Row]
  BY DEF Init, Row, NoRow
<1>4. rf \in RefreshState
  BY DEF Init, Idle, RefreshState
<1> QED BY <1>2, <1>3, <1>4 DEF Init, TypeOK, CalendarAssumption

(* Other devices write resources, and share calendars of the server.       *)
LEMMA OthersType == ASSUME CalendarAssumption, TypeOK, Others PROVE TypeOK'
<1>1. CASE \E r \in Resources, kind \in Kinds, content \in Contents : OthersWrite(r, kind, content)
  <2>1. PICK r \in Resources, kind \in Kinds, content \in Contents : OthersWrite(r, kind, content)
    BY <1>1
  <2>2. server[r].etag + 1 \in Nat
    BY DEF TypeOK, Resource
  <2>3. server' \in [Resources -> Resource]
    BY <2>1, <2>2 DEF TypeOK, OthersWrite, Resource
  <2>4. changes' \in Nat /\ calm' \in BOOLEAN
    <3>1. changes' \in Nat
      BY <2>1 DEF TypeOK, OthersWrite
    <3>2. calm' = FALSE
      BY <2>1 DEF OthersWrite
    <3> QED BY <3>1, <3>2
  <2>5. UNCHANGED <<collections, calRow, ev, source, rf, clock, faults, told>>
    BY <2>1 DEF OthersWrite, cacheRows
  <2> QED BY <2>3, <2>4, <2>5 DEF TypeOK
<1>2. CASE \E r \in Resources : OthersDelete(r)
  <2>1. PICK r \in Resources : OthersDelete(r)
    BY <1>2
  <2>2. [server[r] EXCEPT !.there = FALSE] \in Resource
    <3>1. server[r] \in Resource
      BY DEF TypeOK
    <3> QED BY <3>1 DEF Resource
  <2>3. server' \in [Resources -> Resource]
    BY <2>1, <2>2 DEF TypeOK, OthersDelete
  <2>4. changes' \in Nat /\ calm' \in BOOLEAN
    <3>1. changes' \in Nat
      BY <2>1 DEF TypeOK, OthersDelete
    <3>2. calm' = FALSE
      BY <2>1 DEF OthersDelete
    <3> QED BY <3>1, <3>2
  <2>5. UNCHANGED <<collections, calRow, ev, source, rf, clock, faults, told>>
    BY <2>1 DEF OthersDelete, cacheRows
  <2> QED BY <2>3, <2>4, <2>5 DEF TypeOK
<1>3. CASE \E c \in Calendars : OthersShare(c)
  <2>1. PICK c \in Calendars : OthersShare(c)
    BY <1>3
  <2>2. collections' \subseteq Calendars
    BY <2>1 DEF TypeOK, OthersShare
  <2>3. changes' \in Nat /\ calm' \in BOOLEAN
    <3>1. changes' \in Nat
      BY <2>1 DEF TypeOK, OthersShare
    <3>2. calm' = FALSE
      BY <2>1 DEF OthersShare
    <3> QED BY <3>1, <3>2
  <2>4. UNCHANGED <<server, calRow, ev, source, rf, clock, faults, told>>
    BY <2>1 DEF OthersShare, cacheRows
  <2> QED BY <2>2, <2>3, <2>4 DEF TypeOK
<1> QED BY <1>1, <1>2, <1>3 DEF Others

(* A refresh starts with nothing listed.                                   *)
LEMMA BeginType == ASSUME TypeOK, BeginRefresh PROVE TypeOK'
<1>1. rf' \in RefreshState
  BY DEF TypeOK, BeginRefresh, Idle, RefreshState
<1> QED BY <1>1 DEF TypeOK, BeginRefresh, serverVars, cacheRows

(* It takes over the list of the server.                                   *)
LEMMA ListType == ASSUME TypeOK, ListCalendars PROVE TypeOK'
<1>1. rf' \in RefreshState
  BY DEF TypeOK, ListCalendars, RefreshState
<1> QED BY <1>1 DEF TypeOK, ListCalendars, serverVars, cacheRows, history

(* It collects what the report on a calendar says.                         *)
LEMMA FetchType ==
  ASSUME TypeOK, NEW c \in Calendars, FetchEvents(c) PROVE TypeOK'
<1> DEFINE reports == UNION {Report(r, TRUE) : r \in {q \in Resources : CollectionOf[q] = c}}
<1>1. reports \subseteq Observation
  BY ReportType DEF TypeOK
<1>2. rf.fetched \cup reports \in SUBSET Observation
  BY <1>1 DEF TypeOK, RefreshState
<1>3. rf' = [rf EXCEPT !.cal = c, !.todo = rf.todo \ {c}, !.pc = "ask",
                       !.fetched = rf.fetched \cup reports]
  BY DEF FetchEvents
<1> HIDE DEF reports
<1>4. rf' \in RefreshState
  BY <1>2, <1>3 DEF TypeOK, RefreshState
<1> QED BY <1>4 DEF TypeOK, FetchEvents, serverVars, cacheRows, history

(* It asks for resources of the calendar.                                  *)
LEMMA AskType == ASSUME TypeOK, AskResources PROVE TypeOK'
<1>1. CachedRefs(rf.cal) \in SUBSET Resources
  BY DEF CachedRefs
<1>2. rf' = [rf EXCEPT !.asked = CachedRefs(rf.cal),
                       !.pc = IF CachedRefs(rf.cal) = {} THEN AfterCalendar ELSE "verify"]
  BY DEF AskResources
<1>3. rf' \in RefreshState
  BY <1>1, <1>2 DEF TypeOK, RefreshState, AfterCalendar
<1> QED BY <1>3 DEF TypeOK, AskResources, serverVars, cacheRows, history

(* It sorts what it asked for into missing and present; the wrong answers  *)
(* it counts are finitely many.                                            *)
LEMMA VerifyType ==
  ASSUME CalendarAssumption, TypeOK, NEW wrong \in SUBSET rf.asked, VerifyResources(wrong)
  PROVE  TypeOK'
<1> DEFINE missing == wrong \cup {r \in rf.asked : ~server[r].there}
           present == rf.asked \ missing
           reports == UNION {Report(r, FALSE) : r \in present}
<1>1. rf.asked \subseteq Resources
  BY DEF TypeOK, RefreshState
<1>2. missing \subseteq Resources /\ present \subseteq Resources
  BY <1>1
<1>3. reports \subseteq Observation
  <2>1. \A r \in present : Report(r, FALSE) \subseteq Observation
    BY <1>2, ReportType DEF TypeOK
  <2> QED BY <2>1
<1>4. rf' = [rf EXCEPT !.pc = AfterCalendar, !.missing = rf.missing \cup missing,
                       !.present = rf.present \cup present,
                       !.verified = rf.verified \cup reports]
  BY DEF VerifyResources
<1> HIDE DEF missing, present, reports
<1>5. rf' \in RefreshState
  BY <1>2, <1>3, <1>4 DEF TypeOK, RefreshState, AfterCalendar
<1>6. faults' \in Nat
  <2>1. IsFiniteSet(wrong)
    BY <1>1, FS_Subset DEF CalendarAssumption
  <2>2. Cardinality(wrong) \in Nat
    BY <2>1, FS_CardinalityType
  <2> QED BY <2>2 DEF TypeOK, VerifyResources
<1> QED BY <1>5, <1>6 DEF TypeOK, VerifyResources, serverVars, cacheRows

(* Whatever a refresh has seen, the transaction makes rows of rows.        *)
LEMMA ReconciledType ==
  ASSUME TypeOK, NEW o \in Occurrences PROVE Reconciled(o) \in Row
<1>1. \A row \in Row : \A seen \in SUBSET Observation : Observe(row, o, seen) \in Row
  <2> TAKE row \in Row
  <2> TAKE seen \in SUBSET Observation
  <2>1. CASE \E x \in seen : x.o = o
    <3>1. (CHOOSE x \in seen : x.o = o) \in Observation
      BY <2>1
    <3> QED BY <2>1, <3>1, RowOperators DEF Observe
  <2>2. CASE ~\E x \in seen : x.o = o
    BY <2>2 DEF Observe
  <2> QED BY <2>1, <2>2
<1>2. ev[o] \in Row /\ rf.fetched \in SUBSET Observation /\ rf.verified \in SUBSET Observation
  BY DEF TypeOK, RefreshState
<1>3. Observed(o) \in Row
  BY <1>1, <1>2 DEF Observed
<1>4. \A row \in Row : OnMissing(row, o[1]) \in Row
  <2> TAKE row \in Row
  <2>1. [row EXCEPT !.misses = 1] \in Row
    BY DEF Row
  <2> QED BY <2>1, RowOperators DEF OnMissing
<1>5. \A row \in Row : OnPresent(row, o) \in Row
  BY RowOperators DEF OnPresent
<1>6. \A row \in Row : ClearMisses(MarkStale(row)) \in Row
  BY RowOperators
<1> QED BY <1>3, <1>4, <1>5, <1>6 DEF Reconciled

(* The state between two refreshes.                                        *)
LEMMA IdleType == Idle \in RefreshState
  BY DEF Idle, RefreshState

(* The transaction of a complete refresh writes rows and statuses.         *)
LEMMA CommitType == ASSUME TypeOK, CommitRefresh PROVE TypeOK'
<1>1. ev' \in [Occurrences -> Row]
  BY ReconciledType DEF CommitRefresh
<1>2. calRow' \in [Calendars -> {"none", "current", "stale", "disabled"}]
  BY DEF CommitRefresh, TypeOK
<1>3. rf.since \in Nat /\ rf.missing \subseteq Resources
  BY DEF TypeOK, RefreshState
<1>4. rf' \in RefreshState
  BY IdleType DEF CommitRefresh
<1> QED BY <1>1, <1>2, <1>3, <1>4 DEF TypeOK, CommitRefresh, serverVars

(* So does the one of a failed refresh; a calendar that has a row never    *)
(* gets the status of a copy that never was.                               *)
LEMMA FailureType == ASSUME TypeOK, RefreshFails PROVE TypeOK'
<1>0. RecordFailure
  BY DEF RefreshFails
<1>1. FailureStatus \in {"current", "stale", "error"}
  BY DEF FailureStatus
<1>2. ev' \in [Occurrences -> Row]
  <2> DEFINE new(o) == IF FailureStatus = "stale" THEN MarkStale(ev[o]) ELSE ev[o]
  <2>1. \A o \in Occurrences : ClearMisses(new(o)) \in Row
    BY RowOperators DEF TypeOK
  <2>2. ev' = [o \in Occurrences |-> ClearMisses(new(o))]
    BY <1>0 DEF RecordFailure
  <2> QED BY <2>1, <2>2
<1>3. calRow' \in [Calendars -> {"none", "current", "stale", "disabled"}]
  <2>1. ASSUME NEW c \in Calendars, Enabled(calRow[c]) PROVE FailureStatus # "error"
    BY <2>1 DEF FailureStatus, Enabled
  <2> QED BY <1>0, <1>1, <2>1 DEF TypeOK, RecordFailure
<1>4. source' \in [status : {"current", "stale", "error"}, last : Nat]
  BY <1>0, <1>1 DEF TypeOK, RecordFailure
<1>5. faults' \in Nat
  BY DEF TypeOK, RefreshFails
<1>6. rf' \in RefreshState /\ told' = {}
  BY <1>0, IdleType DEF RecordFailure
<1> QED BY <1>0, <1>2, <1>3, <1>4, <1>5, <1>6 DEF TypeOK, RecordFailure, serverVars

(* Every step keeps the types.                                             *)
LEMMA CacheTypeStep == ASSUME CalendarAssumption, TypeOK, [Next]_cacheVars PROVE TypeOK'
<1>1. CASE Others
  BY <1>1, OthersType
<1>2. CASE RefreshStep
  BY <1>2, BeginType, ListType, FetchType, AskType, VerifyType, CommitType, FailureType
     DEF RefreshStep
<1>3. CASE Crash
  BY <1>3, IdleType DEF Crash, TypeOK, serverVars, cacheRows, history
<1>4. CASE Tick
  BY <1>4 DEF Tick, TypeOK, serverVars, cacheRows, history
<1>5. CASE UNCHANGED cacheVars
  BY <1>5 DEF cacheVars, TypeOK
<1> QED BY <1>1, <1>2, <1>3, <1>4, <1>5 DEF Next

(* The tables of the cache and the local variables of a refresh keep their *)
(* types, whatever the server answers.                                     *)
THEOREM CacheTypeCorrect == Spec => []TypeOK
<1>1. Init => TypeOK
  BY InitType, CalendarAssumption
<1>2. TypeOK /\ [Next]_cacheVars => TypeOK'
  BY CacheTypeStep, CalendarAssumption
<1> QED BY <1>1, <1>2, PTL DEF Spec

-----------------------------------------------------------------------------
(* Types.  A handler that is at work has a key and a complete request, and *)
(* one that reads an event back has its resource.                          *)
GoodRequest(req) == req \in Request /\ (OnEvent(req) => req.o \in Occurrences)
HandlerShape ==
  \A h \in Handlers :
     hs[h].pc # "idle" =>
        /\ hs[h].k \in Keys
        /\ GoodRequest(hs[h].req)
        /\ hs[h].pc = "readback" /\ hs[h].req.op \in {"create", "update"}
             => hs[h].r \in Resources
FlightShape == \A w \in flight : w.req.op = "mkcal" => w.c \in Calendars
MutationTypeInv == MutationTypeOK /\ HandlerShape /\ FlightShape

(* A handler without a request.                                            *)
LEMMA QuietType == Quiet \in HandlerState
  BY DEF Quiet, HandlerAt, HandlerState, NoPrimed, Primed

(* One handler moves to a new state.                                       *)
LEMMA OneHandlerMoves ==
  ASSUME MutationTypeInv, NEW h \in Handlers, NEW rec \in HandlerState,
         rec.pc # "idle" => /\ rec.k \in Keys
                            /\ GoodRequest(rec.req)
                            /\ rec.pc = "readback" /\ rec.req.op \in {"create", "update"}
                                 => rec.r \in Resources,
         hs' = [hs EXCEPT ![h] = rec]
  PROVE  hs' \in [Handlers -> HandlerState] /\ HandlerShape'
<1>1. hs \in [Handlers -> HandlerState]
  BY DEF MutationTypeInv, MutationTypeOK
<1>2. hs'[h] = rec /\ \A g \in Handlers : g # h => hs'[g] = hs[g]
  BY <1>1
<1>3. hs' \in [Handlers -> HandlerState]
  BY <1>1
<1>4. ASSUME NEW g \in Handlers, hs'[g].pc # "idle"
      PROVE  /\ hs'[g].k \in Keys
             /\ GoodRequest(hs'[g].req)
             /\ hs'[g].pc = "readback" /\ hs'[g].req.op \in {"create", "update"}
                  => hs'[g].r \in Resources
  BY <1>2, <1>4 DEF MutationTypeInv, HandlerShape
<1> QED BY <1>3, <1>4 DEF HandlerShape, GoodRequest

(* A client asks for calendars and events that the copy has shown.         *)
LEMMA RequestsAreGood ==
  ASSUME TypeOK, NEW req \in Requests, req.op \in Ops PROVE GoodRequest(req)
<1>1. ASSUME NEW op \in Ops, NEW c \in Calendars \cup {NoCalendar},
             NEW x \in Contents \cup {NoContent}, op \notin {"update", "delete"}
      PROVE  GoodRequest(NewRequest(op, c, x))
  <2>1. NewRequest(op, c, x).op = op
    BY DEF NewRequest
  <2>2. NewRequest(op, c, x) \in Request
    BY DEF NewRequest, Request
  <2> QED BY <1>1, <2>1, <2>2 DEF GoodRequest, OnEvent
<1>2. ASSUME NEW op \in Ops, NEW o \in Occurrences, NEW x \in Contents \cup {NoContent}
      PROVE  GoodRequest(EventRequest(op, o, x))
  <2>1. ev[o].version \in Nat /\ ev[o].content \in Contents \cup {NoContent}
    BY DEF TypeOK, Row
  <2>2. EventRequest(op, o, x).o = o
    BY DEF EventRequest
  <2>3. EventRequest(op, o, x) \in Request
    BY <2>1 DEF EventRequest, Request
  <2> QED BY <2>2, <2>3 DEF GoodRequest
<1>3. \A op, c, x : NewRequest(op, c, x).op = op
  BY DEF NewRequest
<1>4. \A op, o, x : EventRequest(op, o, x).op = op
  BY DEF EventRequest
<1>5. CASE \E c \in Calendars, x \in Contents : req = NewRequest("create", c, x)
  BY <1>1, <1>3, <1>5
<1>6. CASE req = NewRequest("mkcal", NoCalendar, NoContent)
  BY <1>1, <1>3, <1>6
<1>7. CASE \E c \in Calendars : req = NewRequest("rmcal", c, NoContent)
  BY <1>1, <1>3, <1>7
<1>8. CASE \E o \in Occurrences, x \in Contents : req = EventRequest("update", o, x)
  BY <1>2, <1>4, <1>8
<1>9. CASE \E o \in Occurrences : req = EventRequest("delete", o, NoContent)
  BY <1>2, <1>4, <1>9
<1> QED BY <1>5, <1>6, <1>7, <1>8, <1>9 DEF Requests, LiveEvents

(* A request arrives at an idle handler.                                   *)
LEMMA SendType ==
  ASSUME MutationTypeInv, NEW h \in Handlers, NEW k \in Keys, NEW req \in Requests, Send(h, k, req)
  PROVE  MutationTypeInv'
<1> DEFINE rec == HandlerAt("admit", k, req)
<1>1. GoodRequest(req)
  BY RequestsAreGood DEF MutationTypeInv, MutationTypeOK, Send
<1>2. rec.pc = "admit" /\ rec.k = k /\ rec.req = req
  BY DEF HandlerAt
<1>3. rec \in HandlerState
  BY <1>1 DEF HandlerAt, GoodRequest, HandlerState, NoPrimed, Primed
<1>4. hs' = [hs EXCEPT ![h] = rec]
  BY DEF Send
<1> HIDE DEF rec
<1>5. hs' \in [Handlers -> HandlerState] /\ HandlerShape'
  BY <1>1, <1>2, <1>3, <1>4, OneHandlerMoves
<1>6. sends' \in Nat
  BY DEF MutationTypeInv, MutationTypeOK, Send
<1>7. UNCHANGED <<keyRow, flight, effects, heard>> /\ UNCHANGED cacheVars
  BY DEF Send
<1>8. TypeOK'
  BY <1>7 DEF MutationTypeInv, MutationTypeOK, TypeOK, cacheVars
<1> QED BY <1>5, <1>6, <1>7, <1>8 DEF MutationTypeInv, MutationTypeOK, FlightShape

(* The answer to a key that exists is one that was stored.                 *)
LEMMA AnswerFromKeyType ==
  ASSUME MutationTypeInv, NEW h \in Handlers, hs[h].k \in Keys, AnswerFromKey(h)
  PROVE  MutationTypeInv'
<1>1. hs' \in [Handlers -> HandlerState] /\ HandlerShape'
  <2>1. Quiet.pc = "idle"
    BY DEF Quiet, HandlerAt
  <2> QED BY <2>1, QuietType, OneHandlerMoves DEF AnswerFromKey
<1>2. Replayed(h) \subseteq Answers
  BY DEF Replayed, MutationTypeInv, MutationTypeOK
<1>3. heard' \in [Keys -> SUBSET Answers]
  BY <1>2 DEF AnswerFromKey, MutationTypeInv, MutationTypeOK
<1>4. UNCHANGED <<keyRow, flight, sends, effects>> /\ UNCHANGED cacheVars
  BY DEF AnswerFromKey
<1>5. TypeOK'
  BY <1>4 DEF MutationTypeInv, MutationTypeOK, TypeOK, cacheVars
<1> QED BY <1>1, <1>3, <1>4, <1>5 DEF MutationTypeInv, MutationTypeOK, FlightShape

(* A handler moves within its request: nothing of its key or request       *)
(* changes.                                                                *)
LEMMA HandlerProgress ==
  ASSUME MutationTypeInv, NEW h \in Handlers, hs[h].pc # "idle", NEW rec \in HandlerState,
         rec.k = hs[h].k, rec.req = hs[h].req,
         rec.pc = "readback" /\ rec.req.op \in {"create", "update"} => rec.r \in Resources,
         hs' = [hs EXCEPT ![h] = rec]
  PROVE  hs' \in [Handlers -> HandlerState] /\ HandlerShape'
<1>1. rec.k \in Keys /\ GoodRequest(rec.req)
  BY DEF MutationTypeInv, HandlerShape
<1> QED BY <1>1, OneHandlerMoves

(* Storing an answer keeps the types of the rows and ends the request.     *)
LEMMA StoreType ==
  ASSUME MutationTypeInv, NEW h \in Handlers, hs[h].pc # "idle",
         NEW answer \in Answers, Store(h, answer)
  PROVE  /\ hs' \in [Handlers -> HandlerState] /\ HandlerShape'
         /\ keyRow' \in [Keys -> [claimed : BOOLEAN, req : Request \cup {NoRequest},
                                  answer : Answers \cup {NoAnswer}]]
         /\ heard' \in [Keys -> SUBSET Answers]
<1>1. hs' \in [Handlers -> HandlerState] /\ HandlerShape'
  <2>1. Quiet.pc = "idle"
    BY DEF Quiet, HandlerAt
  <2> QED BY <2>1, QuietType, OneHandlerMoves DEF Store
<1>2. hs[h].k \in Keys
  BY DEF MutationTypeInv, HandlerShape
<1> DEFINE old == keyRow[hs[h].k].answer
           final == IF old = NoAnswer THEN answer ELSE old
<1>3. final \in Answers
  BY <1>2 DEF MutationTypeInv, MutationTypeOK
<1>4. keyRow' = [keyRow EXCEPT ![hs[h].k].answer = final]
  BY DEF Store
<1>5. heard' = [heard EXCEPT ![hs[h].k] = heard[hs[h].k] \cup {final}]
  BY DEF Store
<1> HIDE DEF final
<1>6. keyRow' \in [Keys -> [claimed : BOOLEAN, req : Request \cup {NoRequest},
                            answer : Answers \cup {NoAnswer}]]
  BY <1>2, <1>3, <1>4 DEF MutationTypeInv, MutationTypeOK
<1>7. heard' \in [Keys -> SUBSET Answers]
  BY <1>2, <1>3, <1>5 DEF MutationTypeInv, MutationTypeOK
<1> QED BY <1>1, <1>6, <1>7

(* A handler stores an answer and leaves all else alone.                   *)
LEMMA StopType ==
  ASSUME MutationTypeInv, NEW h \in Handlers, hs[h].pc # "idle",
         NEW answer \in Answers, Stop(h, answer)
  PROVE  MutationTypeInv'
<1>1. Store(h, answer) /\ UNCHANGED <<flight, sends, effects>> /\ UNCHANGED cacheVars
  BY DEF Stop
<1>2. TypeOK'
  BY <1>1 DEF MutationTypeInv, MutationTypeOK, TypeOK, cacheVars
<1> QED BY <1>1, <1>2, StoreType DEF MutationTypeInv, MutationTypeOK, FlightShape

(* A failed call is counted and answered.                                  *)
LEMMA CallFailsType ==
  ASSUME MutationTypeInv, NEW h \in Handlers, hs[h].pc # "idle",
         NEW answer \in Answers, CallFails(h, answer)
  PROVE  MutationTypeInv'
<1>1. /\ Store(h, answer) /\ UNCHANGED <<flight, sends, effects>> /\ faults' = faults + 1
      /\ UNCHANGED <<serverVars, cacheRows, rf, clock, history>>
  BY DEF CallFails
<1>2. TypeOK'
  BY <1>1 DEF MutationTypeInv, MutationTypeOK, TypeOK, serverVars, cacheRows, history
<1> QED BY <1>1, <1>2, StoreType DEF MutationTypeInv, MutationTypeOK, FlightShape

(* A step that moves nothing but one handler.                              *)
LEMMA MovesType ==
  ASSUME MutationTypeInv, hs' \in [Handlers -> HandlerState], HandlerShape',
         UNCHANGED <<cacheVars, keyRow, flight, sends, effects, heard>>
  PROVE  MutationTypeInv'
<1>1. TypeOK'
  BY DEF MutationTypeInv, MutationTypeOK, TypeOK, cacheVars
<1> QED BY <1>1 DEF MutationTypeInv, MutationTypeOK, FlightShape

(* A request that passes the gates remembers the ETag of its event.        *)
LEMMA AdmitType ==
  ASSUME MutationTypeInv, NEW h \in Handlers, Admit(h) PROVE MutationTypeInv'
<1>0. hs[h].pc = "admit" /\ hs[h].k \in Keys /\ GoodRequest(hs[h].req) /\ hs[h] \in HandlerState
  BY DEF Admit, MutationTypeInv, MutationTypeOK, HandlerShape
<1>1. CASE AnswerFromKey(h)
  BY <1>0, <1>1, AnswerFromKeyType
<1>2. CASE ~AnswerFromKey(h)
  <2> DEFINE etag == IF OnEvent(hs[h].req) THEN ev[hs[h].req.o].etag ELSE 0
             rec == [hs[h] EXCEPT !.pc = "claim", !.etag = etag]
  <2>1. UNCHANGED <<cacheVars, keyRow, flight, sends, effects, heard>>
    BY <1>2 DEF Admit
  <2>2. hs' = [hs EXCEPT ![h] = IF ~Acceptable(hs[h].req) THEN Quiet ELSE rec]
    BY <1>2 DEF Admit
  <2>3. etag \in Nat
    BY <1>0 DEF GoodRequest, MutationTypeInv, MutationTypeOK, TypeOK, Row
  <2> HIDE DEF etag
  <2>4. rec \in HandlerState /\ rec.pc = "claim" /\ rec.k = hs[h].k /\ rec.req = hs[h].req
    BY <1>0, <2>3 DEF HandlerState
  <2> HIDE DEF rec
  <2>5. hs' \in [Handlers -> HandlerState] /\ HandlerShape'
    <3>1. CASE Acceptable(hs[h].req)
      BY <1>0, <2>2, <2>4, <3>1, HandlerProgress
    <3>2. CASE ~Acceptable(hs[h].req)
      <4>1. Quiet.pc = "idle"
        BY DEF Quiet, HandlerAt
      <4> QED BY <2>2, <3>2, <4>1, QuietType, OneHandlerMoves
    <3> QED BY <3>1, <3>2
  <2> QED BY <2>1, <2>5, MovesType
<1> QED BY <1>1, <1>2

(* A claim makes a row for the request and primes the event.               *)
LEMMA ClaimType ==
  ASSUME MutationTypeInv, NEW h \in Handlers, Claim(h) PROVE MutationTypeInv'
<1>0. hs[h].pc = "claim" /\ hs[h].k \in Keys /\ GoodRequest(hs[h].req) /\ hs[h] \in HandlerState
  BY DEF Claim, MutationTypeInv, MutationTypeOK, HandlerShape
<1>1. CASE AnswerFromKey(h)
  BY <1>0, <1>1, AnswerFromKeyType
<1>2. CASE ~AnswerFromKey(h)
  <2> DEFINE row == ev[hs[h].req.o]
             primed == IF OnEvent(hs[h].req) THEN [etag |-> row.etag, safe |-> row.safe]
                       ELSE NoPrimed
             rec == [hs[h] EXCEPT !.pc = "prepare", !.primed = primed]
             new == [claimed |-> TRUE, req |-> hs[h].req, answer |-> NoAnswer]
  <2>1. UNCHANGED <<flight, sends, effects, heard>> /\ UNCHANGED cacheVars
    BY <1>2 DEF Claim
  <2>2. hs' = [hs EXCEPT ![h].pc = "prepare", ![h].primed = primed]
    BY <1>2 DEF Claim
  <2>3. keyRow' = [keyRow EXCEPT ![hs[h].k] = new]
    BY <1>2 DEF Claim
  <2>4. primed \in Primed
    BY <1>0 DEF GoodRequest, MutationTypeInv, MutationTypeOK, TypeOK, Row, Primed, NoPrimed
  <2> HIDE DEF primed
  <2>5. hs' = [hs EXCEPT ![h] = rec]
    BY <2>2 DEF MutationTypeInv, MutationTypeOK
  <2>6. rec \in HandlerState /\ rec.pc = "prepare" /\ rec.k = hs[h].k /\ rec.req = hs[h].req
    BY <1>0, <2>4 DEF HandlerState
  <2> HIDE DEF rec
  <2>7. hs' \in [Handlers -> HandlerState] /\ HandlerShape'
    BY <1>0, <2>5, <2>6, HandlerProgress
  <2>8. new \in [claimed : BOOLEAN, req : Request \cup {NoRequest}, answer : Answers \cup {NoAnswer}]
    BY <1>0 DEF GoodRequest
  <2> HIDE DEF new
  <2>9. keyRow' \in [Keys -> [claimed : BOOLEAN, req : Request \cup {NoRequest},
                              answer : Answers \cup {NoAnswer}]]
    BY <1>0, <2>3, <2>8 DEF MutationTypeInv, MutationTypeOK
  <2>10. TypeOK'
    BY <2>1 DEF MutationTypeInv, MutationTypeOK, TypeOK, cacheVars
  <2> QED BY <2>1, <2>7, <2>9, <2>10 DEF MutationTypeInv, MutationTypeOK, FlightShape
<1> QED BY <1>1, <1>2

(* From one check to the next.                                             *)
LEMMA GotoType ==
  ASSUME MutationTypeInv, NEW h \in Handlers, hs[h].pc # "idle",
         NEW pc \in {"check", "write"}, Goto(h, pc)
  PROVE  MutationTypeInv'
<1> DEFINE rec == [hs[h] EXCEPT !.pc = pc]
<1>1. hs[h] \in HandlerState /\ hs' = [hs EXCEPT ![h] = rec]
  BY DEF Goto, MutationTypeInv, MutationTypeOK
<1>2. rec \in HandlerState /\ rec.pc = pc /\ rec.k = hs[h].k /\ rec.req = hs[h].req
  BY <1>1 DEF HandlerState
<1> HIDE DEF rec
<1>3. hs' \in [Handlers -> HandlerState] /\ HandlerShape'
  BY <1>1, <1>2, HandlerProgress
<1> QED BY <1>3, MovesType DEF Goto

(* The checks before the write end in an answer or go on.                  *)
LEMMA PrepareType ==
  ASSUME MutationTypeInv, NEW h \in Handlers, Prepare(h) PROVE MutationTypeInv'
<1>1. hs[h].pc = "prepare"
  BY DEF Prepare
<1>2. \/ \E answer \in Answers : CallFails(h, answer) \/ Stop(h, answer)
      \/ Goto(h, "check") \/ Goto(h, "write")
  BY DEF Prepare, Answers, Refusals
<1> QED BY <1>1, <1>2, CallFailsType, StopType, GotoType

(* So does the look at the current event.                                  *)
LEMMA CheckCurrentType ==
  ASSUME MutationTypeInv, NEW h \in Handlers, CheckCurrent(h) PROVE MutationTypeInv'
<1>1. hs[h].pc = "check"
  BY DEF CheckCurrent
<1>2. \/ \E answer \in Answers : CallFails(h, answer) \/ Stop(h, answer)
      \/ Goto(h, "write")
  BY DEF CheckCurrent, Answers, Refusals
<1> QED BY <1>1, <1>2, CallFailsType, StopType, GotoType

-----------------------------------------------------------------------------
WriteRecord == [k : Keys, req : Request, etag : Nat,
                r : Resources \cup {NoResource}, c : Calendars \cup {NoCalendar}]

(* A write that takes effect leaves resources and counters well typed.     *)
LEMMA ApplyType ==
  ASSUME CalendarAssumption, MutationTypeInv, NEW w \in WriteRecord, Apply(w),
         w.req.op = "mkcal" => w.c \in Calendars
  PROVE  /\ collections' \subseteq Calendars /\ server' \in [Resources -> Resource]
         /\ effects' \in [Keys -> Nat] /\ calm' \in BOOLEAN
<1>0. server \in [Resources -> Resource] /\ collections \subseteq Calendars /\ effects \in [Keys -> Nat]
  BY DEF MutationTypeInv, MutationTypeOK, TypeOK
<1>1. server' \in [Resources -> Resource]
  <2> DEFINE new == [there |-> TRUE, etag |-> server[w.r].etag + 1,
                     kind |-> "simple", content |-> w.req.content]
             gone(r) == [server[r] EXCEPT !.there = FALSE]
  <2>1. w.r \in Resources => new \in Resource
    <3> SUFFICES ASSUME w.r \in Resources PROVE new \in Resource
      OBVIOUS
    <3>1. server[w.r].etag + 1 \in Nat
      BY <1>0 DEF Resource
    <3>2. w.req.content \in Contents \cup {NoContent}
      BY DEF WriteRecord, Request
    <3>3. "simple" \in Kinds
      BY DEF CalendarAssumption
    <3> QED BY <3>1, <3>2, <3>3 DEF Resource
  <2>2. \A r \in Resources : gone(r) \in Resource
    <3> TAKE r \in Resources
    <3>1. server[r] \in Resource
      BY <1>0
    <3> QED BY <3>1 DEF Resource
  <2>3. CASE w.req.op \in {"create", "update"}
    <3>1. server' = [server EXCEPT ![w.r] = new]
      BY <2>3 DEF Apply
    <3> HIDE DEF new
    <3> QED BY <1>0, <2>1, <3>1
  <2>4. CASE w.req.op = "delete"
    <3>1. server' = [server EXCEPT ![w.r] = gone(w.r)]
      BY <2>4 DEF Apply
    <3> HIDE DEF gone
    <3> QED BY <1>0, <2>2, <3>1
  <2>5. CASE w.req.op = "rmcal"
    <3>1. server' = [r \in Resources |-> IF CollectionOf[r] = w.c THEN gone(r) ELSE server[r]]
      BY <2>5 DEF Apply
    <3> HIDE DEF gone
    <3> QED BY <1>0, <2>2, <3>1
  <2>6. CASE w.req.op \notin {"create", "update", "delete", "rmcal"}
    BY <1>0, <2>6 DEF Apply
  <2> QED BY <2>3, <2>4, <2>5, <2>6
<1>2. collections' \subseteq Calendars
  <2>1. CASE w.req.op = "mkcal"
    BY <1>0, <2>1 DEF Apply
  <2>2. CASE w.req.op = "rmcal"
    BY <1>0, <2>2 DEF Apply
  <2>3. CASE w.req.op \notin {"mkcal", "rmcal"}
    BY <1>0, <2>3 DEF Apply
  <2> QED BY <2>1, <2>2, <2>3
<1>3. effects' \in [Keys -> Nat]
  <2>1. w.k \in Keys
    BY DEF WriteRecord
  <2> QED BY <1>0, <2>1 DEF Apply
<1>4. calm' = FALSE
  BY DEF Apply
<1> QED BY <1>1, <1>2, <1>3, <1>4

(* What a handler writes.                                                  *)
LEMMA TargetType ==
  ASSUME MutationTypeInv, NEW h \in Handlers, hs[h].pc = "write", NEW target \in Targets(h)
  PROVE  /\ WriteOf(h, target) \in WriteRecord
         /\ hs[h].req.op = "mkcal" => target.c \in Calendars
         /\ hs[h].req.op \in {"create", "update"} => target.r \in Resources
         /\ target.r \in Resources \cup {NoResource} /\ target.c \in Calendars \cup {NoCalendar}
<1>1. /\ hs[h].k \in Keys /\ GoodRequest(hs[h].req) /\ hs[h] \in HandlerState
      /\ hs[h].req \in Request /\ hs[h].etag \in Nat
  BY DEF MutationTypeInv, MutationTypeOK, HandlerShape, HandlerState, GoodRequest
<1>2. CASE OnEvent(hs[h].req)
  <2>1. target.r = hs[h].req.o[1] /\ target.c = NoCalendar
    BY <1>2 DEF Targets, OnEvent
  <2>2. target.r \in Resources
    BY <1>1, <1>2, <2>1 DEF GoodRequest, Occurrences
  <2> QED BY <1>1, <1>2, <2>1, <2>2 DEF WriteOf, WriteRecord, OnEvent
<1>3. CASE hs[h].req.op = "create"
  <2>1. target.r \in FreshResources(hs[h].req.c) /\ target.c = NoCalendar
    BY <1>3 DEF Targets, OnEvent
  <2>2. target.r \in Resources
    BY <2>1 DEF FreshResources
  <2> QED BY <1>1, <1>3, <2>1, <2>2 DEF WriteOf, WriteRecord
<1>4. CASE hs[h].req.op = "mkcal"
  <2>1. target.r = NoResource /\ target.c \in FreshCalendars
    BY <1>4 DEF Targets, OnEvent
  <2>2. target.c \in Calendars
    BY <2>1 DEF FreshCalendars
  <2> QED BY <1>1, <1>4, <2>1, <2>2 DEF WriteOf, WriteRecord
<1>5. CASE hs[h].req.op \notin {"create", "update", "delete", "mkcal"}
  <2>1. target.r = NoResource /\ target.c = hs[h].req.c
    BY <1>5 DEF Targets, OnEvent
  <2>2. target.c \in Calendars \cup {NoCalendar}
    BY <1>1, <2>1 DEF Request
  <2> QED BY <1>1, <1>5, <2>1, <2>2 DEF WriteOf, WriteRecord
<1> QED BY <1>2, <1>3, <1>4, <1>5 DEF OnEvent

(* A write with effect, without, refused by the server, or unanswered.     *)
LEMMA WriteType ==
  ASSUME CalendarAssumption, MutationTypeInv, NEW h \in Handlers, Write(h)
  PROVE  MutationTypeInv'
<1>1. hs[h].pc = "write" /\ hs[h] \in HandlerState
  BY DEF Write, MutationTypeInv, MutationTypeOK
<1>2. PICK target \in Targets(h) :
        LET w == WriteOf(h, target)
        IN  \/ /\ Apply(w)
               /\ hs' = [hs EXCEPT ![h].pc = "readback", ![h].r = target.r, ![h].c = target.c]
               /\ UNCHANGED <<faults, keyRow, flight, sends, heard>>
            \/ Verdict(w) # "ok" /\ Stop(h, Verdict(w))
            \/ CallFails(h, "rejected")
            \/ /\ Apply(w)
               /\ faults < MaxFaults /\ faults' = faults + 1
               /\ Store(h, "payload_invalid")
               /\ UNCHANGED <<flight, sends>>
            \/ /\ faults < MaxFaults
               /\ faults' = faults + 1
               /\ flight' = flight \cup {w}
               /\ Store(h, "uncertain")
               /\ UNCHANGED <<serverVars, cacheRows, rf, clock, history, sends, effects>>
  BY DEF Write
<1> DEFINE w == WriteOf(h, target)
<1>3. /\ w \in WriteRecord /\ w.req = hs[h].req /\ w.c = target.c
      /\ w.req.op = "mkcal" => w.c \in Calendars
  BY <1>1, TargetType DEF WriteOf
<1>4. /\ target.r \in Resources \cup {NoResource} /\ target.c \in Calendars \cup {NoCalendar}
      /\ hs[h].req.op \in {"create", "update"} => target.r \in Resources
  BY <1>1, TargetType
<1> HIDE DEF w
<1>5. CASE /\ Apply(w)
           /\ hs' = [hs EXCEPT ![h].pc = "readback", ![h].r = target.r, ![h].c = target.c]
           /\ UNCHANGED <<faults, keyRow, flight, sends, heard>>
  <2> DEFINE rec == [hs[h] EXCEPT !.pc = "readback", !.r = target.r, !.c = target.c]
  <2>1. hs' = [hs EXCEPT ![h] = rec]
    BY <1>5 DEF MutationTypeInv, MutationTypeOK
  <2>2. rec = [hs[h] EXCEPT !.pc = "readback", !.r = target.r, !.c = target.c]
    OBVIOUS
  <2> HIDE DEF rec
  <2>3. /\ rec.pc = "readback" /\ rec.k = hs[h].k /\ rec.req = hs[h].req /\ rec.r = target.r
    BY <1>1, <2>2 DEF HandlerState
  <2>4. rec \in HandlerState
    BY <1>1, <1>4, <2>2 DEF HandlerState
  <2>5. hs' \in [Handlers -> HandlerState] /\ HandlerShape'
    BY <1>1, <1>4, <2>1, <2>3, <2>4, HandlerProgress
  <2>6. /\ collections' \subseteq Calendars /\ server' \in [Resources -> Resource]
        /\ effects' \in [Keys -> Nat] /\ calm' \in BOOLEAN
    BY <1>3, <1>5, ApplyType
  <2>7. UNCHANGED <<changes, cacheRows, rf, clock, told, faults>>
    BY <1>5 DEF Apply
  <2>8. TypeOK'
    BY <2>6, <2>7 DEF MutationTypeInv, MutationTypeOK, TypeOK, cacheRows
  <2> QED BY <1>5, <2>5, <2>6, <2>8 DEF MutationTypeInv, MutationTypeOK, FlightShape
<1>6. CASE Verdict(w) # "ok" /\ Stop(h, Verdict(w))
  <2>1. Verdict(w) \in Answers
    BY <1>6 DEF Verdict, Answers, Refusals
  <2> QED BY <1>1, <1>6, <2>1, StopType
<1>7. CASE CallFails(h, "rejected")
  BY <1>1, <1>7, CallFailsType DEF Answers, Refusals
<1>8. CASE /\ faults < MaxFaults
           /\ faults' = faults + 1
           /\ flight' = flight \cup {w}
           /\ Store(h, "uncertain")
           /\ UNCHANGED <<serverVars, cacheRows, rf, clock, history, sends, effects>>
  <2>1. TypeOK'
    BY <1>8 DEF MutationTypeInv, MutationTypeOK, TypeOK, serverVars, cacheRows, history
  <2>2. "uncertain" \in Answers
    BY DEF Answers
  <2>3. flight' \subseteq WriteRecord
    BY <1>3, <1>8 DEF MutationTypeInv, MutationTypeOK, WriteRecord
  <2>4. FlightShape'
    BY <1>3, <1>8 DEF MutationTypeInv, FlightShape
  <2>5. UNCHANGED <<sends, effects>> /\ Store(h, "uncertain")
    BY <1>8
  <2>6. /\ hs' \in [Handlers -> HandlerState] /\ HandlerShape'
        /\ keyRow' \in [Keys -> [claimed : BOOLEAN, req : Request \cup {NoRequest},
                                 answer : Answers \cup {NoAnswer}]]
        /\ heard' \in [Keys -> SUBSET Answers]
    BY <1>1, <2>2, <2>5, StoreType
  <2> QED BY <2>1, <2>3, <2>4, <2>5, <2>6 DEF MutationTypeInv, MutationTypeOK, WriteRecord
<1>9. CASE /\ Apply(w)
           /\ faults < MaxFaults /\ faults' = faults + 1
           /\ Store(h, "payload_invalid")
           /\ UNCHANGED <<flight, sends>>
  <2>1. /\ collections' \subseteq Calendars /\ server' \in [Resources -> Resource]
        /\ effects' \in [Keys -> Nat] /\ calm' \in BOOLEAN
    BY <1>3, <1>9, ApplyType
  <2>2. UNCHANGED <<changes, cacheRows, rf, clock, told>>
    BY <1>9 DEF Apply
  <2>3. TypeOK'
    BY <1>9, <2>1, <2>2 DEF MutationTypeInv, MutationTypeOK, TypeOK, cacheRows
  <2>4. "payload_invalid" \in Answers
    BY DEF Answers, Refusals
  <2>5. /\ hs' \in [Handlers -> HandlerState] /\ HandlerShape'
        /\ keyRow' \in [Keys -> [claimed : BOOLEAN, req : Request \cup {NoRequest},
                                 answer : Answers \cup {NoAnswer}]]
        /\ heard' \in [Keys -> SUBSET Answers]
    BY <1>1, <1>9, <2>4, StoreType
  <2> QED BY <1>9, <2>1, <2>3, <2>5 DEF MutationTypeInv, MutationTypeOK, FlightShape
<1> QED BY <1>2, <1>5, <1>6, <1>7, <1>8, <1>9 DEF w

(* What is read back is an observation of the resource written.            *)
LEMMA ReadEventType ==
  ASSUME MutationTypeInv, NEW h \in Handlers, hs[h].pc = "readback", hs[h].r \in Resources,
         ReadEvent(h)
  PROVE  MutationTypeInv'
<1> DEFINE r == hs[h].r
           x == [o |-> OccurrenceOf(r), content |-> server[r].content,
                 etag |-> server[r].etag, safe |-> server[r].kind = "simple"]
           rec == [hs[h] EXCEPT !.pc = "finish", !.got = {x}]
<1>1. hs[h] \in HandlerState /\ server[r] \in Resource
  BY DEF MutationTypeInv, MutationTypeOK, TypeOK
<1>2. CASE \E answer \in {"uncertain", "payload_invalid"} : Stop(h, answer)
  BY <1>2, StopType DEF Answers, Refusals
<1>3. CASE Found(h, {x})
  <2>1. x \in Observation
    <3>1. OccurrenceOf(r) \in Occurrences
      BY DEF OccurrenceOf, Occurrences
    <3>2. server[r].content \in Contents \cup {NoContent} /\ server[r].etag \in Nat
      BY <1>1 DEF Resource
    <3> QED BY <3>1, <3>2 DEF Observation
  <2> HIDE DEF x
  <2>2. hs' = [hs EXCEPT ![h] = rec]
    BY <1>3 DEF Found, MutationTypeInv, MutationTypeOK
  <2>3. rec \in HandlerState /\ rec.pc = "finish" /\ rec.k = hs[h].k /\ rec.req = hs[h].req
    BY <1>1, <2>1 DEF HandlerState
  <2> HIDE DEF rec
  <2>4. hs' \in [Handlers -> HandlerState] /\ HandlerShape'
    BY <2>2, <2>3, HandlerProgress
  <2> QED BY <1>3, <2>4, MovesType DEF Found
<1> QED BY <1>2, <1>3 DEF ReadEvent

(* A readback ends in an answer or in a result.                            *)
LEMMA ReadbackType ==
  ASSUME MutationTypeInv, NEW h \in Handlers, Readback(h) PROVE MutationTypeInv'
<1>1. hs[h].pc = "readback" /\ hs[h] \in HandlerState
  BY DEF Readback, MutationTypeInv, MutationTypeOK
<1>2. CASE CallFails(h, "uncertain") \/ Stop(h, "uncertain")
  BY <1>1, <1>2, CallFailsType, StopType DEF Answers
<1>3. CASE hs[h].req.op \in {"create", "update"} /\ ReadEvent(h)
  <2>1. hs[h].r \in Resources
    BY <1>1, <1>3 DEF MutationTypeInv, HandlerShape
  <2> QED BY <1>1, <1>3, <2>1, ReadEventType
<1>4. CASE Found(h, {})
  <2> DEFINE rec == [hs[h] EXCEPT !.pc = "finish", !.got = {}]
  <2>1. hs' = [hs EXCEPT ![h] = rec]
    BY <1>4 DEF Found, MutationTypeInv, MutationTypeOK
  <2>2. rec \in HandlerState /\ rec.pc = "finish" /\ rec.k = hs[h].k /\ rec.req = hs[h].req
    BY <1>1 DEF HandlerState
  <2> HIDE DEF rec
  <2>3. hs' \in [Handlers -> HandlerState] /\ HandlerShape'
    BY <1>1, <2>1, <2>2, HandlerProgress
  <2> QED BY <1>4, <2>3, MovesType DEF Found
<1> QED BY <1>2, <1>3, <1>4 DEF Readback, ReadPresence

(* The final transaction writes rows into the copy and stores an answer.   *)
LEMMA FinishType ==
  ASSUME MutationTypeInv, NEW h \in Handlers, Finish(h) PROVE MutationTypeInv'
<1>1. /\ hs[h].pc = "finish" /\ hs[h] \in HandlerState /\ hs[h].got \subseteq Observation
      /\ hs[h].c \in Calendars \cup {NoCalendar} /\ GoodRequest(hs[h].req)
  BY DEF Finish, MutationTypeInv, MutationTypeOK, HandlerShape, HandlerState
<1>2. CASE CallFails(h, "uncertain") \/ Stop(h, "uncertain")
  BY <1>1, <1>2, CallFailsType, StopType DEF Answers
<1>3. CASE /\ Reconcile(h)
           /\ Store(h, "ok")
           /\ calm' = FALSE
           /\ UNCHANGED <<serverVars, rf, clock, faults, told, flight, sends, effects>>
  <2>0. /\ ev \in [Occurrences -> Row] /\ clock \in Nat
        /\ calRow \in [Calendars -> {"none", "current", "stale", "disabled"}]
        /\ source \in [status : {"current", "stale", "error"}, last : Nat]
    BY DEF MutationTypeInv, MutationTypeOK, TypeOK
  <2>1. /\ ev' \in [Occurrences -> Row]
        /\ calRow' \in [Calendars -> {"none", "current", "stale", "disabled"}]
        /\ source' \in [status : {"current", "stale", "error"}, last : Nat]
    <3>1. ASSUME NEW x \in Observation, ReconcileEvent(x)
          PROVE  ev' \in [Occurrences -> Row] /\ UNCHANGED <<calRow, source>>
      <4>1. x.o \in Occurrences
        BY DEF Observation
      <4>2. Upsert(ev[x.o], x) \in Row
        BY <2>0, <4>1, RowOperators
      <4> QED BY <2>0, <3>1, <4>2 DEF ReconcileEvent
    <3>2. ASSUME NEW o, ReconcileDeletedEvent(o)
          PROVE  ev' \in [Occurrences -> Row] /\ UNCHANGED <<calRow, source>>
      <4>1. o \in Occurrences => ClearMisses(ev[o]) \in Row /\ Tombstone(ev[o]) \in Row
        BY <2>0, RowOperators
      <4> QED BY <2>0, <3>2, <4>1 DEF ReconcileDeletedEvent
    <3>3. ASSUME NEW c, ReconcileCreatedCalendar(c)
          PROVE  /\ calRow' \in [Calendars -> {"none", "current", "stale", "disabled"}]
                 /\ source' \in [status : {"current", "stale", "error"}, last : Nat]
                 /\ UNCHANGED ev
      BY <2>0, <3>3 DEF ReconcileCreatedCalendar
    <3>4. ASSUME NEW c, ReconcileDeletedCalendar(c)
          PROVE  /\ calRow' \in [Calendars -> {"none", "current", "stale", "disabled"}]
                 /\ UNCHANGED <<ev, source>>
      BY <2>0, <3>4 DEF ReconcileDeletedCalendar
    <3> QED BY <1>1, <1>3, <2>0, <3>1, <3>2, <3>3, <3>4 DEF Reconcile
  <2>2. calm' = FALSE /\ UNCHANGED <<collections, server, changes, rf, clock, faults, told>>
    BY <1>3 DEF serverVars
  <2>3. TypeOK'
    <3>1. calm' \in BOOLEAN
      BY <2>2
    <3> QED BY <2>1, <2>2, <3>1 DEF MutationTypeInv, MutationTypeOK, TypeOK
  <2>4. "ok" \in Answers
    BY DEF Answers
  <2> QED BY <1>1, <1>3, <2>3, <2>4, StoreType DEF MutationTypeInv, MutationTypeOK, FlightShape
<1> QED BY <1>2, <1>3 DEF Finish

(* A travelling write arrives, with or without effect.                     *)
LEMMA ArriveType ==
  ASSUME CalendarAssumption, MutationTypeInv, NEW w \in flight, Arrive(w)
  PROVE  MutationTypeInv'
<1>1. w \in WriteRecord /\ (w.req.op = "mkcal" => w.c \in Calendars)
  BY DEF MutationTypeInv, MutationTypeOK, FlightShape, WriteRecord
<1>2. UNCHANGED <<faults, keyRow, hs, sends, heard>> /\ flight' \subseteq flight
  BY DEF Arrive
<1>3. TypeOK' /\ effects' \in [Keys -> Nat]
  <2>1. CASE Apply(w)
    <3>1. /\ collections' \subseteq Calendars /\ server' \in [Resources -> Resource]
          /\ effects' \in [Keys -> Nat] /\ calm' \in BOOLEAN
      BY <1>1, <2>1, ApplyType
    <3>2. UNCHANGED <<changes, cacheRows, rf, clock, told>>
      BY <2>1 DEF Apply
    <3> QED BY <1>2, <3>1, <3>2 DEF MutationTypeInv, MutationTypeOK, TypeOK, cacheRows
  <2>2. CASE ~Apply(w)
    <3>1. UNCHANGED <<collections, server, calRow, ev, source, rf, clock, changes, told, calm,
                      effects>>
      BY <2>2 DEF Arrive
    <3> QED BY <1>2, <3>1 DEF MutationTypeInv, MutationTypeOK, TypeOK
  <2> QED BY <2>1, <2>2
<1>4. HandlerShape' /\ FlightShape'
  BY <1>2 DEF MutationTypeInv, HandlerShape, FlightShape, GoodRequest
<1> QED BY <1>2, <1>3, <1>4 DEF MutationTypeInv, MutationTypeOK

(* A restart leaves idle handlers and what they had sent.                  *)
LEMMA RestartType ==
  ASSUME MutationTypeInv, Restart PROVE MutationTypeInv'
<1>1. hs' \in [Handlers -> HandlerState] /\ HandlerShape'
  <2>1. Quiet.pc = "idle"
    BY DEF Quiet, HandlerAt
  <2> QED BY <2>1, QuietType DEF Restart, HandlerShape
<1>2. TypeOK'
  BY IdleType DEF Restart, MutationTypeInv, MutationTypeOK, TypeOK, serverVars, cacheRows, history
<1>3. PICK sent \in SUBSET {h \in Handlers : hs[h].pc = "write" /\ Targets(h) # {}} :
        flight' = flight \cup {WriteOf(h, CHOOSE target \in Targets(h) : TRUE) : h \in sent}
  BY DEF Restart
<1>4. ASSUME NEW w \in flight' \ flight
      PROVE  w \in WriteRecord /\ (w.req.op = "mkcal" => w.c \in Calendars)
  <2>1. PICK h \in sent : w = WriteOf(h, CHOOSE target \in Targets(h) : TRUE)
    BY <1>3, <1>4
  <2>2. PICK target \in Targets(h) : w = WriteOf(h, target)
    BY <2>1
  <2>3. w.req = hs[h].req /\ w.c = target.c
    BY <2>2 DEF WriteOf
  <2> QED BY <1>3, <2>1, <2>2, <2>3, TargetType
<1>5. /\ flight' \subseteq [k : Keys, req : Request, etag : Nat,
                            r : Resources \cup {NoResource}, c : Calendars \cup {NoCalendar}]
      /\ FlightShape'
  BY <1>4 DEF WriteRecord, FlightShape, MutationTypeInv, MutationTypeOK
<1>6. UNCHANGED <<keyRow, sends, effects, heard>>
  BY DEF Restart
<1> QED BY <1>1, <1>2, <1>5, <1>6 DEF MutationTypeInv, MutationTypeOK

(* Every step keeps the types and shapes.                                  *)
LEMMA MutationTypeStep ==
  ASSUME CalendarAssumption, MutationTypeInv, [MutationNext]_vars PROVE MutationTypeInv'
<1>1. CASE CacheStep
  <2>1. [Next]_cacheVars /\ UNCHANGED mutationVars
    BY <1>1 DEF CacheStep, Next
  <2>2. TypeOK'
    BY <2>1, CacheTypeStep DEF MutationTypeInv, MutationTypeOK
  <2> QED BY <2>1, <2>2 DEF mutationVars, MutationTypeInv, MutationTypeOK, HandlerShape,
                            FlightShape, GoodRequest
<1>2. CASE \E h \in Handlers, k \in Keys : \E req \in Requests : Send(h, k, req)
  BY <1>2, SendType
<1>3. CASE \E h \in Handlers : HandlerStep(h)
  BY <1>3, AdmitType, ClaimType, PrepareType, CheckCurrentType, WriteType, ReadbackType,
     FinishType DEF HandlerStep
<1>4. CASE \E w \in flight : Arrive(w)
  BY <1>4, ArriveType
<1>5. CASE Restart
  BY <1>5, RestartType
<1>6. CASE UNCHANGED vars
  BY <1>6 DEF vars, cacheVars, mutationVars, MutationTypeInv, MutationTypeOK, TypeOK,
              HandlerShape, FlightShape, GoodRequest
<1> QED BY <1>1, <1>2, <1>3, <1>4, <1>5, <1>6 DEF MutationNext

(* No key, no request and no write: all is well typed.                     *)
LEMMA MutationTypeInit ==
  ASSUME CalendarAssumption, MutationInit PROVE MutationTypeInv
<1>1. TypeOK
  BY InitType DEF MutationInit
<1>2. keyRow \in [Keys -> [claimed : BOOLEAN, req : Request \cup {NoRequest},
                           answer : Answers \cup {NoAnswer}]]
  BY DEF MutationInit, Unclaimed
<1>3. hs \in [Handlers -> HandlerState] /\ HandlerShape
  <2>1. Quiet.pc = "idle"
    BY DEF Quiet, HandlerAt
  <2> QED BY <2>1, QuietType DEF MutationInit, HandlerShape
<1> QED BY <1>1, <1>2, <1>3 DEF MutationInit, MutationTypeInv, MutationTypeOK, FlightShape

(* Rows, handlers, travelling writes and answers keep their types through  *)
(* any interleaving of requests, refreshes, restarts and late writes.      *)
THEOREM MutationTypeCorrect == MutationSpec => []MutationTypeOK
<1>1. MutationInit => MutationTypeInv
  BY MutationTypeInit, CalendarAssumption
<1>2. MutationTypeInv /\ [MutationNext]_vars => MutationTypeInv'
  BY MutationTypeStep, CalendarAssumption
<1>3. MutationTypeInv => MutationTypeOK
  BY DEF MutationTypeInv
<1> QED BY <1>1, <1>2, <1>3, PTL DEF MutationSpec

-----------------------------------------------------------------------------
(* What an idempotency key promises, for any number of keys,               *)
(* handlers and writes under way: one effect, one answer, and the answer   *)
(* is true; and that no write of the bot replaces a content its client has *)
(* not seen.                                                               *)
(*                                                                         *)
(* The argument for keys: at any time a claimed key is in the hands of one *)
(* handler, or one write travels under it whose sender has stopped         *)
(* waiting, or neither is the case and nothing more can happen under it.   *)
(*                                                                         *)
(* The argument for updates: an ETag that makes an event writable pins     *)
(* down what the server held under it, and no later change gives that ETag *)
(* to anything else.  The pin goes from the answer of the server to the    *)
(* row, from the row to the handler that checked the client's version      *)
(* against it, and with the write to the server.                           *)

Working(h) == hs[h].pc \in {"prepare", "check", "write", "readback", "finish"}
Written(h) == hs[h].pc \in {"readback", "finish"}

RowsKept ==
  \A k \in Keys :
     /\ heard[k] \subseteq {keyRow[k].answer}
     /\ ~keyRow[k].claimed => keyRow[k].answer = NoAnswer /\ effects[k] = 0
     /\ effects[k] <= 1
     /\ keyRow[k].answer = "ok" => effects[k] = 1
     /\ keyRow[k].answer \in Refusals \ {"payload_invalid"} => effects[k] = 0

Owns(h) ==
  /\ keyRow[hs[h].k].claimed
  /\ keyRow[hs[h].k].req = hs[h].req
  /\ keyRow[hs[h].k].answer = NoAnswer
  /\ effects[hs[h].k] = IF Written(h) THEN 1 ELSE 0
OwnersKept ==
  /\ \A h \in Handlers : Working(h) => Owns(h)
  /\ \A g, h \in Handlers : Working(g) /\ Working(h) /\ hs[g].k = hs[h].k => g = h
  /\ \A h \in Handlers, w \in flight : Working(h) => hs[h].k # w.k

Pending(w) ==
  /\ keyRow[w.k].claimed
  /\ keyRow[w.k].req = w.req
  /\ keyRow[w.k].answer \in {NoAnswer, "uncertain"}
  /\ effects[w.k] = 0
FlightKept ==
  /\ \A w \in flight : Pending(w)
  /\ \A v, w \in flight : v.k = w.k => v = w

KeyInv == MutationTypeInv /\ RowsKept /\ OwnersKept /\ FlightKept

-----------------------------------------------------------------------------
GoesOn(h) ==
  /\ Working(h)
  /\ hs'[h].k = hs[h].k /\ hs'[h].req = hs[h].req
  /\ (Written(h)' <=> Written(h))

(* A step that claims no key, stores no answer and writes nothing: each    *)
(* handler goes on with its key and on the same side of its write, or      *)
(* works no more.                                                          *)
LEMMA NothingStored ==
  ASSUME KeyInv, UNCHANGED <<keyRow, flight, effects>>,
         \A k \in Keys : heard'[k] \subseteq {keyRow[k].answer},
         \A h \in Handlers : Working(h)' => GoesOn(h)
  PROVE  RowsKept' /\ OwnersKept' /\ FlightKept'
<1>1. RowsKept'
  BY DEF KeyInv, RowsKept
<1>2. FlightKept'
  BY DEF KeyInv, FlightKept, Pending
<1>3. OwnersKept'
  <2>1. ASSUME NEW h \in Handlers, Working(h)' PROVE Owns(h)'
    <3>1. Working(h) /\ hs'[h].k = hs[h].k /\ hs'[h].req = hs[h].req /\ (Written(h)' <=> Written(h))
      BY <2>1 DEF GoesOn
    <3>2. Owns(h)
      BY <3>1 DEF KeyInv, OwnersKept
    <3> QED BY <3>1, <3>2 DEF Owns
  <2>2. ASSUME NEW g \in Handlers, NEW h \in Handlers, Working(g)', Working(h)', hs'[g].k = hs'[h].k
        PROVE  g = h
    BY <2>2 DEF KeyInv, OwnersKept, GoesOn
  <2>3. ASSUME NEW h \in Handlers, NEW w \in flight', Working(h)' PROVE hs'[h].k # w.k
    BY <2>3 DEF KeyInv, OwnersKept, GoesOn
  <2> QED BY <2>1, <2>2, <2>3 DEF OwnersKept
<1> QED BY <1>1, <1>2, <1>3

(* As above, where only the handler h moves, to the state rec.             *)
LEMMA OneMoves ==
  ASSUME KeyInv, NEW h \in Handlers, NEW rec, hs' = [hs EXCEPT ![h] = rec],
         UNCHANGED <<keyRow, flight, effects>>,
         \A k \in Keys : heard'[k] \subseteq {keyRow[k].answer},
         \/ rec.pc \in {"idle", "admit", "claim"}
         \/ /\ Working(h) /\ rec.k = hs[h].k /\ rec.req = hs[h].req
            /\ (rec.pc \in {"readback", "finish"} <=> Written(h))
  PROVE  RowsKept' /\ OwnersKept' /\ FlightKept'
<1>1. hs'[h] = rec /\ \A g \in Handlers : g # h => hs'[g] = hs[g]
  BY DEF KeyInv, MutationTypeInv, MutationTypeOK
<1>2. ASSUME NEW g \in Handlers, Working(g)' PROVE GoesOn(g)
  BY <1>1, <1>2 DEF GoesOn, Working, Written
<1> QED BY <1>2, NothingStored

(* The answer of a handler to a key that exists is the stored one.         *)
LEMMA AnswerFromKeyKeeps ==
  ASSUME KeyInv, NEW h \in Handlers, AnswerFromKey(h)
  PROVE  RowsKept' /\ OwnersKept' /\ FlightKept'
<1>1. Quiet.pc = "idle"
  BY DEF Quiet, HandlerAt
<1>2. \A k \in Keys : heard'[k] \subseteq {keyRow[k].answer}
  BY DEF KeyInv, RowsKept, AnswerFromKey, Replayed, MutationTypeInv, MutationTypeOK
<1> QED BY <1>1, <1>2, OneMoves DEF AnswerFromKey

(* A request that arrives has no key in its hands yet.                     *)
LEMMA SendKeeps ==
  ASSUME KeyInv, NEW h \in Handlers, NEW k \in Keys, NEW req, Send(h, k, req)
  PROVE  RowsKept' /\ OwnersKept' /\ FlightKept'
<1>1. HandlerAt("admit", k, req).pc = "admit"
  BY DEF HandlerAt
<1>2. \A j \in Keys : heard'[j] \subseteq {keyRow[j].answer}
  BY DEF KeyInv, RowsKept, Send
<1> QED BY <1>1, <1>2, OneMoves DEF Send

(* Nor has one that passed the gates.                                      *)
LEMMA AdmitKeeps ==
  ASSUME KeyInv, NEW h \in Handlers, Admit(h) PROVE RowsKept' /\ OwnersKept' /\ FlightKept'
<1>1. CASE AnswerFromKey(h)
  BY <1>1, AnswerFromKeyKeeps
<1>2. CASE ~AnswerFromKey(h)
  <2> DEFINE etag == IF OnEvent(hs[h].req) THEN ev[hs[h].req.o].etag ELSE 0
             rec == IF ~Acceptable(hs[h].req) THEN Quiet
                    ELSE [hs[h] EXCEPT !.pc = "claim", !.etag = etag]
  <2>1. hs' = [hs EXCEPT ![h] = rec] /\ UNCHANGED <<keyRow, flight, effects, heard>>
    BY <1>2 DEF Admit
  <2>2. \A k \in Keys : heard'[k] \subseteq {keyRow[k].answer}
    BY <2>1 DEF KeyInv, RowsKept
  <2> HIDE DEF etag
  <2>3. rec.pc \in {"idle", "claim"}
    <3>1. hs[h] \in HandlerState
      BY DEF KeyInv, MutationTypeInv, MutationTypeOK
    <3>2. [hs[h] EXCEPT !.pc = "claim", !.etag = etag].pc = "claim"
      BY <3>1 DEF HandlerState
    <3> QED BY <3>2 DEF Quiet, HandlerAt
  <2> HIDE DEF rec
  <2> QED BY <2>1, <2>2, <2>3, OneMoves
<1> QED BY <1>1, <1>2

(* A claim takes a key that nobody has: nobody works or writes under it.   *)
LEMMA ClaimKeeps ==
  ASSUME KeyInv, NEW h \in Handlers, Claim(h) PROVE RowsKept' /\ OwnersKept' /\ FlightKept'
<1>1. CASE AnswerFromKey(h)
  BY <1>1, AnswerFromKeyKeeps
<1>2. CASE ~AnswerFromKey(h)
  <2> DEFINE k == hs[h].k
             new == [claimed |-> TRUE, req |-> hs[h].req, answer |-> NoAnswer]
  <2>1. k \in Keys /\ hs[h] \in HandlerState /\ ~Working(h)
    BY DEF Claim, Working, KeyInv, MutationTypeInv, MutationTypeOK, HandlerShape
  <2>2. /\ ~keyRow[k].claimed
        /\ keyRow' = [keyRow EXCEPT ![k] = new] /\ UNCHANGED <<flight, effects, heard>>
    BY <1>2 DEF Claim
  <2>3. /\ keyRow'[k].claimed /\ keyRow'[k].req = hs[h].req /\ keyRow'[k].answer = NoAnswer
        /\ \A j \in Keys : j # k => keyRow'[j] = keyRow[j]
    BY <2>1, <2>2 DEF KeyInv, MutationTypeInv, MutationTypeOK
  <2>4. /\ hs'[h].k = k /\ hs'[h].req = hs[h].req /\ hs'[h].pc = "prepare"
        /\ \A g \in Handlers : g # h => hs'[g] = hs[g]
    BY <1>2, <2>1 DEF Claim, KeyInv, MutationTypeInv, MutationTypeOK, HandlerState
  <2>5. keyRow[k].answer = NoAnswer /\ effects[k] = 0
    BY <2>1, <2>2 DEF KeyInv, RowsKept
  <2>6. \A g \in Handlers : Working(g) => hs[g].k # k
    BY <2>2 DEF KeyInv, OwnersKept, Owns
  <2>7. \A w \in flight : w.k # k
    BY <2>2 DEF KeyInv, FlightKept, Pending
  <2>8. \A w \in flight : w.k \in Keys
    BY DEF KeyInv, MutationTypeInv, MutationTypeOK
  <2>9. \A g \in Handlers : Working(g) => hs[g].k \in Keys
    BY DEF KeyInv, MutationTypeInv, HandlerShape, Working
  <2> HIDE DEF k, new
  <2>10. RowsKept'
    BY <2>2, <2>3, <2>5 DEF KeyInv, RowsKept, NoAnswer, Refusals
  <2>11. FlightKept'
    BY <2>2, <2>3, <2>7, <2>8 DEF KeyInv, FlightKept, Pending
  <2>12. OwnersKept'
    <3>1. ASSUME NEW g \in Handlers, Working(g)' PROVE Owns(g)'
      <4>1. CASE g = h
        BY <2>2, <2>3, <2>4, <2>5, <4>1 DEF Owns, Written
      <4>2. CASE g # h
        <5>1. Working(g) /\ hs'[g] = hs[g]
          BY <2>4, <3>1, <4>2 DEF Working
        <5>2. Owns(g) /\ keyRow'[hs[g].k] = keyRow[hs[g].k]
          BY <2>3, <2>6, <2>9, <5>1 DEF KeyInv, OwnersKept
        <5> QED BY <2>2, <5>1, <5>2 DEF Owns, Written
      <4> QED BY <4>1, <4>2
    <3>2. ASSUME NEW f \in Handlers, NEW g \in Handlers, Working(f)', Working(g)', hs'[f].k = hs'[g].k
          PROVE  f = g
      BY <2>4, <2>6, <3>2 DEF KeyInv, OwnersKept, Working
    <3>3. ASSUME NEW g \in Handlers, NEW w \in flight', Working(g)' PROVE hs'[g].k # w.k
      BY <2>2, <2>4, <2>7, <3>3 DEF KeyInv, OwnersKept, Working
    <3> QED BY <3>1, <3>2, <3>3 DEF OwnersKept
  <2> QED BY <2>10, <2>11, <2>12
<1> QED BY <1>1, <1>2

-----------------------------------------------------------------------------
TrueAnswer(h, answer) ==
  /\ answer \in Answers
  /\ answer = "ok" => Written(h)
  /\ answer \in Refusals \ {"payload_invalid"} => ~Written(h)

(* A handler that works stores its answer and is done.  The write it may   *)
(* leave behind, if it has not taken effect, is the only one under its key;*)
(* so is the one that takes effect with an answer nobody understands.      *)
LEMMA StoreKeeps ==
  ASSUME KeyInv, NEW h \in Handlers, NEW answer, Working(h), TrueAnswer(h, answer),
         Store(h, answer),
         \/ effects' = effects
         \/ /\ answer = "payload_invalid" /\ ~Written(h)
            /\ effects' = [effects EXCEPT ![hs[h].k] = effects[hs[h].k] + 1],
         \/ flight' = flight
         \/ /\ answer = "uncertain" /\ ~Written(h)
            /\ \E w : w.k = hs[h].k /\ w.req = hs[h].req /\ flight' = flight \cup {w}
  PROVE  RowsKept' /\ OwnersKept' /\ FlightKept'
<1> DEFINE k == hs[h].k
<1>0. k \in Keys
  BY DEF Working, KeyInv, MutationTypeInv, HandlerShape
<1>1. Owns(h) /\ keyRow[k].answer = NoAnswer
  BY DEF KeyInv, OwnersKept, Owns
<1>2. /\ keyRow' = [keyRow EXCEPT ![k].answer = answer]
      /\ heard' = [heard EXCEPT ![k] = heard[k] \cup {answer}]
      /\ hs' = [hs EXCEPT ![h] = Quiet]
  BY <1>1 DEF Store
<1>3. /\ keyRow'[k].claimed = keyRow[k].claimed /\ keyRow'[k].req = keyRow[k].req
      /\ keyRow'[k].answer = answer
      /\ \A j \in Keys : j # k => keyRow'[j] = keyRow[j]
  BY <1>0, <1>2 DEF KeyInv, MutationTypeInv, MutationTypeOK
<1>4. /\ heard'[k] = heard[k] \cup {answer}
      /\ \A j \in Keys : j # k => heard'[j] = heard[j]
  BY <1>0, <1>2 DEF KeyInv, MutationTypeInv, MutationTypeOK
<1>5. /\ ~Working(h)'
      /\ \A g \in Handlers : g # h => hs'[g] = hs[g]
  BY <1>2 DEF KeyInv, MutationTypeInv, MutationTypeOK, Quiet, HandlerAt, Working
<1>6. heard[k] = {}
  <2>1. heard[k] \subseteq Answers
    BY <1>0 DEF KeyInv, MutationTypeInv, MutationTypeOK
  <2>2. heard[k] \subseteq {NoAnswer}
    BY <1>0, <1>1 DEF KeyInv, RowsKept
  <2> QED BY <2>1, <2>2 DEF Answers, Refusals, NoAnswer
<1>7. \A g \in Handlers : g # h /\ Working(g) => hs[g].k # k /\ hs[g].k \in Keys
  BY DEF KeyInv, OwnersKept, Working, MutationTypeInv, HandlerShape
<1>8. \A w \in flight : w.k # k /\ w.k \in Keys
  BY DEF KeyInv, OwnersKept, MutationTypeInv, MutationTypeOK
<1>9. keyRow[k].claimed /\ keyRow[k].req = hs[h].req /\ effects[k] = IF Written(h) THEN 1 ELSE 0
  BY <1>1 DEF Owns
<1>13. /\ \A j \in Keys : j # k => effects'[j] = effects[j]
       /\ \/ effects'[k] = effects[k]
          \/ answer = "payload_invalid" /\ effects'[k] = 1
  BY <1>0, <1>9 DEF KeyInv, MutationTypeInv, MutationTypeOK
<1> HIDE DEF k
<1>10. RowsKept'
  <2>1. ASSUME NEW j \in Keys
        PROVE  /\ heard'[j] \subseteq {keyRow'[j].answer}
               /\ ~keyRow'[j].claimed => keyRow'[j].answer = NoAnswer /\ effects'[j] = 0
               /\ effects'[j] <= 1
               /\ keyRow'[j].answer = "ok" => effects'[j] = 1
               /\ keyRow'[j].answer \in Refusals \ {"payload_invalid"} => effects'[j] = 0
    <3>1. CASE j = k
      <4>1. keyRow'[j].answer = answer /\ heard'[j] = {answer} /\ keyRow'[j].claimed
        BY <1>3, <1>4, <1>6, <1>9, <3>1
      <4>2. CASE effects'[k] = effects[k]
        BY <1>9, <3>1, <4>1, <4>2 DEF TrueAnswer
      <4>3. CASE answer = "payload_invalid" /\ effects'[k] = 1
        BY <3>1, <4>1, <4>3
      <4> QED BY <1>13, <4>2, <4>3
    <3>2. CASE j # k
      BY <1>3, <1>4, <1>13, <3>2 DEF KeyInv, RowsKept
    <3> QED BY <3>1, <3>2
  <2> QED BY <2>1 DEF RowsKept
<1>11. OwnersKept'
  <2>0. \A w \in flight' : w.k = k \/ w \in flight
    BY DEF k
  <2>1. ASSUME NEW g \in Handlers, Working(g)' PROVE Owns(g)'
    <3>1. g # h /\ Working(g) /\ hs'[g] = hs[g]
      BY <1>5, <2>1 DEF Working
    <3>2. /\ Owns(g) /\ keyRow'[hs[g].k] = keyRow[hs[g].k]
          /\ effects'[hs[g].k] = effects[hs[g].k]
      BY <1>3, <1>7, <1>13, <3>1 DEF KeyInv, OwnersKept
    <3> QED BY <3>1, <3>2 DEF Owns, Written
  <2>2. ASSUME NEW f \in Handlers, NEW g \in Handlers, Working(f)', Working(g)', hs'[f].k = hs'[g].k
        PROVE  f = g
    BY <1>5, <2>2 DEF KeyInv, OwnersKept, Working
  <2>3. ASSUME NEW g \in Handlers, NEW w \in flight', Working(g)' PROVE hs'[g].k # w.k
    <3>1. g # h /\ Working(g) /\ hs'[g] = hs[g]
      BY <1>5, <2>3 DEF Working
    <3> QED BY <1>7, <2>0, <3>1 DEF KeyInv, OwnersKept
  <2> QED BY <2>1, <2>2, <2>3 DEF OwnersKept
<1>12. FlightKept'
  <2>1. \A w \in flight : Pending(w)'
    BY <1>3, <1>8, <1>13 DEF KeyInv, FlightKept, Pending
  <2>2. CASE flight' = flight
    BY <2>1, <2>2 DEF KeyInv, FlightKept
  <2>3. CASE flight' # flight
    <3>1. PICK w : w.k = k /\ w.req = hs[h].req /\ flight' = flight \cup {w}
      BY <2>3 DEF k
    <3>2. answer = "uncertain" /\ ~Written(h)
      BY <2>3
    <3>3. Pending(w)'
      BY <1>3, <1>9, <1>13, <3>1, <3>2 DEF Pending
    <3> QED BY <1>8, <2>1, <3>1, <3>3 DEF KeyInv, FlightKept
  <2> QED BY <2>2, <2>3
<1> QED BY <1>10, <1>11, <1>12

(* A handler stops with an answer that is true.                            *)
LEMMA StopKeeps ==
  ASSUME KeyInv, NEW h \in Handlers, NEW answer, Working(h), TrueAnswer(h, answer), Stop(h, answer)
  PROVE  RowsKept' /\ OwnersKept' /\ FlightKept'
BY StoreKeeps DEF Stop

(* The same, when a call fails.                                            *)
LEMMA CallFailsKeeps ==
  ASSUME KeyInv, NEW h \in Handlers, NEW answer, Working(h), TrueAnswer(h, answer),
         CallFails(h, answer)
  PROVE  RowsKept' /\ OwnersKept' /\ FlightKept'
BY StoreKeeps DEF CallFails

(* From one step of the work to the next, on the same side of the write.   *)
LEMMA OnwardKeeps ==
  ASSUME KeyInv, NEW h \in Handlers, NEW rec, Working(h), hs' = [hs EXCEPT ![h] = rec],
         rec.k = hs[h].k, rec.req = hs[h].req, (rec.pc \in {"readback", "finish"} <=> Written(h)),
         UNCHANGED <<keyRow, flight, effects, heard>>
  PROVE  RowsKept' /\ OwnersKept' /\ FlightKept'
<1>1. \A k \in Keys : heard'[k] \subseteq {keyRow[k].answer}
  BY DEF KeyInv, RowsKept
<1> QED BY <1>1, OneMoves

(* Between the checks nothing is written.                                  *)
LEMMA GotoKeeps ==
  ASSUME KeyInv, NEW h \in Handlers, Working(h), ~Written(h), NEW pc \in {"check", "write"},
         Goto(h, pc)
  PROVE  RowsKept' /\ OwnersKept' /\ FlightKept'
<1> DEFINE rec == [hs[h] EXCEPT !.pc = pc]
<1>1. hs[h] \in HandlerState /\ hs' = [hs EXCEPT ![h] = rec]
  BY DEF Goto, KeyInv, MutationTypeInv, MutationTypeOK
<1>2. rec.pc = pc /\ rec.k = hs[h].k /\ rec.req = hs[h].req
  BY <1>1 DEF HandlerState
<1> HIDE DEF rec
<1> QED BY <1>1, <1>2, OnwardKeeps DEF Goto

(* A result read back belongs to a write that took effect.                 *)
LEMMA FoundKeeps ==
  ASSUME KeyInv, NEW h \in Handlers, Working(h), Written(h), NEW got, Found(h, got)
  PROVE  RowsKept' /\ OwnersKept' /\ FlightKept'
<1> DEFINE rec == [hs[h] EXCEPT !.pc = "finish", !.got = got]
<1>1. hs[h] \in HandlerState /\ hs' = [hs EXCEPT ![h] = rec]
  BY DEF Found, KeyInv, MutationTypeInv, MutationTypeOK
<1>2. rec.pc = "finish" /\ rec.k = hs[h].k /\ rec.req = hs[h].req
  BY <1>1 DEF HandlerState
<1> HIDE DEF rec
<1> QED BY <1>1, <1>2, OnwardKeeps DEF Found

(* Before the write: every answer is a refusal of what did not happen.     *)
LEMMA PrepareKeeps ==
  ASSUME KeyInv, NEW h \in Handlers, Prepare(h) PROVE RowsKept' /\ OwnersKept' /\ FlightKept'
<1>1. Working(h) /\ ~Written(h)
  BY DEF Prepare, Working, Written
<1>2. \/ \E answer \in Answers \ {"ok"} : CallFails(h, answer) \/ Stop(h, answer)
      \/ Goto(h, "check") \/ Goto(h, "write")
  BY DEF Prepare, Answers, Refusals
<1>3. \A answer \in Answers \ {"ok"} : TrueAnswer(h, answer)
  BY <1>1 DEF TrueAnswer
<1> QED BY <1>1, <1>2, <1>3, CallFailsKeeps, StopKeeps, GotoKeeps

(* The same holds for the look at the current event.                       *)
LEMMA CheckCurrentKeeps ==
  ASSUME KeyInv, NEW h \in Handlers, CheckCurrent(h) PROVE RowsKept' /\ OwnersKept' /\ FlightKept'
<1>1. Working(h) /\ ~Written(h)
  BY DEF CheckCurrent, Working, Written
<1>2. \/ \E answer \in Answers \ {"ok"} : CallFails(h, answer) \/ Stop(h, answer)
      \/ Goto(h, "write")
  BY DEF CheckCurrent, Answers, Refusals
<1>3. \A answer \in Answers \ {"ok"} : TrueAnswer(h, answer)
  BY <1>1 DEF TrueAnswer
<1> QED BY <1>1, <1>2, <1>3, CallFailsKeeps, StopKeeps, GotoKeeps

(* After it: no answer says that nothing happened.                         *)
LEMMA ReadbackKeeps ==
  ASSUME KeyInv, NEW h \in Handlers, Readback(h) PROVE RowsKept' /\ OwnersKept' /\ FlightKept'
<1>1. Working(h) /\ Written(h)
  BY DEF Readback, Working, Written
<1>2. \/ \E answer \in {"uncertain", "payload_invalid"} : CallFails(h, answer) \/ Stop(h, answer)
      \/ \E got : Found(h, got)
  BY DEF Readback, ReadEvent, ReadPresence
<1>3. \A answer \in {"uncertain", "payload_invalid"} : TrueAnswer(h, answer)
  BY <1>1 DEF TrueAnswer, Answers, Refusals
<1> QED BY <1>1, <1>2, <1>3, CallFailsKeeps, StopKeeps, FoundKeeps

(* The success is stored with the result, or the outcome stays open.       *)
LEMMA FinishKeeps ==
  ASSUME KeyInv, NEW h \in Handlers, Finish(h) PROVE RowsKept' /\ OwnersKept' /\ FlightKept'
<1>1. Working(h) /\ Written(h)
  BY DEF Finish, Working, Written
<1>2. \A answer \in {"uncertain", "ok"} : TrueAnswer(h, answer)
  BY <1>1 DEF TrueAnswer, Answers, Refusals
<1>3. \/ CallFails(h, "uncertain") \/ Stop(h, "uncertain")
      \/ Store(h, "ok") /\ UNCHANGED <<flight, effects>>
  BY DEF Finish
<1> QED BY <1>1, <1>2, <1>3, CallFailsKeeps, StopKeeps, StoreKeeps

-----------------------------------------------------------------------------
(* The write takes effect: a handler's once, since it then reads back, and *)
(* a travelling one once, since it has arrived.                            *)
LEMMA AppliedByHandler ==
  ASSUME KeyInv, NEW h \in Handlers, hs[h].pc = "write", NEW rec, hs' = [hs EXCEPT ![h] = rec],
         rec.k = hs[h].k, rec.req = hs[h].req, rec.pc = "readback",
         effects' = [effects EXCEPT ![hs[h].k] = effects[hs[h].k] + 1],
         UNCHANGED <<keyRow, flight, heard>>
  PROVE  RowsKept' /\ OwnersKept' /\ FlightKept'
<1> DEFINE k == hs[h].k
<1>0. k \in Keys /\ Working(h) /\ ~Written(h)
  BY DEF Working, Written, KeyInv, MutationTypeInv, HandlerShape
<1>1. keyRow[k].claimed /\ keyRow[k].req = hs[h].req /\ keyRow[k].answer = NoAnswer /\ effects[k] = 0
  BY <1>0 DEF KeyInv, OwnersKept, Owns
<1>2. effects'[k] = 1 /\ \A j \in Keys : j # k => effects'[j] = effects[j]
  BY <1>0, <1>1 DEF KeyInv, MutationTypeInv, MutationTypeOK
<1>3. hs'[h] = rec /\ \A g \in Handlers : g # h => hs'[g] = hs[g]
  BY DEF KeyInv, MutationTypeInv, MutationTypeOK
<1>4. \A g \in Handlers : g # h /\ Working(g) => hs[g].k # k /\ hs[g].k \in Keys
  BY <1>0 DEF KeyInv, OwnersKept, Working, MutationTypeInv, HandlerShape
<1>5. \A w \in flight : w.k # k /\ w.k \in Keys
  BY <1>0 DEF KeyInv, OwnersKept, MutationTypeInv, MutationTypeOK
<1>6. rec.k = k
  OBVIOUS
<1> HIDE DEF k
<1>7. RowsKept'
  BY <1>1, <1>2 DEF KeyInv, RowsKept, NoAnswer, Refusals
<1>8. FlightKept'
  BY <1>2, <1>5 DEF KeyInv, FlightKept, Pending
<1>9. OwnersKept'
  <2>1. ASSUME NEW g \in Handlers, Working(g)' PROVE Owns(g)'
    <3>1. CASE g = h
      <4>1. hs'[g] = rec
        BY <1>3, <3>1
      <4>2. Written(g)'
        BY <4>1 DEF Written
      <4> QED BY <1>1, <1>2, <1>6, <4>1, <4>2 DEF Owns
    <3>2. CASE g # h
      <4>1. Working(g) /\ hs'[g] = hs[g]
        BY <1>3, <2>1, <3>2 DEF Working
      <4>2. Owns(g) /\ effects'[hs[g].k] = effects[hs[g].k]
        BY <1>2, <1>4, <3>2, <4>1 DEF KeyInv, OwnersKept
      <4> QED BY <4>1, <4>2 DEF Owns, Written
    <3> QED BY <3>1, <3>2
  <2>2. ASSUME NEW f \in Handlers, NEW g \in Handlers, Working(f)', Working(g)', hs'[f].k = hs'[g].k
        PROVE  f = g
    BY <1>3, <1>4, <1>6, <2>2 DEF KeyInv, OwnersKept, Working
  <2>3. ASSUME NEW g \in Handlers, NEW w \in flight', Working(g)' PROVE hs'[g].k # w.k
    BY <1>3, <1>5, <1>6, <2>3 DEF KeyInv, OwnersKept, Working
  <2> QED BY <2>1, <2>2, <2>3 DEF OwnersKept
<1> QED BY <1>7, <1>8, <1>9

(* A handler writes: with effect, refused, failed, or without an answer.   *)
LEMMA WriteKeeps ==
  ASSUME KeyInv, NEW h \in Handlers, Write(h) PROVE RowsKept' /\ OwnersKept' /\ FlightKept'
<1>1. hs[h].pc = "write" /\ Working(h) /\ ~Written(h) /\ hs[h] \in HandlerState
  BY DEF Write, Working, Written, KeyInv, MutationTypeInv, MutationTypeOK
<1>2. PICK target \in Targets(h) :
        LET w == WriteOf(h, target)
        IN  \/ /\ Apply(w)
               /\ hs' = [hs EXCEPT ![h].pc = "readback", ![h].r = target.r, ![h].c = target.c]
               /\ UNCHANGED <<faults, keyRow, flight, sends, heard>>
            \/ Verdict(w) # "ok" /\ Stop(h, Verdict(w))
            \/ CallFails(h, "rejected")
            \/ /\ Apply(w)
               /\ faults < MaxFaults /\ faults' = faults + 1
               /\ Store(h, "payload_invalid")
               /\ UNCHANGED <<flight, sends>>
            \/ /\ faults < MaxFaults
               /\ faults' = faults + 1
               /\ flight' = flight \cup {w}
               /\ Store(h, "uncertain")
               /\ UNCHANGED <<serverVars, cacheRows, rf, clock, history, sends, effects>>
  BY DEF Write
<1> DEFINE w == WriteOf(h, target)
<1>3. w.k = hs[h].k /\ w.req = hs[h].req
  BY DEF WriteOf
<1> HIDE DEF w
<1>4. CASE /\ Apply(w)
           /\ hs' = [hs EXCEPT ![h].pc = "readback", ![h].r = target.r, ![h].c = target.c]
           /\ UNCHANGED <<faults, keyRow, flight, sends, heard>>
  <2> DEFINE rec == [hs[h] EXCEPT !.pc = "readback", !.r = target.r, !.c = target.c]
  <2>1. hs' = [hs EXCEPT ![h] = rec]
    BY <1>4 DEF KeyInv, MutationTypeInv, MutationTypeOK
  <2>2. rec = [hs[h] EXCEPT !.pc = "readback", !.r = target.r, !.c = target.c]
    OBVIOUS
  <2> HIDE DEF rec
  <2>3. rec.pc = "readback" /\ rec.k = hs[h].k /\ rec.req = hs[h].req
    BY <1>1, <2>2 DEF HandlerState
  <2>4. effects' = [effects EXCEPT ![hs[h].k] = effects[hs[h].k] + 1]
    BY <1>3, <1>4 DEF Apply
  <2> QED BY <1>1, <1>4, <2>1, <2>3, <2>4, AppliedByHandler
<1>5. CASE Verdict(w) # "ok" /\ Stop(h, Verdict(w))
  <2>1. Verdict(w) \in Answers
    BY <1>5 DEF Verdict, Answers, Refusals
  <2> QED BY <1>1, <1>5, <2>1, StopKeeps DEF TrueAnswer
<1>6. CASE CallFails(h, "rejected")
  BY <1>1, <1>6, CallFailsKeeps DEF TrueAnswer, Answers, Refusals
<1>7. CASE flight' = flight \cup {w} /\ Store(h, "uncertain") /\ UNCHANGED effects
  <2>1. TrueAnswer(h, "uncertain")
    BY <1>1 DEF TrueAnswer, Answers, Refusals
  <2> QED BY <1>1, <1>3, <1>7, <2>1, StoreKeeps
<1>8. CASE Apply(w) /\ Store(h, "payload_invalid") /\ UNCHANGED flight
  <2>1. TrueAnswer(h, "payload_invalid")
    BY <1>1 DEF TrueAnswer, Answers, Refusals
  <2>2. effects' = [effects EXCEPT ![hs[h].k] = effects[hs[h].k] + 1]
    BY <1>3, <1>8 DEF Apply
  <2> QED BY <1>1, <1>8, <2>1, <2>2, StoreKeeps
<1> QED BY <1>2, <1>4, <1>5, <1>6, <1>7, <1>8 DEF w

(* A write that arrives late takes effect at most this once.               *)
LEMMA ArriveKeeps ==
  ASSUME KeyInv, NEW w \in flight, Arrive(w) PROVE RowsKept' /\ OwnersKept' /\ FlightKept'
<1>1. UNCHANGED <<keyRow, hs, heard>> /\ flight' = flight \ {w}
  BY DEF Arrive
<1>2. /\ w.k \in Keys /\ keyRow[w.k].claimed /\ effects[w.k] = 0
      /\ keyRow[w.k].answer \in {NoAnswer, "uncertain"}
      /\ \A h \in Handlers : Working(h) => hs[h].k # w.k
      /\ \A v \in flight' : v.k # w.k /\ v \in flight
  BY <1>1 DEF KeyInv, FlightKept, Pending, OwnersKept, MutationTypeInv, MutationTypeOK
<1>3. \/ effects' = effects
      \/ effects' = [effects EXCEPT ![w.k] = effects[w.k] + 1]
  BY DEF Arrive, Apply
<1>4. effects'[w.k] \in {0, 1} /\ \A k \in Keys : k # w.k => effects'[k] = effects[k]
  BY <1>2, <1>3 DEF KeyInv, MutationTypeInv, MutationTypeOK
<1>5. RowsKept'
  BY <1>1, <1>2, <1>4 DEF KeyInv, RowsKept, NoAnswer, Refusals
<1>6. OwnersKept'
  <2>1. ASSUME NEW h \in Handlers, Working(h)' PROVE Owns(h)'
    <3>1. Working(h) /\ hs[h].k \in Keys /\ hs[h].k # w.k
      BY <1>1, <1>2, <2>1 DEF Working, KeyInv, MutationTypeInv, HandlerShape
    <3> QED BY <1>1, <1>4, <3>1 DEF KeyInv, OwnersKept, Owns, Written
  <2> QED BY <1>1, <2>1 DEF KeyInv, OwnersKept, Working
<1>7. FlightKept'
  <2>1. \A v \in flight' : v.k \in Keys
    BY <1>2 DEF KeyInv, MutationTypeInv, MutationTypeOK
  <2> QED BY <1>1, <1>2, <1>4, <2>1 DEF KeyInv, FlightKept, Pending
<1> QED BY <1>5, <1>6, <1>7

(* After a restart nobody works; what was being sent still travels.        *)
LEMMA RestartKeeps ==
  ASSUME KeyInv, Restart PROVE RowsKept' /\ OwnersKept' /\ FlightKept'
<1>1. UNCHANGED <<keyRow, effects, heard>> /\ hs' = [h \in Handlers |-> Quiet]
  BY DEF Restart
<1>2. RowsKept'
  BY <1>1 DEF KeyInv, RowsKept
<1>3. OwnersKept'
  BY <1>1 DEF OwnersKept, Working, Quiet, HandlerAt
<1>4. PICK sent \in SUBSET {h \in Handlers : hs[h].pc = "write" /\ Targets(h) # {}} :
        flight' = flight \cup {WriteOf(h, CHOOSE target \in Targets(h) : TRUE) : h \in sent}
  BY DEF Restart
<1>5. ASSUME NEW w \in flight' \ flight
      PROVE  \E h \in sent : /\ w = WriteOf(h, CHOOSE target \in Targets(h) : TRUE)
                             /\ w.k = hs[h].k /\ w.req = hs[h].req
                             /\ Working(h) /\ ~Written(h)
  <2>1. PICK h \in sent : w = WriteOf(h, CHOOSE target \in Targets(h) : TRUE)
    BY <1>4, <1>5
  <2>2. Working(h) /\ ~Written(h)
    BY <1>4 DEF Working, Written
  <2>3. w.k = hs[h].k /\ w.req = hs[h].req
    BY <2>1 DEF WriteOf
  <2> QED BY <2>1, <2>2, <2>3
<1>6. FlightKept'
  <2>1. ASSUME NEW w \in flight' PROVE Pending(w)'
    <3>1. CASE w \in flight
      BY <1>1, <3>1 DEF KeyInv, FlightKept, Pending
    <3>2. CASE w \notin flight
      <4>1. PICK h \in sent : w.k = hs[h].k /\ w.req = hs[h].req /\ Working(h) /\ ~Written(h)
        BY <1>5, <3>2
      <4>2. Owns(h)
        BY <4>1 DEF KeyInv, OwnersKept
      <4> QED BY <1>1, <4>1, <4>2 DEF Owns, Pending
    <3> QED BY <3>1, <3>2
  <2>2. ASSUME NEW v \in flight', NEW w \in flight', v.k = w.k PROVE v = w
    <3>1. CASE v \in flight /\ w \in flight
      BY <2>2, <3>1 DEF KeyInv, FlightKept
    <3>2. CASE v \notin flight /\ w \notin flight
      <4>1. PICK g \in sent : /\ v = WriteOf(g, CHOOSE target \in Targets(g) : TRUE)
                              /\ v.k = hs[g].k /\ Working(g)
        BY <1>5, <3>2
      <4>2. PICK h \in sent : /\ w = WriteOf(h, CHOOSE target \in Targets(h) : TRUE)
                              /\ w.k = hs[h].k /\ Working(h)
        BY <1>5, <3>2
      <4>3. g = h
        BY <2>2, <4>1, <4>2 DEF KeyInv, OwnersKept
      <4> QED BY <4>1, <4>2, <4>3
    <3>3. CASE v \notin flight /\ w \in flight
      BY <1>5, <2>2, <3>3 DEF KeyInv, OwnersKept
    <3>4. CASE v \in flight /\ w \notin flight
      BY <1>5, <2>2, <3>4 DEF KeyInv, OwnersKept
    <3> QED BY <3>1, <3>2, <3>3, <3>4
  <2> QED BY <2>1, <2>2 DEF FlightKept
<1> QED BY <1>2, <1>3, <1>6

-----------------------------------------------------------------------------
(* Every step keeps the invariant.                                         *)
LEMMA KeyStep == ASSUME KeyInv, [MutationNext]_vars PROVE KeyInv'
<1>1. MutationTypeInv'
  BY MutationTypeStep, CalendarAssumption DEF KeyInv
<1>2. RowsKept' /\ OwnersKept' /\ FlightKept'
  <2>1. CASE CacheStep \/ UNCHANGED vars
    <3>1. UNCHANGED <<keyRow, flight, effects, heard, hs>>
      BY <2>1 DEF CacheStep, mutationVars, vars
    <3>2. \A k \in Keys : heard'[k] \subseteq {keyRow[k].answer}
      BY <3>1 DEF KeyInv, RowsKept
    <3>3. \A h \in Handlers : Working(h)' => GoesOn(h)
      BY <3>1 DEF Working, Written, GoesOn
    <3> QED BY <3>1, <3>2, <3>3, NothingStored
  <2>2. CASE \E h \in Handlers, k \in Keys : \E req \in Requests : Send(h, k, req)
    BY <2>2, SendKeeps
  <2>3. CASE \E h \in Handlers : HandlerStep(h)
    BY <2>3, AdmitKeeps, ClaimKeeps, PrepareKeeps, CheckCurrentKeeps, WriteKeeps, ReadbackKeeps,
       FinishKeeps DEF HandlerStep
  <2>4. CASE \E w \in flight : Arrive(w)
    BY <2>4, ArriveKeeps
  <2>5. CASE Restart
    BY <2>5, RestartKeeps
  <2> QED BY <2>1, <2>2, <2>3, <2>4, <2>5 DEF MutationNext
<1> QED BY <1>1, <1>2 DEF KeyInv

(* It holds before the first request.                                      *)
LEMMA KeyInit == ASSUME MutationInit PROVE KeyInv
<1>1. MutationTypeInv
  BY MutationTypeInit, CalendarAssumption
<1>2. RowsKept
  BY DEF MutationInit, RowsKept, Unclaimed, NoAnswer, Refusals
<1>3. OwnersKept /\ FlightKept
  BY DEF MutationInit, OwnersKept, FlightKept, Working, Quiet, HandlerAt
<1> QED BY <1>1, <1>2, <1>3 DEF KeyInv

(* What is known of a key at any time.                                     *)
LEMMA KeyInvariant == MutationSpec => []KeyInv
<1>1. MutationInit => KeyInv
  BY KeyInit
<1>2. KeyInv /\ [MutationNext]_vars => KeyInv'
  BY KeyStep
<1> QED BY <1>1, <1>2, PTL DEF MutationSpec

(* Requests repeated under a key change the calendars at most once, however *)
(* many handlers, restarts and late writes there are.                      *)
THEOREM OneEffectPerKeyHolds == MutationSpec => []OneEffectPerKey
<1>1. KeyInv => OneEffectPerKey
  BY DEF KeyInv, RowsKept, OneEffectPerKey
<1> QED BY <1>1, KeyInvariant, PTL

(* Whoever asks under a key hears the same final answer.                   *)
THEOREM OneAnswerPerKeyHolds == MutationSpec => []OneAnswerPerKey
<1>1. ASSUME KeyInv, NEW k \in Keys PROVE Cardinality(heard[k]) <= 1
  <2>1. heard[k] \subseteq {keyRow[k].answer}
    BY <1>1 DEF KeyInv, RowsKept
  <2>2. CASE heard[k] = {}
    BY <2>2, FS_EmptySet
  <2>3. CASE heard[k] = {keyRow[k].answer}
    <3> DEFINE answer == keyRow[k].answer
    <3> HIDE DEF answer
    <3>1. Cardinality({answer}) = 1
      BY FS_Singleton
    <3> QED BY <2>3, <3>1 DEF answer
  <2> QED BY <2>1, <2>2, <2>3
<1>2. KeyInv => OneAnswerPerKey
  BY <1>1 DEF OneAnswerPerKey
<1> QED BY <1>2, KeyInvariant, PTL

(* A stored success stands for a write that took effect, a stored refusal  *)
(* for one that never will.                                                *)
THEOREM AnswersAreTrueHolds == MutationSpec => []AnswersAreTrue
<1>1. KeyInv => AnswersAreTrue
  BY DEF KeyInv, RowsKept, AnswersAreTrue
<1> QED BY <1>1, KeyInvariant, PTL

-----------------------------------------------------------------------------
(* No lost update.                                                         *)

(* While r has the ETag etag it is a plain event with this content.        *)
Pinned(r, etag, content) ==
  /\ etag <= server[r].etag
  /\ etag = server[r].etag => server[r].kind = "simple" /\ server[r].content = content
PinnedRow(o, row) == row.safe => Pinned(o[1], row.etag, row.content)
PinnedObservation(x) == x.safe => Pinned(x.o[1], x.etag, x.content)

(* What the row says while it has this version.                            *)
VersionSays(row, version, content) ==
  /\ version <= row.version
  /\ Live(row) /\ row.version = version => row.content = content

RowsPinned == \A o \in Occurrences : PinnedRow(o, ev[o])
SeenPinned == \A x \in rf.fetched \cup rf.verified : PinnedObservation(x)
Asks(h) ==
  hs[h].pc = "admit" /\ OnEvent(hs[h].req)
    => VersionSays(ev[hs[h].req.o], hs[h].req.version, hs[h].req.seen)
Aims(h) ==
  hs[h].pc \in {"claim", "prepare", "check", "write"} /\ OnEvent(hs[h].req)
    => Pinned(hs[h].req.o[1], hs[h].etag, hs[h].req.seen)
HandlerPinned(h) == Asks(h) /\ Aims(h) /\ \A x \in hs[h].got : PinnedObservation(x)
WritePinned(w) ==
  OnEvent(w.req) => w.r = w.req.o[1] /\ w.r \in Resources /\ Pinned(w.r, w.etag, w.req.seen)

WriteInv ==
  /\ KeyInv
  /\ RowsPinned /\ SeenPinned
  /\ \A h \in Handlers : HandlerPinned(h)
  /\ \A w \in flight : WritePinned(w)

-----------------------------------------------------------------------------
(* The server: a resource keeps what it says, or gets a later ETag.        *)
Succeeds(r) ==
  \/ server'[r].etag > server[r].etag
  \/ /\ server'[r].etag = server[r].etag
     /\ server'[r].kind = server[r].kind /\ server'[r].content = server[r].content

(* A write that takes effect leaves every other resource alone and gives   *)
(* its own the next ETag, or removes it.                                   *)
LEMMA ApplySucceeds ==
  ASSUME TypeOK, NEW w, Apply(w), NEW r \in Resources PROVE Succeeds(r)
<1>0. server \in [Resources -> Resource] /\ server[r].etag \in Nat /\ server[r] \in Resource
  BY DEF TypeOK, Resource
<1>1. CASE w.req.op \in {"create", "update"}
  <2> DEFINE new == [there |-> TRUE, etag |-> server[w.r].etag + 1,
                     kind |-> "simple", content |-> w.req.content]
  <2>1. server' = [server EXCEPT ![w.r] = new]
    BY <1>1 DEF Apply
  <2>2. new.etag = server[w.r].etag + 1
    OBVIOUS
  <2> HIDE DEF new
  <2> QED BY <1>0, <2>1, <2>2 DEF Succeeds
<1>2. CASE w.req.op = "delete"
  <2> DEFINE gone == [server[w.r] EXCEPT !.there = FALSE]
  <2>1. server' = [server EXCEPT ![w.r] = gone]
    BY <1>0, <1>2 DEF Apply
  <2>2. w.r \in Resources => /\ gone.etag = server[w.r].etag /\ gone.kind = server[w.r].kind
                             /\ gone.content = server[w.r].content
    BY <1>0 DEF Resource
  <2> HIDE DEF gone
  <2> QED BY <1>0, <2>1, <2>2 DEF Succeeds
<1>3. CASE w.req.op = "rmcal"
  <2>1. server'[r] \in {server[r], [server[r] EXCEPT !.there = FALSE]}
    BY <1>3 DEF Apply
  <2>2. /\ [server[r] EXCEPT !.there = FALSE].etag = server[r].etag
        /\ [server[r] EXCEPT !.there = FALSE].kind = server[r].kind
        /\ [server[r] EXCEPT !.there = FALSE].content = server[r].content
    BY <1>0 DEF Resource
  <2> QED BY <2>1, <2>2 DEF Succeeds
<1>4. CASE w.req.op \notin {"create", "update", "delete", "rmcal"}
  BY <1>4 DEF Apply, Succeeds
<1> QED BY <1>1, <1>2, <1>3, <1>4

(* Other devices do the same.                                              *)
LEMMA OthersSucceed ==
  ASSUME TypeOK, Others, NEW r \in Resources PROVE Succeeds(r)
<1>0. server \in [Resources -> Resource] /\ server[r].etag \in Nat /\ server[r] \in Resource
  BY DEF TypeOK, Resource
<1>1. ASSUME NEW q \in Resources, NEW kind \in Kinds, NEW content \in Contents,
             OthersWrite(q, kind, content)
      PROVE  Succeeds(r)
  <2> DEFINE new == [there |-> TRUE, etag |-> server[q].etag + 1, kind |-> kind, content |-> content]
  <2>1. server' = [server EXCEPT ![q] = new]
    BY <1>1 DEF OthersWrite
  <2>2. new.etag = server[q].etag + 1
    OBVIOUS
  <2> HIDE DEF new
  <2> QED BY <1>0, <2>1, <2>2 DEF Succeeds
<1>2. ASSUME NEW q \in Resources, OthersDelete(q) PROVE Succeeds(r)
  <2> DEFINE gone == [server[q] EXCEPT !.there = FALSE]
  <2>1. server' = [server EXCEPT ![q] = gone]
    BY <1>0, <1>2 DEF OthersDelete
  <2>2. gone.etag = server[q].etag /\ gone.kind = server[q].kind /\ gone.content = server[q].content
    BY <1>0 DEF Resource
  <2> HIDE DEF gone
  <2> QED BY <1>0, <2>1, <2>2 DEF Succeeds
<1>3. ASSUME NEW c \in Calendars, OthersShare(c) PROVE Succeeds(r)
  BY <1>3 DEF OthersShare, Succeeds
<1> QED BY <1>1, <1>2, <1>3 DEF Others

(* Nothing but other devices and writes that take effect changes resources.*)
LEMMA ServerSucceeds ==
  ASSUME MutationTypeInv, [MutationNext]_vars, NEW r \in Resources PROVE Succeeds(r)
<1>0. TypeOK
  BY DEF MutationTypeInv, MutationTypeOK
<1>1. CASE UNCHANGED server
  BY <1>1 DEF Succeeds
<1>2. CASE Others
  BY <1>0, <1>2, OthersSucceed
<1>3. CASE \E w : Apply(w)
  BY <1>0, <1>3, ApplySucceeds
<1>4. UNCHANGED server \/ Others \/ \E w : Apply(w)
  <2>1. CASE UNCHANGED vars
    BY <2>1 DEF vars, cacheVars
  <2>2. CASE CacheStep
    BY <2>2 DEF CacheStep, RefreshStep, Tick, BeginRefresh, ListCalendars, FetchEvents, AskResources,
                VerifyResources, CommitRefresh, RefreshFails, RecordFailure, serverVars
  <2>3. CASE \E h \in Handlers, k \in Keys : \E req \in Requests : Send(h, k, req)
    BY <2>3 DEF Send, cacheVars
  <2>4. CASE \E h \in Handlers : HandlerStep(h)
    <3>1. PICK h \in Handlers : HandlerStep(h)
      BY <2>4
    <3>2. CASE Admit(h) \/ Claim(h)
      BY <3>2 DEF Admit, Claim, AnswerFromKey, cacheVars
    <3>3. CASE Prepare(h) \/ CheckCurrent(h)
      BY <3>3 DEF Prepare, CheckCurrent, CallFails, Stop, Goto, cacheVars, serverVars
    <3>4. CASE Write(h)
      BY <3>4 DEF Write, CallFails, Stop, cacheVars, serverVars
    <3>5. CASE Readback(h)
      BY <3>5 DEF Readback, ReadEvent, ReadPresence, Found, CallFails, Stop, cacheVars, serverVars
    <3>6. CASE Finish(h)
      BY <3>6 DEF Finish, CallFails, Stop, cacheVars, serverVars
    <3> QED BY <3>1, <3>2, <3>3, <3>4, <3>5, <3>6 DEF HandlerStep
  <2>5. CASE \E w \in flight : Arrive(w)
    BY <2>5 DEF Arrive
  <2>6. CASE Restart
    BY <2>6 DEF Restart, serverVars
  <2> QED BY <2>1, <2>2, <2>3, <2>4, <2>5, <2>6 DEF MutationNext
<1> QED BY <1>1, <1>2, <1>3, <1>4

(* So a pin once true stays true.                                          *)
LEMMA PinStays ==
  ASSUME MutationTypeInv, [MutationNext]_vars, NEW r \in Resources, NEW etag \in Nat, NEW content,
         Pinned(r, etag, content)
  PROVE  Pinned(r, etag, content)'
<1>1. Succeeds(r)
  BY ServerSucceeds
<1>2. server[r].etag \in Nat /\ server'[r].etag \in Nat
  <2>1. TypeOK /\ TypeOK'
    BY MutationTypeStep, CalendarAssumption DEF MutationTypeInv, MutationTypeOK
  <2> QED BY <2>1 DEF TypeOK, Resource
<1> QED BY <1>1, <1>2 DEF Succeeds, Pinned

-----------------------------------------------------------------------------
(* The rows.  A row tells (Told) what became of the row it follows.        *)
(* A row that follows a follower follows the first row.                    *)
LEMMA FollowsTransitive ==
  ASSUME NEW a \in Row, NEW b \in Row, NEW c \in Row, Told(a, b), Told(b, c)
  PROVE  Told(a, c)
<1>1. a.version \in Nat /\ b.version \in Nat /\ c.version \in Nat
  BY DEF Row
<1> QED BY <1>1 DEF Told

(* Every operator on rows returns a row that follows, and is writable only *)
(* under a pin that the row, or the observation it took over, had before.  *)
LEMMA RowsFollow ==
  ASSUME NEW o \in Occurrences, NEW row \in Row, PinnedRow(o, row)
  PROVE  /\ Told(row, row)
         /\ Told(row, Tombstone(row)) /\ PinnedRow(o, Tombstone(row))
         /\ Told(row, MarkStale(row)) /\ PinnedRow(o, MarkStale(row))
         /\ Told(row, ClearMisses(row)) /\ PinnedRow(o, ClearMisses(row))
         /\ \A x \in Observation : PinnedObservation(x) /\ x.o = o
              => Told(row, Upsert(row, x)) /\ PinnedRow(o, Upsert(row, x))
<1>0. row.version \in Nat
  BY DEF Row
<1>1. Told(row, row)
  BY <1>0 DEF Told
<1>2. Told(row, Tombstone(row)) /\ PinnedRow(o, Tombstone(row))
  <2> DEFINE new == Tombstone(row)
             version == row.version + 1
  <2>1. new = [row EXCEPT !.deleted = TRUE, !.version = version, !.misses = 0]
    BY DEF Tombstone
  <2> HIDE DEF new, version
  <2>2. /\ new.deleted = TRUE /\ new.version = version
        /\ new.safe = row.safe /\ new.etag = row.etag /\ new.content = row.content
    BY <2>1 DEF Row
  <2>3. version > row.version /\ version \in Nat
    BY <1>0 DEF version
  <2>4. Told(row, new)
    BY <1>0, <2>2, <2>3 DEF Told, Live
  <2>5. PinnedRow(o, new)
    BY <2>2 DEF PinnedRow
  <2> QED BY <2>4, <2>5 DEF new
<1>3. Told(row, MarkStale(row)) /\ PinnedRow(o, MarkStale(row))
  <2> DEFINE new == MarkStale(row)
  <2>1. /\ new.version = row.version /\ new.known = row.known /\ new.deleted = row.deleted
        /\ new.safe = row.safe /\ new.etag = row.etag /\ new.content = row.content
    BY DEF MarkStale, Row
  <2> HIDE DEF new
  <2>2. Told(row, new) /\ PinnedRow(o, new)
    BY <1>0, <2>1 DEF Told, Live, PinnedRow
  <2> QED BY <2>2 DEF new
<1>4. Told(row, ClearMisses(row)) /\ PinnedRow(o, ClearMisses(row))
  <2> DEFINE new == ClearMisses(row)
  <2>1. /\ new.version = row.version /\ new.known = row.known /\ new.deleted = row.deleted
        /\ new.safe = row.safe /\ new.etag = row.etag /\ new.content = row.content
    BY DEF ClearMisses, Row
  <2> HIDE DEF new
  <2>2. Told(row, new) /\ PinnedRow(o, new)
    BY <1>0, <2>1 DEF Told, Live, PinnedRow
  <2> QED BY <2>2 DEF new
<1>5. ASSUME NEW x \in Observation, PinnedObservation(x), x.o = o
      PROVE  Told(row, Upsert(row, x)) /\ PinnedRow(o, Upsert(row, x))
  <2> DEFINE new == Upsert(row, x)
  <2>1. /\ new.safe = x.safe /\ new.etag = x.etag /\ new.content = x.content
        /\ new.known = TRUE /\ new.deleted = FALSE
    BY DEF Upsert
  <2>2. \/ new.version = row.version + 1
        \/ new.version = row.version /\ Live(row) /\ row.content = x.content
    BY DEF Upsert
  <2> HIDE DEF new
  <2>3. Live(new)
    BY <2>1 DEF Live
  <2>4. row.version \in Nat
    BY <1>0
  <2>5. Told(row, new)
    <3>1. CASE new.version = row.version + 1
      <4>1. new.version > row.version
        BY <2>4, <3>1
      <4> QED BY <4>1 DEF Told
    <3>2. CASE new.version = row.version /\ Live(row) /\ row.content = x.content
      <4>1. Live(new) = Live(row)
        BY <2>3, <3>2
      <4> QED BY <2>1, <3>2, <4>1 DEF Told
    <3> QED BY <2>2, <3>1, <3>2
  <2>6. PinnedRow(o, new)
    BY <1>5, <2>1 DEF PinnedRow, PinnedObservation
  <2> QED BY <2>5, <2>6 DEF new
<1> QED BY <1>1, <1>2, <1>3, <1>4, <1>5

(* What a refresh makes of a row.                                          *)
Good(o, row) == row \in Row /\ PinnedRow(o, row) /\ Told(ev[o], row)
LEMMA ReconciledGood ==
  ASSUME TypeOK, RowsPinned, SeenPinned, NEW o \in Occurrences PROVE Good(o, Reconciled(o))
<1>0. /\ ev[o] \in Row /\ PinnedRow(o, ev[o])
      /\ rf.fetched \subseteq Observation /\ rf.verified \subseteq Observation
  BY DEF TypeOK, RefreshState, RowsPinned
<1>1. Good(o, ev[o])
  BY <1>0, RowsFollow DEF Good
<1>2. ASSUME NEW row, Good(o, row)
      PROVE  /\ Good(o, Tombstone(row)) /\ Good(o, MarkStale(row)) /\ Good(o, ClearMisses(row))
             /\ \A x \in Observation : PinnedObservation(x) /\ x.o = o => Good(o, Upsert(row, x))
  BY <1>0, <1>2, RowsFollow, RowOperators, FollowsTransitive DEF Good
<1>3. ASSUME NEW row, Good(o, row), NEW seen \in {rf.fetched, rf.verified}
      PROVE  Good(o, Observe(row, o, seen))
  <2>1. CASE \E x \in seen : x.o = o
    <3> DEFINE x == CHOOSE x \in seen : x.o = o
    <3>1. x \in seen /\ x.o = o
      BY <2>1
    <3>2. x \in Observation /\ PinnedObservation(x)
      BY <1>0, <3>1 DEF SeenPinned
    <3>3. Observe(row, o, seen) = Upsert(row, x)
      BY <2>1 DEF Observe
    <3> QED BY <1>2, <1>3, <3>1, <3>2, <3>3
  <2>2. CASE ~\E x \in seen : x.o = o
    BY <1>3, <2>2 DEF Observe
  <2> QED BY <2>1, <2>2
<1>4. Good(o, Observed(o))
  BY <1>1, <1>3 DEF Observed
<1>5. ASSUME NEW row, Good(o, row) PROVE Good(o, OnMissing(row, o[1]))
  <2>1. Good(o, [row EXCEPT !.misses = 1])
    <3> DEFINE new == [row EXCEPT !.misses = 1]
    <3>1. row \in Row
      BY <1>5 DEF Good
    <3>2. /\ new \in Row /\ new.version = row.version /\ new.known = row.known
          /\ new.deleted = row.deleted /\ new.safe = row.safe /\ new.etag = row.etag
          /\ new.content = row.content
      BY <3>1 DEF Row
    <3> HIDE DEF new
    <3>3. Good(o, new)
      BY <1>5, <3>2 DEF Good, PinnedRow, Told, Live
    <3> QED BY <3>3 DEF new
  <2> QED BY <1>2, <1>5, <2>1 DEF OnMissing
<1>6. ASSUME NEW row, Good(o, row) PROVE Good(o, OnPresent(row, o))
  BY <1>2, <1>6 DEF OnPresent
<1>7. ASSUME NEW row, Good(o, row) PROVE Good(o, ClearMisses(MarkStale(row)))
  BY <1>2, <1>7
<1> QED BY <1>4, <1>5, <1>6, <1>7 DEF Reconciled

(* The rows are written by the end of a refresh and of a write, no more.   *)
LEMMA RowsMove ==
  ASSUME [MutationNext]_vars
  PROVE  \/ UNCHANGED ev \/ CommitRefresh \/ RecordFailure
         \/ \E h \in Handlers : hs[h].pc = "finish" /\ Reconcile(h)
<1>1. CASE UNCHANGED vars
  BY <1>1 DEF vars, cacheVars
<1>2. CASE CacheStep
  <2>1. CASE Others
    BY <2>1 DEF Others, OthersWrite, OthersDelete, OthersShare, cacheRows
  <2>2. CASE RefreshStep
    BY <2>2 DEF RefreshStep, BeginRefresh, ListCalendars, FetchEvents, AskResources,
                VerifyResources, RefreshFails, cacheRows
  <2>3. CASE Tick
    BY <2>3 DEF Tick, cacheRows
  <2> QED BY <1>2, <2>1, <2>2, <2>3 DEF CacheStep
<1>3. CASE \E h \in Handlers, k \in Keys : \E req \in Requests : Send(h, k, req)
  BY <1>3 DEF Send, cacheVars
<1>4. CASE \E h \in Handlers : HandlerStep(h)
  <2>1. PICK h \in Handlers : HandlerStep(h)
    BY <1>4
  <2>2. CASE Admit(h) \/ Claim(h)
    BY <2>2 DEF Admit, Claim, AnswerFromKey, cacheVars
  <2>3. CASE Prepare(h) \/ CheckCurrent(h)
    BY <2>3 DEF Prepare, CheckCurrent, CallFails, Stop, Goto, cacheVars, cacheRows
  <2>4. CASE Write(h)
    BY <2>4 DEF Write, Apply, CallFails, Stop, cacheVars, cacheRows
  <2>5. CASE Readback(h)
    BY <2>5 DEF Readback, ReadEvent, ReadPresence, Found, CallFails, Stop, cacheVars, cacheRows
  <2>6. CASE Finish(h)
    BY <2>6 DEF Finish, CallFails, Stop, cacheVars, cacheRows
  <2> QED BY <2>1, <2>2, <2>3, <2>4, <2>5, <2>6 DEF HandlerStep
<1>5. CASE \E w \in flight : Arrive(w)
  BY <1>5 DEF Arrive, Apply, cacheRows
<1>6. CASE Restart
  BY <1>6 DEF Restart, cacheRows
<1> QED BY <1>1, <1>2, <1>3, <1>4, <1>5, <1>6 DEF MutationNext

(* Whatever happens, each row is followed by a row.                        *)
LEMMA RowsGood ==
  ASSUME WriteInv, [MutationNext]_vars, NEW o \in Occurrences PROVE Good(o, ev'[o])
<1>0. /\ MutationTypeInv /\ TypeOK /\ RowsPinned /\ SeenPinned
      /\ ev \in [Occurrences -> Row] /\ PinnedRow(o, ev[o])
  BY DEF WriteInv, KeyInv, MutationTypeInv, MutationTypeOK, TypeOK, RowsPinned
<1>1. Good(o, ev[o])
  BY <1>0, RowsFollow DEF Good
<1>2. CASE UNCHANGED ev
  BY <1>1, <1>2
<1>3. CASE CommitRefresh
  BY <1>0, <1>3, ReconciledGood DEF CommitRefresh
<1>4. CASE RecordFailure
  <2>1. ev'[o] \in {ClearMisses(MarkStale(ev[o])), ClearMisses(ev[o])}
    BY <1>4 DEF RecordFailure
  <2>2. /\ Good(o, MarkStale(ev[o])) /\ Good(o, ClearMisses(ev[o]))
    BY <1>0, RowsFollow, RowOperators DEF Good
  <2>3. Good(o, ClearMisses(MarkStale(ev[o])))
    BY <1>0, <2>2, RowsFollow, RowOperators, FollowsTransitive DEF Good
  <2> QED BY <2>1, <2>2, <2>3
<1>5. ASSUME NEW h \in Handlers, Reconcile(h) PROVE Good(o, ev'[o])
  <2>1. hs[h].got \subseteq Observation /\ \A x \in hs[h].got : PinnedObservation(x)
    BY <1>0 DEF WriteInv, HandlerPinned, MutationTypeInv, MutationTypeOK, HandlerState
  <2>2. ASSUME NEW x \in hs[h].got, ReconcileEvent(x) PROVE Good(o, ev'[o])
    <3>1. CASE x.o = o
      <4>1. ev'[o] = Upsert(ev[o], x)
        BY <1>0, <2>2, <3>1 DEF ReconcileEvent
      <4> QED BY <1>0, <2>1, <3>1, <4>1, RowsFollow, RowOperators DEF Good
    <3>2. CASE x.o # o
      BY <1>0, <1>1, <2>2, <3>2 DEF ReconcileEvent
    <3> QED BY <3>1, <3>2
  <2>3. ASSUME NEW p, ReconcileDeletedEvent(p) PROVE Good(o, ev'[o])
    <3>1. ev'[o] \in {ev[o], ClearMisses(ev[o]), Tombstone(ev[o])}
      BY <1>0, <2>3 DEF ReconcileDeletedEvent
    <3> QED BY <1>0, <1>1, <3>1, RowsFollow, RowOperators DEF Good
  <2>4. ASSUME NEW c, ReconcileCreatedCalendar(c) \/ ReconcileDeletedCalendar(c)
        PROVE  Good(o, ev'[o])
    BY <1>1, <2>4 DEF ReconcileCreatedCalendar, ReconcileDeletedCalendar
  <2> QED BY <1>5, <2>2, <2>3, <2>4 DEF Reconcile
<1>6. UNCHANGED ev \/ CommitRefresh \/ RecordFailure \/ \E h \in Handlers : Reconcile(h)
  BY RowsMove
<1> QED BY <1>2, <1>3, <1>4, <1>5, <1>6

(* A pin of the rows or observations before the step holds after it.       *)
LEMMA PinsStay ==
  ASSUME WriteInv, [MutationNext]_vars
  PROVE  \A r \in Resources, etag \in Nat : \A content :
           Pinned(r, etag, content) =>
             /\ etag <= server'[r].etag
             /\ etag = server'[r].etag
                  => server'[r].kind = "simple" /\ server'[r].content = content
<1> TAKE r \in Resources, etag \in Nat
<1> TAKE content
<1> HAVE Pinned(r, etag, content)
<1>1. Pinned(r, etag, content)'
  BY PinStays DEF WriteInv, KeyInv
<1> QED BY <1>1 DEF Pinned

(* The rows of the copy keep telling the truth about their versions.       *)
LEMMA RowsStayPinned == ASSUME WriteInv, [MutationNext]_vars PROVE RowsPinned'
<1>1. ASSUME NEW o \in Occurrences, ev'[o].safe
      PROVE  /\ ev'[o].etag <= server'[o[1]].etag
             /\ ev'[o].etag = server'[o[1]].etag
                  => server'[o[1]].kind = "simple" /\ server'[o[1]].content = ev'[o].content
  <2>1. ev'[o].etag \in Nat /\ Pinned(o[1], ev'[o].etag, ev'[o].content)
    BY <1>1, RowsGood DEF Good, PinnedRow, Row
  <2>2. o[1] \in Resources
    BY DEF Occurrences
  <2> QED BY <2>1, <2>2, PinsStay
<1> QED BY <1>1 DEF RowsPinned, PinnedRow, Pinned

-----------------------------------------------------------------------------
(* The answers of the server.  Only one that carries the ETag of a plain   *)
(* event calls it writable, and that answer is what the server holds.      *)
LEMMA ReportPinned ==
  ASSUME TypeOK, NEW r \in Resources, NEW tagged \in BOOLEAN, NEW x \in Report(r, tagged)
  PROVE  PinnedObservation(x)
<1> DEFINE plain == tagged /\ server[r].kind = "simple"
           obs(o) == [o |-> o, content |-> server[r].content, safe |-> plain,
                      etag |-> IF plain THEN server[r].etag ELSE 0]
<1>1. x = obs(OccurrenceOf(r))
  BY DEF Report
<1>2. /\ x.o = OccurrenceOf(r) /\ x.content = server[r].content
      /\ x.safe => server[r].kind = "simple" /\ x.etag = server[r].etag
  BY <1>1
<1> HIDE DEF obs, plain
<1>3. x.o[1] = r
  BY <1>2 DEF OccurrenceOf
<1>4. server[r].etag \in Nat
  BY DEF TypeOK, Resource
<1>5. x.safe => Pinned(r, x.etag, x.content)
  BY <1>2, <1>4 DEF Pinned
<1> QED BY <1>3, <1>5 DEF PinnedObservation

(* A refresh holds nothing but such answers.                               *)
LEMMA SeenGood ==
  ASSUME WriteInv, [MutationNext]_vars
  PROVE  \A x \in rf'.fetched \cup rf'.verified : x \in Observation /\ PinnedObservation(x)
<1>0. TypeOK /\ SeenPinned /\ rf.fetched \subseteq Observation /\ rf.verified \subseteq Observation
      /\ rf \in RefreshState
  BY DEF WriteInv, KeyInv, MutationTypeInv, MutationTypeOK, TypeOK, RefreshState
<1>1. CASE rf'.fetched = rf.fetched /\ rf'.verified = rf.verified
  BY <1>0, <1>1 DEF SeenPinned
<1>2. CASE rf'.fetched = {} /\ rf'.verified = {}
  BY <1>2
<1>3. ASSUME NEW c \in Calendars, FetchEvents(c)
      PROVE  \A x \in rf'.fetched \cup rf'.verified : x \in Observation /\ PinnedObservation(x)
  <2> DEFINE reports == UNION {Report(r, TRUE) : r \in {q \in Resources : CollectionOf[q] = c}}
  <2>1. \A x \in reports : x \in Observation /\ PinnedObservation(x)
    BY <1>0, ReportType, ReportPinned DEF TypeOK
  <2>2. rf' = [rf EXCEPT !.cal = c, !.todo = rf.todo \ {c}, !.pc = "ask",
                         !.fetched = rf.fetched \cup reports]
    BY <1>3 DEF FetchEvents
  <2> HIDE DEF reports
  <2>3. rf'.fetched = rf.fetched \cup reports /\ rf'.verified = rf.verified
    BY <1>0, <2>2 DEF RefreshState
  <2> QED BY <1>0, <2>1, <2>3 DEF SeenPinned
<1>4. ASSUME NEW wrong \in SUBSET rf.asked, VerifyResources(wrong)
      PROVE  \A x \in rf'.fetched \cup rf'.verified : x \in Observation /\ PinnedObservation(x)
  <2> DEFINE missing == wrong \cup {r \in rf.asked : ~server[r].there}
             present == rf.asked \ missing
             reports == UNION {Report(r, FALSE) : r \in present}
  <2>1. present \subseteq Resources
    BY <1>0 DEF RefreshState
  <2>2. \A x \in reports : x \in Observation /\ PinnedObservation(x)
    BY <1>0, <2>1, ReportType, ReportPinned DEF TypeOK
  <2>3. rf' = [rf EXCEPT !.pc = AfterCalendar, !.missing = rf.missing \cup missing,
                         !.present = rf.present \cup present,
                         !.verified = rf.verified \cup reports]
    BY <1>4 DEF VerifyResources
  <2> HIDE DEF reports, present, missing
  <2>4. rf'.verified = rf.verified \cup reports /\ rf'.fetched = rf.fetched
    BY <1>0, <2>3 DEF RefreshState
  <2> QED BY <1>0, <2>2, <2>4 DEF SeenPinned
<1>5. \/ rf' = rf \/ rf' = Idle \/ BeginRefresh \/ ListCalendars \/ AskResources
      \/ \E c \in Calendars : FetchEvents(c)
      \/ \E wrong \in SUBSET rf.asked : VerifyResources(wrong)
  <2>1. CASE UNCHANGED vars
    BY <2>1 DEF vars, cacheVars
  <2>2. CASE CacheStep
    <3>1. CASE Others
      BY <3>1 DEF Others, OthersWrite, OthersDelete, OthersShare
    <3>2. CASE RefreshStep
      BY <3>2 DEF RefreshStep, CommitRefresh, RefreshFails, RecordFailure
    <3>3. CASE Tick
      BY <3>3 DEF Tick
    <3> QED BY <2>2, <3>1, <3>2, <3>3 DEF CacheStep
  <2>3. CASE \E h \in Handlers, k \in Keys : \E req \in Requests : Send(h, k, req)
    BY <2>3 DEF Send, cacheVars
  <2>4. CASE \E h \in Handlers : HandlerStep(h)
    <3>1. PICK h \in Handlers : HandlerStep(h)
      BY <2>4
    <3>2. CASE Admit(h) \/ Claim(h)
      BY <3>2 DEF Admit, Claim, AnswerFromKey, cacheVars
    <3>3. CASE Prepare(h) \/ CheckCurrent(h)
      BY <3>3 DEF Prepare, CheckCurrent, CallFails, Stop, Goto, cacheVars
    <3>4. CASE Write(h)
      BY <3>4 DEF Write, Apply, CallFails, Stop, cacheVars
    <3>5. CASE Readback(h)
      BY <3>5 DEF Readback, ReadEvent, ReadPresence, Found, CallFails, Stop, cacheVars
    <3>6. CASE Finish(h)
      BY <3>6 DEF Finish, CallFails, Stop, cacheVars
    <3> QED BY <3>1, <3>2, <3>3, <3>4, <3>5, <3>6 DEF HandlerStep
  <2>5. CASE \E w \in flight : Arrive(w)
    BY <2>5 DEF Arrive, Apply
  <2>6. CASE Restart
    BY <2>6 DEF Restart
  <2> QED BY <2>1, <2>2, <2>3, <2>4, <2>5, <2>6 DEF MutationNext
<1>6. CASE BeginRefresh
  <2>1. rf'.fetched = {} /\ rf'.verified = {}
    BY <1>6 DEF BeginRefresh, Idle
  <2> QED BY <1>2, <2>1
<1>7. CASE rf' = Idle
  BY <1>2, <1>7 DEF Idle
<1>8. CASE ListCalendars \/ AskResources
  <2>1. rf'.fetched = rf.fetched /\ rf'.verified = rf.verified
    BY <1>0, <1>8 DEF ListCalendars, AskResources, RefreshState
  <2> QED BY <1>1, <2>1
<1> QED BY <1>1, <1>3, <1>4, <1>5, <1>6, <1>7, <1>8

(* So do the observations that a refresh holds.                            *)
LEMMA SeenStayPinned == ASSUME WriteInv, [MutationNext]_vars PROVE SeenPinned'
<1>1. ASSUME NEW x \in rf'.fetched \cup rf'.verified, x.safe
      PROVE  /\ x.etag <= server'[x.o[1]].etag
             /\ x.etag = server'[x.o[1]].etag
                  => server'[x.o[1]].kind = "simple" /\ server'[x.o[1]].content = x.content
  <2>1. x.etag \in Nat /\ x.o[1] \in Resources /\ Pinned(x.o[1], x.etag, x.content)
    BY <1>1, SeenGood DEF PinnedObservation, Observation, Occurrences
  <2> QED BY <2>1, PinsStay
<1> QED BY <1>1 DEF SeenPinned, PinnedObservation, Pinned

-----------------------------------------------------------------------------
(* The handlers.  What a handler knows after a step, in terms of what the  *)
(* rows and the server said before it.                                     *)
Aiming == {"claim", "prepare", "check", "write"}
Ready(h) ==
  /\ \A x \in hs'[h].got : x \in Observation /\ PinnedObservation(x)
  /\ hs'[h].pc = "admit" /\ OnEvent(hs'[h].req)
       => VersionSays(ev[hs'[h].req.o], hs'[h].req.version, hs'[h].req.seen)
  /\ hs'[h].pc \in Aiming /\ OnEvent(hs'[h].req)
       => Pinned(hs'[h].req.o[1], hs'[h].etag, hs'[h].req.seen)

(* It still knows it after the step: rows are followed, pins stay.         *)
LEMMA ReadyIsPinned ==
  ASSUME WriteInv, [MutationNext]_vars, NEW h \in Handlers, Ready(h) PROVE HandlerPinned(h)'
<1>0. MutationTypeInv'
  BY MutationTypeStep, CalendarAssumption DEF WriteInv, KeyInv
<1>1. hs'[h] \in HandlerState /\ (hs'[h].pc # "idle" => GoodRequest(hs'[h].req))
  BY <1>0 DEF MutationTypeInv, MutationTypeOK, HandlerShape
<1>2. ASSUME NEW x \in hs'[h].got, x.safe
      PROVE  /\ x.etag <= server'[x.o[1]].etag
             /\ x.etag = server'[x.o[1]].etag
                  => server'[x.o[1]].kind = "simple" /\ server'[x.o[1]].content = x.content
  <2>1. x.etag \in Nat /\ x.o[1] \in Resources /\ Pinned(x.o[1], x.etag, x.content)
    BY <1>2 DEF Ready, PinnedObservation, Observation, Occurrences
  <2> QED BY <2>1, PinsStay
<1>3. ASSUME hs'[h].pc = "admit", OnEvent(hs'[h].req)
      PROVE  VersionSays(ev'[hs'[h].req.o], hs'[h].req.version, hs'[h].req.seen)
  <2> DEFINE o == hs'[h].req.o
             version == hs'[h].req.version
             seen == hs'[h].req.seen
  <2>1. o \in Occurrences /\ version \in Nat
    BY <1>1, <1>3 DEF GoodRequest, Request
  <2>2. VersionSays(ev[o], version, seen)
    BY <1>3 DEF Ready
  <2>3. Told(ev[o], ev'[o]) /\ ev'[o] \in Row
    BY <2>1, RowsGood DEF Good
  <2>4. ev[o].version \in Nat /\ ev'[o].version \in Nat
    BY <2>1, <2>3 DEF WriteInv, KeyInv, MutationTypeInv, MutationTypeOK, TypeOK, Row
  <2> HIDE DEF o, version, seen
  <2>5. VersionSays(ev'[o], version, seen)
    BY <2>1, <2>2, <2>3, <2>4 DEF VersionSays, Told
  <2> QED BY <2>5 DEF o, version, seen
<1>4. ASSUME hs'[h].pc \in Aiming, OnEvent(hs'[h].req)
      PROVE  LET r == hs'[h].req.o[1]
             IN  /\ hs'[h].etag <= server'[r].etag
                 /\ hs'[h].etag = server'[r].etag
                      => server'[r].kind = "simple" /\ server'[r].content = hs'[h].req.seen
  <2>1. hs'[h].req.o[1] \in Resources /\ hs'[h].etag \in Nat
    BY <1>1, <1>4 DEF Aiming, GoodRequest, Occurrences, HandlerState
  <2>2. Pinned(hs'[h].req.o[1], hs'[h].etag, hs'[h].req.seen)
    BY <1>4 DEF Ready
  <2> QED BY <2>1, <2>2, PinsStay
<1>5. (\A x \in hs[h].got : PinnedObservation(x))'
  BY <1>2 DEF PinnedObservation, Pinned
<1>6. Asks(h)'
  BY <1>3 DEF Asks, VersionSays, Live, OnEvent
<1>7. Aims(h)'
  BY <1>4 DEF Aims, Aiming, Pinned, OnEvent
<1> QED BY <1>5, <1>6, <1>7 DEF HandlerPinned

(* A handler goes on with what it knew, or gives its request up.           *)
LEMMA KeepsWhatItKnew ==
  ASSUME WriteInv, NEW h \in Handlers,
         \/ hs'[h] = hs[h]
         \/ hs'[h] = Quiet
         \/ /\ hs'[h].req = hs[h].req /\ hs'[h].etag = hs[h].etag /\ hs'[h].got = hs[h].got
            /\ hs'[h].pc # "admit" /\ (hs'[h].pc \in Aiming => hs[h].pc \in Aiming)
  PROVE  Ready(h)
<1>1. hs[h] \in HandlerState /\ Asks(h) /\ Aims(h)
      /\ \A x \in hs[h].got : x \in Observation /\ PinnedObservation(x)
  BY DEF WriteInv, HandlerPinned, KeyInv, MutationTypeInv, MutationTypeOK, HandlerState
<1>2. CASE hs'[h] = hs[h]
  BY <1>1, <1>2 DEF Ready, Asks, Aims, Aiming
<1>3. CASE hs'[h] = Quiet
  BY <1>3 DEF Ready, Aiming, Quiet, HandlerAt
<1>4. CASE /\ hs'[h].req = hs[h].req /\ hs'[h].etag = hs[h].etag /\ hs'[h].got = hs[h].got
           /\ hs'[h].pc # "admit" /\ (hs'[h].pc \in Aiming => hs[h].pc \in Aiming)
  BY <1>1, <1>4 DEF Ready, Aims, Aiming
<1> QED BY <1>2, <1>3, <1>4

(* A client names the version it saw and what that version said.           *)
LEMMA SendReady ==
  ASSUME WriteInv, NEW h \in Handlers, NEW k \in Keys, NEW req \in Requests, Send(h, k, req)
  PROVE  Ready(h)
<1>1. hs'[h] = HandlerAt("admit", k, req)
  BY DEF Send, WriteInv, KeyInv, MutationTypeInv, MutationTypeOK
<1>2. hs'[h].pc = "admit" /\ hs'[h].req = req /\ hs'[h].got = {}
  BY <1>1 DEF HandlerAt
<1>3. ASSUME OnEvent(req) PROVE VersionSays(ev[req.o], req.version, req.seen)
  <2>1. PICK o \in Occurrences : \E op, x : req = EventRequest(op, o, x)
    BY <1>3 DEF Requests, OnEvent, NewRequest, LiveEvents
  <2>2. PICK op, x : req = EventRequest(op, o, x)
    BY <2>1
  <2>3. req.o = o /\ req.version = ev[o].version /\ req.seen = ev[o].content
    BY <2>2 DEF EventRequest
  <2>4. ev[o].version \in Nat
    BY DEF WriteInv, KeyInv, MutationTypeInv, MutationTypeOK, TypeOK, Row
  <2> QED BY <2>3, <2>4 DEF VersionSays
<1> QED BY <1>2, <1>3 DEF Ready, Aiming

(* The preflight: the row still has the client's version, so it says what  *)
(* the client saw, and its ETag pins that down.                            *)
LEMMA AdmitReady ==
  ASSUME WriteInv, NEW h \in Handlers, Admit(h) PROVE Ready(h)
<1>0. hs \in [Handlers -> HandlerState] /\ hs[h] \in HandlerState /\ hs[h].pc = "admit"
      /\ GoodRequest(hs[h].req)
  BY DEF Admit, WriteInv, KeyInv, MutationTypeInv, MutationTypeOK, HandlerShape
<1>1. CASE hs'[h] = Quiet
  BY <1>1, KeepsWhatItKnew
<1>2. CASE hs'[h] # Quiet
  <2> DEFINE etag == IF OnEvent(hs[h].req) THEN ev[hs[h].req.o].etag ELSE 0
             rec == [hs[h] EXCEPT !.pc = "claim", !.etag = etag]
  <2>1. Acceptable(hs[h].req) /\ hs'[h] = rec
    BY <1>0, <1>2 DEF Admit, AnswerFromKey
  <2>2. OnEvent(hs[h].req) => etag = ev[hs[h].req.o].etag
    OBVIOUS
  <2> HIDE DEF etag
  <2>3. rec.pc = "claim" /\ rec.req = hs[h].req /\ rec.got = hs[h].got /\ rec.etag = etag
    BY <1>0 DEF HandlerState
  <2> HIDE DEF rec
  <2>4. ASSUME OnEvent(hs[h].req) PROVE Pinned(hs[h].req.o[1], etag, hs[h].req.seen)
    <3> DEFINE row == ev[hs[h].req.o]
    <3>1. hs[h].req.o \in Occurrences
      BY <1>0, <2>4 DEF GoodRequest
    <3>2. Live(row) /\ row.version = hs[h].req.version /\ row.safe
      <4>1. Writable(hs[h].req)
        BY <2>1, <2>4, Zenon DEF Acceptable, OnEvent
      <4> QED BY <4>1 DEF Writable
    <3>3. VersionSays(row, hs[h].req.version, hs[h].req.seen)
      BY <1>0, <2>4 DEF WriteInv, HandlerPinned, Asks
    <3>4. row.content = hs[h].req.seen
      BY <3>2, <3>3 DEF VersionSays
    <3>5. Pinned(hs[h].req.o[1], row.etag, row.content)
      BY <3>1, <3>2 DEF WriteInv, RowsPinned, PinnedRow
    <3> QED BY <2>2, <2>4, <3>4, <3>5
  <2>5. \A x \in hs[h].got : x \in Observation /\ PinnedObservation(x)
    BY <1>0 DEF WriteInv, HandlerPinned, HandlerState
  <2> QED BY <2>1, <2>3, <2>4, <2>5 DEF Ready, Aiming
<1> QED BY <1>1, <1>2

(* A handler that stores an answer is done.                                *)
LEMMA StoreReady ==
  ASSUME WriteInv, NEW h \in Handlers, NEW answer, Store(h, answer) PROVE Ready(h)
<1>1. hs'[h] = Quiet
  BY DEF Store, WriteInv, KeyInv, MutationTypeInv, MutationTypeOK
<1> QED BY <1>1, KeepsWhatItKnew

(* The claim and the checks leave request, ETag and result alone.          *)
LEMMA ChecksReady ==
  ASSUME WriteInv, NEW h \in Handlers, Claim(h) \/ Prepare(h) \/ CheckCurrent(h) PROVE Ready(h)
<1>0. hs \in [Handlers -> HandlerState] /\ hs[h] \in HandlerState /\ hs[h].pc \in Aiming
  BY DEF Claim, Prepare, CheckCurrent, Aiming, WriteInv, KeyInv, MutationTypeInv, MutationTypeOK
<1>1. CASE AnswerFromKey(h)
  BY <1>0, <1>1, KeepsWhatItKnew DEF AnswerFromKey
<1>2. CASE \E answer : Store(h, answer)
  BY <1>2, StoreReady
<1>3. ASSUME NEW pc \in {"check", "write"}, Goto(h, pc) PROVE Ready(h)
  <2> DEFINE rec == [hs[h] EXCEPT !.pc = pc]
  <2>1. hs'[h] = rec
    BY <1>0, <1>3 DEF Goto
  <2>2. rec.req = hs[h].req /\ rec.etag = hs[h].etag /\ rec.got = hs[h].got /\ rec.pc # "admit"
    BY <1>0 DEF HandlerState
  <2> HIDE DEF rec
  <2> QED BY <1>0, <2>1, <2>2, KeepsWhatItKnew
<1>4. CASE Claim(h) /\ ~AnswerFromKey(h)
  <2> DEFINE primed == IF OnEvent(hs[h].req) THEN [etag |-> ev[hs[h].req.o].etag,
                                                   safe |-> ev[hs[h].req.o].safe]
                       ELSE NoPrimed
             rec == [hs[h] EXCEPT !.pc = "prepare", !.primed = primed]
  <2>1. hs'[h] = rec
    BY <1>0, <1>4 DEF Claim
  <2> HIDE DEF primed
  <2>2. rec.req = hs[h].req /\ rec.etag = hs[h].etag /\ rec.got = hs[h].got /\ rec.pc # "admit"
    BY <1>0 DEF HandlerState
  <2> HIDE DEF rec
  <2> QED BY <1>0, <2>1, <2>2, KeepsWhatItKnew
<1>5. CASE Prepare(h)
  <2>1. (\E answer : Store(h, answer)) \/ Goto(h, "check") \/ Goto(h, "write")
    BY <1>5 DEF Prepare, CallFails, Stop
  <2> QED BY <1>2, <1>3, <2>1
<1>6. CASE CheckCurrent(h)
  <2>1. (\E answer : Store(h, answer)) \/ Goto(h, "write")
    BY <1>6 DEF CheckCurrent, CallFails, Stop
  <2> QED BY <1>2, <1>3, <2>1
<1> QED BY <1>1, <1>4, <1>5, <1>6

(* Once the write has taken effect the pin has done its work.              *)
LEMMA WriteReady ==
  ASSUME WriteInv, NEW h \in Handlers, Write(h) PROVE Ready(h)
<1>0. hs \in [Handlers -> HandlerState] /\ hs[h] \in HandlerState
  BY DEF WriteInv, KeyInv, MutationTypeInv, MutationTypeOK
<1>1. CASE \E answer : Store(h, answer)
  BY <1>1, StoreReady
<1>2. ASSUME NEW r, NEW c, hs' = [hs EXCEPT ![h].pc = "readback", ![h].r = r, ![h].c = c]
      PROVE  Ready(h)
  <2> DEFINE rec == [hs[h] EXCEPT !.pc = "readback", !.r = r, !.c = c]
  <2>1. hs'[h] = rec
    BY <1>0, <1>2
  <2>2. rec = [hs[h] EXCEPT !.pc = "readback", !.r = r, !.c = c]
    OBVIOUS
  <2> HIDE DEF rec
  <2>3. /\ rec.req = hs[h].req /\ rec.etag = hs[h].etag /\ rec.got = hs[h].got
        /\ rec.pc = "readback"
    BY <1>0, <2>2 DEF HandlerState
  <2> QED BY <2>1, <2>3, KeepsWhatItKnew DEF Aiming
<1>3. \/ \E answer : Store(h, answer)
      \/ \E r, c : hs' = [hs EXCEPT ![h].pc = "readback", ![h].r = r, ![h].c = c]
  BY DEF Write, CallFails, Stop
<1> QED BY <1>1, <1>2, <1>3

(* What a readback hands on is what the server holds.                      *)
LEMMA ReadbackReady ==
  ASSUME WriteInv, NEW h \in Handlers, Readback(h) PROVE Ready(h)
<1>0. hs \in [Handlers -> HandlerState] /\ hs[h] \in HandlerState /\ hs[h].pc = "readback"
  BY DEF Readback, WriteInv, KeyInv, MutationTypeInv, MutationTypeOK
<1>1. CASE \E answer : Store(h, answer)
  BY <1>1, StoreReady
<1>2. ASSUME NEW got, Found(h, got), \A x \in got : x \in Observation /\ PinnedObservation(x)
      PROVE  Ready(h)
  <2> DEFINE rec == [hs[h] EXCEPT !.pc = "finish", !.got = got]
  <2>1. hs'[h] = rec
    BY <1>0, <1>2 DEF Found
  <2>2. rec.pc = "finish" /\ rec.got = got
    BY <1>0 DEF HandlerState
  <2> HIDE DEF rec
  <2> QED BY <1>2, <2>1, <2>2 DEF Ready, Aiming
<1>3. CASE hs[h].req.op \in {"create", "update"} /\ ReadEvent(h)
  <2> DEFINE r == hs[h].r
             x == [o |-> OccurrenceOf(r), content |-> server[r].content,
                   etag |-> server[r].etag, safe |-> server[r].kind = "simple"]
  <2>1. r \in Resources
    BY <1>0, <1>3 DEF WriteInv, KeyInv, MutationTypeInv, HandlerShape
  <2>2. server[r].content \in Contents \cup {NoContent} /\ server[r].etag \in Nat
    BY <2>1 DEF WriteInv, KeyInv, MutationTypeInv, MutationTypeOK, TypeOK, Resource
  <2>3. OccurrenceOf(r) \in Occurrences /\ OccurrenceOf(r)[1] = r
    BY <2>1 DEF OccurrenceOf, Occurrences
  <2>4. x \in Observation
    BY <2>2, <2>3 DEF Observation
  <2>5. PinnedObservation(x)
    <3>1. /\ x.o = OccurrenceOf(r) /\ x.content = server[r].content /\ x.etag = server[r].etag
          /\ x.safe => server[r].kind = "simple"
      OBVIOUS
    <3> HIDE DEF x
    <3>2. x.safe => Pinned(r, x.etag, x.content)
      BY <2>2, <3>1 DEF Pinned
    <3> QED BY <2>3, <3>1, <3>2 DEF PinnedObservation
  <2>6. Stop(h, "uncertain") \/ Stop(h, "payload_invalid") \/ Found(h, {x})
    BY <1>3 DEF ReadEvent
  <2>7. Stop(h, "uncertain") \/ Stop(h, "payload_invalid") => \E answer : Store(h, answer)
    BY DEF Stop
  <2> HIDE DEF x
  <2> QED BY <1>1, <1>2, <2>4, <2>5, <2>6, <2>7
<1>4. CASE ReadPresence(h)
  <2>1. Stop(h, "uncertain") \/ Found(h, {})
    BY <1>4 DEF ReadPresence
  <2>2. Stop(h, "uncertain") => \E answer : Store(h, answer)
    BY DEF Stop
  <2> QED BY <1>1, <1>2, <2>1, <2>2
<1>5. \/ CallFails(h, "uncertain") \/ ReadPresence(h)
      \/ hs[h].req.op \in {"create", "update"} /\ ReadEvent(h)
  BY DEF Readback
<1>6. CallFails(h, "uncertain") => \E answer : Store(h, answer)
  BY DEF CallFails
<1> QED BY <1>1, <1>3, <1>4, <1>5, <1>6

(* A step of one handler leaves the local variables of the others alone.   *)
LEMMA OnlyOneMoves ==
  ASSUME MutationTypeInv, NEW h \in Handlers, HandlerStep(h)
  PROVE  \E rec : hs' = [hs EXCEPT ![h] = rec]
<1>0. hs \in [Handlers -> HandlerState]
  BY DEF MutationTypeInv, MutationTypeOK
<1>1. CASE \E rec : hs' = [hs EXCEPT ![h] = rec]
  BY <1>1
<1>2. ASSUME NEW pc, hs' = [hs EXCEPT ![h].pc = pc] PROVE \E rec : hs' = [hs EXCEPT ![h] = rec]
  BY <1>0, <1>2
<1>3. CASE \E answer : Store(h, answer)
  BY <1>3 DEF Store
<1>4. CASE Admit(h)
  BY <1>4 DEF Admit, AnswerFromKey
<1>5. CASE Claim(h)
  BY <1>0, <1>5 DEF Claim, AnswerFromKey
<1>6. CASE Prepare(h) \/ CheckCurrent(h)
  <2>1. (\E answer : Store(h, answer)) \/ Goto(h, "check") \/ Goto(h, "write")
    BY <1>6 DEF Prepare, CheckCurrent, CallFails, Stop
  <2> QED BY <1>2, <1>3, <2>1 DEF Goto
<1>7. CASE Write(h)
  <2>1. \/ \E answer : Store(h, answer)
        \/ \E r, c : hs' = [hs EXCEPT ![h].pc = "readback", ![h].r = r, ![h].c = c]
    BY <1>7 DEF Write, CallFails, Stop
  <2> QED BY <1>0, <1>3, <2>1
<1>8. CASE Readback(h)
  <2>1. (\E answer : Store(h, answer)) \/ \E got : Found(h, got)
    BY <1>8 DEF Readback, ReadEvent, ReadPresence, CallFails, Stop
  <2> QED BY <1>0, <1>3, <2>1 DEF Found
<1>9. CASE Finish(h)
  BY <1>3, <1>9 DEF Finish, CallFails, Stop
<1> QED BY <1>4, <1>5, <1>6, <1>7, <1>8, <1>9 DEF HandlerStep

(* Every step leaves every handler with what it may know.                  *)
LEMMA HandlersReady ==
  ASSUME WriteInv, [MutationNext]_vars, NEW g \in Handlers PROVE Ready(g)
<1>0. hs \in [Handlers -> HandlerState]
  BY DEF WriteInv, KeyInv, MutationTypeInv, MutationTypeOK
<1>1. CASE UNCHANGED vars \/ CacheStep
  BY <1>1, KeepsWhatItKnew DEF vars, mutationVars, CacheStep
<1>2. CASE \E h \in Handlers, k \in Keys : \E req \in Requests : Send(h, k, req)
  <2>1. PICK h \in Handlers, k \in Keys : \E req \in Requests : Send(h, k, req)
    BY <1>2
  <2>2. CASE g = h
    BY <2>1, <2>2, SendReady
  <2>3. CASE g # h
    BY <1>0, <2>1, <2>3, KeepsWhatItKnew DEF Send
  <2> QED BY <2>2, <2>3
<1>3. CASE \E h \in Handlers : HandlerStep(h)
  <2>1. PICK h \in Handlers : HandlerStep(h)
    BY <1>3
  <2>2. CASE g = h
    <3>1. CASE Finish(h)
      <4>1. \E answer : Store(h, answer)
        BY <3>1 DEF Finish, CallFails, Stop
      <4> QED BY <2>2, <4>1, StoreReady
    <3> QED BY <2>1, <2>2, <3>1, AdmitReady, ChecksReady, WriteReady, ReadbackReady
            DEF HandlerStep
  <2>3. CASE g # h
    <3>1. \E rec : hs' = [hs EXCEPT ![h] = rec]
      BY <2>1, OnlyOneMoves DEF WriteInv, KeyInv
    <3> QED BY <1>0, <2>3, <3>1, KeepsWhatItKnew
  <2> QED BY <2>2, <2>3
<1>4. CASE \E w \in flight : Arrive(w)
  BY <1>4, KeepsWhatItKnew DEF Arrive
<1>5. CASE Restart
  BY <1>5, KeepsWhatItKnew DEF Restart
<1> QED BY <1>1, <1>2, <1>3, <1>4, <1>5 DEF MutationNext

-----------------------------------------------------------------------------
(* The writes.  A write on an event aims at its resource, under the pin    *)
(* that its handler holds.                                                 *)
LEMMA TargetPinned ==
  ASSUME WriteInv, NEW h \in Handlers, hs[h].pc = "write", NEW target \in Targets(h)
  PROVE  WriteOf(h, target) \in WriteRecord /\ WritePinned(WriteOf(h, target))
<1>1. WriteOf(h, target) \in WriteRecord
  BY TargetType DEF WriteInv, KeyInv
<1>2. /\ WriteOf(h, target).req = hs[h].req /\ WriteOf(h, target).etag = hs[h].etag
      /\ WriteOf(h, target).r = target.r
  BY DEF WriteOf
<1>3. ASSUME OnEvent(hs[h].req)
      PROVE  /\ target.r = hs[h].req.o[1] /\ target.r \in Resources
             /\ Pinned(target.r, hs[h].etag, hs[h].req.seen)
  <2>1. target.r = hs[h].req.o[1]
    BY <1>3 DEF Targets, OnEvent
  <2>2. hs[h].req.o \in Occurrences
    BY <1>3 DEF WriteInv, KeyInv, MutationTypeInv, HandlerShape, GoodRequest
  <2>3. Pinned(hs[h].req.o[1], hs[h].etag, hs[h].req.seen)
    BY <1>3 DEF WriteInv, HandlerPinned, Aims
  <2> QED BY <2>1, <2>2, <2>3 DEF Occurrences
<1> QED BY <1>1, <1>2, <1>3 DEF WritePinned

(* A write travels only after a handler sent it.                           *)
LEMMA NewFlight ==
  ASSUME WriteInv, [MutationNext]_vars, NEW w \in flight', w \notin flight
  PROVE  \E h \in Handlers : \E target \in Targets(h) :
            hs[h].pc = "write" /\ w = WriteOf(h, target)
<1>1. CASE UNCHANGED vars \/ CacheStep
  BY <1>1 DEF vars, mutationVars, CacheStep
<1>2. CASE \E h \in Handlers, k \in Keys : \E req \in Requests : Send(h, k, req)
  BY <1>2 DEF Send
<1>3. CASE \E h \in Handlers : HandlerStep(h)
  <2>1. PICK h \in Handlers : HandlerStep(h)
    BY <1>3
  <2>2. CASE Admit(h) \/ Claim(h)
    BY <2>2 DEF Admit, Claim, AnswerFromKey
  <2>3. CASE Prepare(h) \/ CheckCurrent(h)
    BY <2>3 DEF Prepare, CheckCurrent, CallFails, Stop, Goto
  <2>4. CASE Write(h)
    <3>1. \/ flight' = flight
          \/ \E target \in Targets(h) : flight' = flight \cup {WriteOf(h, target)}
      BY <2>4 DEF Write, CallFails, Stop
    <3>2. hs[h].pc = "write"
      BY <2>4 DEF Write
    <3> QED BY <3>1, <3>2
  <2>5. CASE Readback(h)
    BY <2>5 DEF Readback, ReadEvent, ReadPresence, Found, CallFails, Stop
  <2>6. CASE Finish(h)
    BY <2>6 DEF Finish, CallFails, Stop
  <2> QED BY <2>1, <2>2, <2>3, <2>4, <2>5, <2>6 DEF HandlerStep
<1>4. CASE \E v \in flight : Arrive(v)
  BY <1>4 DEF Arrive
<1>5. CASE Restart
  <2>1. PICK sent \in SUBSET {h \in Handlers : hs[h].pc = "write" /\ Targets(h) # {}} :
          flight' = flight \cup {WriteOf(h, CHOOSE target \in Targets(h) : TRUE) : h \in sent}
    BY <1>5 DEF Restart
  <2>2. PICK h \in sent : w = WriteOf(h, CHOOSE target \in Targets(h) : TRUE)
    BY <2>1
  <2>3. hs[h].pc = "write" /\ (CHOOSE target \in Targets(h) : TRUE) \in Targets(h)
    BY <2>1
  <2> QED BY <2>2, <2>3
<1> QED BY <1>1, <1>2, <1>3, <1>4, <1>5 DEF MutationNext

(* A write under way keeps the pin of the event it was sent for.           *)
LEMMA FlightStaysPinned ==
  ASSUME WriteInv, [MutationNext]_vars PROVE \A w \in flight' : WritePinned(w)'
<1>1. ASSUME NEW w \in flight' PROVE w \in WriteRecord /\ WritePinned(w)
  <2>1. CASE w \in flight
    BY <2>1 DEF WriteInv, KeyInv, MutationTypeInv, MutationTypeOK, WriteRecord
  <2>2. CASE w \notin flight
    BY <2>2, NewFlight, TargetPinned
  <2> QED BY <2>1, <2>2
<1>2. ASSUME NEW w \in flight', OnEvent(w.req)
      PROVE  /\ w.r = w.req.o[1] /\ w.r \in Resources
             /\ w.etag <= server'[w.r].etag
             /\ w.etag = server'[w.r].etag
                  => server'[w.r].kind = "simple" /\ server'[w.r].content = w.req.seen
  <2>1. w.etag \in Nat /\ w.r = w.req.o[1] /\ w.r \in Resources
        /\ Pinned(w.r, w.etag, w.req.seen)
    BY <1>1, <1>2 DEF WriteRecord, WritePinned
  <2> QED BY <2>1, PinsStay
<1> QED BY <1>2 DEF WritePinned, Pinned

-----------------------------------------------------------------------------
(* Every step keeps the invariant.                                         *)
LEMMA WriteStep == ASSUME WriteInv, [MutationNext]_vars PROVE WriteInv'
<1>1. KeyInv'
  BY KeyStep DEF WriteInv
<1>2. RowsPinned' /\ SeenPinned'
  BY RowsStayPinned, SeenStayPinned
<1>3. (\A h \in Handlers : HandlerPinned(h))'
  BY HandlersReady, ReadyIsPinned
<1>4. (\A w \in flight : WritePinned(w))'
  BY FlightStaysPinned
<1> QED BY <1>1, <1>2, <1>3, <1>4 DEF WriteInv

(* It holds at the start: the copy is empty and nothing is asked for.      *)
LEMMA WriteInit == ASSUME MutationInit PROVE WriteInv
<1>1. KeyInv
  BY KeyInit
<1>2. RowsPinned
  BY DEF MutationInit, Init, RowsPinned, PinnedRow, NoRow
<1>3. SeenPinned
  BY DEF MutationInit, Init, SeenPinned, Idle
<1>4. \A h \in Handlers : HandlerPinned(h)
  BY DEF MutationInit, HandlerPinned, Asks, Aims, Quiet, HandlerAt
<1> QED BY <1>1, <1>2, <1>3, <1>4 DEF MutationInit, WriteInv

(* An effect counted under a key is a write that took effect, made for the *)
(* request that the key stands for.                                        *)
LEMMA EffectsAreWrites ==
  ASSUME WriteInv, [MutationNext]_vars, NEW k \in Keys, effects'[k] # effects[k]
  PROVE  \E w \in WriteRecord : /\ Apply(w) /\ WritePinned(w)
                                /\ w.k = k /\ keyRow[k].req = w.req
<1>0. effects \in [Keys -> Nat]
  BY DEF WriteInv, KeyInv, MutationTypeInv, MutationTypeOK
<1>1. ASSUME NEW w \in WriteRecord, Apply(w) PROVE w.k = k
  <2>1. effects' = [effects EXCEPT ![w.k] = effects[w.k] + 1]
    BY <1>1 DEF Apply
  <2> QED BY <1>0, <2>1
<1>2. ASSUME NEW h \in Handlers, Write(h)
      PROVE  \E w \in WriteRecord : /\ Apply(w) /\ WritePinned(w)
                                    /\ w.k = k /\ keyRow[k].req = w.req
  <2>1. PICK target \in Targets(h) : Apply(WriteOf(h, target))
    BY <1>2 DEF Write, CallFails, Stop
  <2>2. hs[h].pc = "write" /\ Working(h)
    BY <1>2 DEF Write, Working
  <2>3. WriteOf(h, target) \in WriteRecord /\ WritePinned(WriteOf(h, target))
    BY <2>2, TargetPinned
  <2>4. WriteOf(h, target).k = hs[h].k /\ WriteOf(h, target).req = hs[h].req
    BY DEF WriteOf
  <2>5. keyRow[hs[h].k].req = hs[h].req
    BY <2>2 DEF WriteInv, KeyInv, OwnersKept, Owns
  <2>6. hs[h].k = k
    BY <1>1, <2>1, <2>3, <2>4
  <2> QED BY <2>1, <2>3, <2>4, <2>5, <2>6
<1>3. ASSUME NEW w \in flight, Arrive(w)
      PROVE  \E v \in WriteRecord : /\ Apply(v) /\ WritePinned(v)
                                    /\ v.k = k /\ keyRow[k].req = v.req
  <2>1. Apply(w)
    BY <1>3 DEF Arrive
  <2>2. w \in WriteRecord /\ WritePinned(w) /\ keyRow[w.k].req = w.req
    BY DEF WriteInv, KeyInv, FlightKept, Pending, MutationTypeInv, MutationTypeOK, WriteRecord
  <2> QED BY <1>1, <2>1, <2>2
<1>4. (\E h \in Handlers : Write(h)) \/ (\E w \in flight : Arrive(w))
  <2>1. CASE UNCHANGED vars \/ CacheStep
    BY <2>1 DEF vars, mutationVars, CacheStep
  <2>2. CASE \E h \in Handlers, j \in Keys : \E req \in Requests : Send(h, j, req)
    BY <2>2 DEF Send
  <2>3. CASE \E h \in Handlers : HandlerStep(h)
    <3>1. PICK h \in Handlers : HandlerStep(h)
      BY <2>3
    <3>2. CASE Admit(h) \/ Claim(h)
      BY <3>2 DEF Admit, Claim, AnswerFromKey
    <3>3. CASE Prepare(h) \/ CheckCurrent(h)
      BY <3>3 DEF Prepare, CheckCurrent, CallFails, Stop, Goto
    <3>4. CASE Readback(h) \/ Finish(h)
      BY <3>4 DEF Readback, ReadEvent, ReadPresence, Found, Finish, CallFails, Stop
    <3> QED BY <3>1, <3>2, <3>3, <3>4 DEF HandlerStep
  <2>4. CASE Restart
    BY <2>4 DEF Restart
  <2> QED BY <2>1, <2>2, <2>3, <2>4 DEF MutationNext
<1> QED BY <1>2, <1>3, <1>4

(* A write of the bot replaces or deletes only what its client saw when it *)
(* chose the version, whatever refreshes, other devices, restarts and late *)
(* writes lie between.                                                     *)
THEOREM NoLostUpdateHolds == MutationSpec => NoLostUpdate
<1>1. MutationInit => WriteInv
  BY WriteInit
<1>2. WriteInv /\ [MutationNext]_vars => WriteInv'
  BY WriteStep
<1>3. ASSUME WriteInv, [MutationNext]_vars, NEW k \in Keys, Overwrites(k)
      PROVE  LET req == keyRow[k].req
             IN  /\ server[req.o[1]].kind = "simple"
                 /\ server[req.o[1]].content = req.seen
  <2>1. PICK w \in WriteRecord : Apply(w) /\ WritePinned(w) /\ w.k = k /\ keyRow[k].req = w.req
    BY <1>3, EffectsAreWrites DEF Overwrites
  <2>2. OnEvent(w.req)
    BY <1>3, <2>1 DEF Overwrites
  <2>3. w.r = w.req.o[1] /\ Pinned(w.r, w.etag, w.req.seen)
    BY <2>1, <2>2 DEF WritePinned
  <2>4. server[w.r].etag = w.etag
    <3>1. Verdict(w) = "ok"
      BY <2>1 DEF Apply
    <3>2. server[w.r].etag # w.etag => Verdict(w) \in {"not_found", "etag_conflict"}
      BY <2>2, Zenon DEF Verdict, OnEvent
    <3> QED BY <3>1, <3>2
  <2> QED BY <2>1, <2>3, <2>4 DEF Pinned
<1>4. WriteInv /\ [MutationNext]_vars =>
        [\A k \in Keys : Overwrites(k) =>
           LET req == keyRow[k].req
           IN  server[req.o[1]].kind = "simple" /\ server[req.o[1]].content = req.seen]_vars
  BY <1>3
<1> QED BY <1>1, <1>2, <1>4, PTL DEF MutationSpec, NoLostUpdate

(* A version tells one state of an event from every other, whichever of    *)
(* the refreshes and confirmed writes touched the row.                     *)
THEOREM VersionsTellEvents == MutationSpec => VersionsTellApart
<1>1. MutationInit => WriteInv
  BY WriteInit
<1>2. WriteInv /\ [MutationNext]_vars => WriteInv'
  BY WriteStep
<1>3. ASSUME WriteInv, [MutationNext]_vars, NEW o \in Occurrences
      PROVE  Told(ev[o], ev'[o])
  BY <1>3, RowsGood DEF Good
<1>4. WriteInv /\ [MutationNext]_vars =>
        [\A o \in Occurrences : Told(ev[o], ev'[o])]_cacheVars
  BY <1>3
<1> QED BY <1>1, <1>2, <1>4, PTL DEF MutationSpec, VersionsTellApart

-----------------------------------------------------------------------------
(* The refresh.  What the copy promises about a complete refresh rests on  *)
(* every event that it could lose being verified, and a refresh verifies   *)
(* at most Limit resources of a calendar: the theorems on tombstones and   *)
(* on quiet refreshes are about calendars that are not larger.             *)
VerifiesAll ==
  \A c \in Calendars : Cardinality({r \in Resources : CollectionOf[r] = c}) <= Limit

-----------------------------------------------------------------------------
(* What happens beside a refresh: it does not touch its local variables,   *)
(* gives no row a strike, and what it changes ends the calm.               *)
Aside ==
  /\ rf' = rf /\ told' = told
  /\ \A c \in Calendars : calRow[c] # "none" => calRow'[c] # "none"
  /\ \A o \in Occurrences : ev'[o] = ev[o] \/ ev'[o].misses = 0
  /\ ~calm' \/ UNCHANGED <<calm, collections, server, ev>>
(* The end of the process takes the refresh with it.                       *)
Cut ==
  /\ rf' = Idle /\ told' = told
  /\ UNCHANGED <<calm, collections, server, ev, calRow>>

(* The events that the refresh must verify: those that may lose their      *)
(* second life in it, and all of them while nothing changes.               *)
Due(o) == Live(ev[o]) /\ (calm \/ ev[o].misses # 0)

Underway == rf.pc \notin {"idle", "list"}
Asking(o) ==
  /\ CollectionOf[o[1]] = rf.cal
  /\ rf.pc = "ask" \/ (rf.pc = "verify" /\ o[1] \in rf.asked)

ShapeKept ==
  /\ ~Underway => rf = [Idle EXCEPT !.pc = rf.pc, !.since = rf.since]
  /\ rf.todo \subseteq rf.listed
  /\ rf.pc = "commit" => rf.todo = {}
  /\ rf.pc \in {"ask", "verify"} => rf.cal \in rf.listed \ rf.todo
  /\ rf.pc = "verify" => \A r \in rf.asked : CollectionOf[r] = rf.cal
  /\ \A r \in rf.missing \cup rf.present : CollectionOf[r] \in rf.listed
StrikesTold ==
  \A o \in Occurrences : ev[o].misses # 0 =>
     Live(ev[o]) /\ o[1] \in told /\ calRow[CollectionOf[o[1]]] # "none"
DueVerified ==
  \A o \in Occurrences :
     Due(o) /\ CollectionOf[o[1]] \in rf.listed \ rf.todo =>
        o[1] \in rf.missing \cup rf.present \/ Asking(o)

StrikeInv == ShapeKept /\ StrikesTold /\ DueVerified

(* Beside a refresh the invariant is not at risk.                          *)
LEMMA AsideKeeps == ASSUME CalendarAssumption, StrikeInv, Aside \/ Cut PROVE StrikeInv'
<1>0. \A o \in Occurrences : o[1] \in Resources /\ CollectionOf[o[1]] \in Calendars
  BY DEF CalendarAssumption, Occurrences
<1>1. CASE Aside
  <2>1. ShapeKept'
    BY <1>1 DEF Aside, StrikeInv, ShapeKept, Underway
  <2>2. StrikesTold'
    BY <1>0, <1>1 DEF Aside, StrikeInv, StrikesTold, Live
  <2>3. ASSUME NEW o \in Occurrences, Due(o)' PROVE Due(o)
    BY <1>1, <2>3 DEF Aside, Due, Live
  <2>4. DueVerified'
    BY <1>1, <2>3 DEF Aside, StrikeInv, DueVerified, Asking
  <2> QED BY <2>1, <2>2, <2>4 DEF StrikeInv
<1>2. CASE Cut
  <2>1. Idle = [Idle EXCEPT !.pc = Idle.pc, !.since = Idle.since] /\ Idle.pc = "idle"
        /\ Idle.todo = {} /\ Idle.listed = {} /\ Idle.missing = {} /\ Idle.present = {}
    BY DEF Idle
  <2>2. ShapeKept'
    BY <1>2, <2>1 DEF Cut, ShapeKept, Underway
  <2>3. StrikesTold'
    BY <1>2 DEF Cut, StrikeInv, StrikesTold, Live
  <2>4. DueVerified'
    BY <1>2, <2>1 DEF Cut, DueVerified
  <2> QED BY <2>2, <2>3, <2>4 DEF StrikeInv
<1> QED BY <1>1, <1>2

(* The steps of a refresh up to its end leave rows and strikes alone.      *)
LEMMA OnlyReads ==
  ASSUME UNCHANGED <<ev, calRow, told>>, StrikesTold PROVE StrikesTold'
  BY DEF StrikesTold, Live

LEMMA StartKeeps ==
  ASSUME TypeOK, StrikeInv, BeginRefresh \/ ListCalendars PROVE StrikeInv'
<1>1. CASE BeginRefresh
  <2>1. rf' = [Idle EXCEPT !.pc = "list", !.since = clock]
    BY <1>1 DEF BeginRefresh
  <2>2. /\ rf'.pc = "list" /\ rf'.listed = {} /\ rf'.todo = {} /\ rf'.missing = {} /\ rf'.present = {}
        /\ rf' = [Idle EXCEPT !.pc = rf'.pc, !.since = rf'.since]
    BY <2>1 DEF Idle
  <2>3. ShapeKept'
    BY <2>2 DEF ShapeKept, Underway
  <2>4. DueVerified'
    BY <2>2 DEF DueVerified
  <2> QED BY <1>1, <2>3, <2>4, OnlyReads DEF StrikeInv, BeginRefresh, cacheRows
<1>2. CASE ListCalendars
  <2>1. /\ rf'.listed = collections /\ rf'.todo = collections
        /\ rf'.missing = {} /\ rf'.present = {}
        /\ rf'.pc = IF collections = {} THEN "commit" ELSE "fetch"
    BY <1>2 DEF ListCalendars, StrikeInv, ShapeKept, Underway, Idle, TypeOK, RefreshState
  <2>2. ShapeKept'
    BY <2>1 DEF ShapeKept, Underway
  <2>3. DueVerified'
    BY <2>1 DEF DueVerified
  <2> QED BY <1>2, <2>2, <2>3, OnlyReads DEF StrikeInv, ListCalendars, cacheRows, history
<1> QED BY <1>1, <1>2

LEMMA FetchKeeps ==
  ASSUME TypeOK, StrikeInv, NEW c \in Calendars, FetchEvents(c) PROVE StrikeInv'
<1>0. rf \in RefreshState
  BY DEF TypeOK
<1>1. /\ rf'.cal = c /\ rf'.todo = rf.todo \ {c} /\ rf'.pc = "ask" /\ rf.pc = "fetch" /\ c \in rf.todo
      /\ rf'.listed = rf.listed /\ rf'.missing = rf.missing /\ rf'.present = rf.present
  BY <1>0 DEF FetchEvents, RefreshState
<1>2. UNCHANGED <<ev, calRow, told, calm>>
  BY DEF FetchEvents, cacheRows, history
<1>3. ShapeKept'
  BY <1>1 DEF ShapeKept, StrikeInv, Underway
<1>4. DueVerified'
  BY <1>1, <1>2 DEF DueVerified, StrikeInv, Due, Live, Asking
<1> QED BY <1>2, <1>3, <1>4, OnlyReads DEF StrikeInv

(* Of a calendar that is not too large every live event is asked for.      *)
LEMMA AllAsked ==
  ASSUME CalendarAssumption, VerifiesAll, NEW o \in Occurrences, Live(ev[o])
  PROVE  o[1] \in CachedRefs(CollectionOf[o[1]])
<1> DEFINE c == CollectionOf[o[1]]
           here == {r \in Resources : CollectionOf[r] = c}
           refs == {r \in here : \E p \in Occurrences : p[1] = r /\ Live(ev[p])}
           before == {q \in refs : Rank[q] < Rank[o[1]]}
<1>1. o[1] \in Resources /\ c \in Calendars /\ Rank[o[1]] \in Nat
  BY DEF CalendarAssumption, Occurrences
<1>2. IsFiniteSet(here) /\ before \subseteq here
  BY FS_Subset DEF CalendarAssumption
<1>3. o[1] \in here /\ o[1] \notin before
  BY <1>1
<1>4. Cardinality(before) < Cardinality(here)
  <2>1. before \subseteq here \ {o[1]}
    BY <1>2, <1>3
  <2>2. IsFiniteSet(here \ {o[1]}) /\ Cardinality(here \ {o[1]}) = Cardinality(here) - 1
    BY <1>2, <1>3, FS_RemoveElement
  <2>3. Cardinality(before) <= Cardinality(here \ {o[1]})
    BY <2>1, <2>2, FS_Subset
  <2>4. Cardinality(here) \in Nat /\ Cardinality(before) \in Nat
    <3>1. IsFiniteSet(before)
      BY <1>2, FS_Subset
    <3> QED BY <1>2, <3>1, FS_CardinalityType
  <2> HIDE DEF here, before
  <2> QED BY <2>2, <2>3, <2>4
<1>5. Cardinality(before) < Limit
  <2>1. Cardinality(here) <= Limit
    BY <1>1 DEF VerifiesAll
  <2>2. Cardinality(here) \in Nat /\ Cardinality(before) \in Nat /\ Limit \in Nat
    <3>1. IsFiniteSet(before)
      BY <1>2, FS_Subset
    <3> QED BY <1>2, <3>1, FS_CardinalityType DEF CalendarAssumption
  <2> HIDE DEF here, before
  <2> QED BY <1>4, <2>1, <2>2
<1>6. CachedRefs(c) = {r \in refs : Cardinality({q \in refs : Rank[q] < Rank[r]}) < Limit}
  <2>1. refs = {r \in Resources : CollectionOf[r] = c /\ \E p \in Occurrences : p[1] = r /\ Live(ev[p])}
    OBVIOUS
  <2> QED BY <2>1 DEF CachedRefs
<1>7. o[1] \in refs
  BY <1>3
<1> QED BY <1>5, <1>6, <1>7

LEMMA AskKeeps ==
  ASSUME CalendarAssumption, VerifiesAll, TypeOK, StrikeInv, AskResources PROVE StrikeInv'
<1>0. rf \in RefreshState
  BY DEF TypeOK
<1> DEFINE refs == CachedRefs(rf.cal)
<1>1. rf' = [rf EXCEPT !.asked = refs, !.pc = IF refs = {} THEN AfterCalendar ELSE "verify"]
      /\ rf.pc = "ask"
  BY DEF AskResources
<1>2. \A r \in refs : CollectionOf[r] = rf.cal
  BY DEF CachedRefs
<1>3. \A o \in Occurrences : Live(ev[o]) /\ CollectionOf[o[1]] = rf.cal => o[1] \in refs
  BY AllAsked
<1> HIDE DEF refs
<1>4. /\ rf'.cal = rf.cal /\ rf'.todo = rf.todo /\ rf'.asked = refs
      /\ rf'.pc = (IF refs = {} THEN AfterCalendar ELSE "verify")
      /\ rf'.listed = rf.listed /\ rf'.missing = rf.missing /\ rf'.present = rf.present
  BY <1>0, <1>1 DEF RefreshState
<1>5. AfterCalendar = IF rf.todo = {} THEN "commit" ELSE "fetch"
  BY DEF AfterCalendar
<1>6. UNCHANGED <<ev, calRow, told, calm>>
  BY DEF AskResources, cacheRows, history
<1>7. ShapeKept'
  BY <1>1, <1>2, <1>4, <1>5 DEF ShapeKept, StrikeInv, Underway
<1>8. DueVerified'
  <2> SUFFICES ASSUME NEW o \in Occurrences, Due(o), CollectionOf[o[1]] \in rf.listed \ rf.todo
               PROVE  o[1] \in rf.missing \cup rf.present \/ Asking(o)'
    BY <1>4, <1>6 DEF DueVerified, Due, Live
  <2>1. o[1] \in rf.missing \cup rf.present \/ CollectionOf[o[1]] = rf.cal
    BY DEF StrikeInv, DueVerified, Asking
  <2>2. CASE CollectionOf[o[1]] = rf.cal
    <3>1. o[1] \in refs
      BY <1>3, <2>2 DEF Due
    <3> QED BY <1>4, <2>2, <3>1 DEF Asking
  <2> QED BY <2>1, <2>2
<1> QED BY <1>6, <1>7, <1>8, OnlyReads DEF StrikeInv

LEMMA VerifyKeeps ==
  ASSUME TypeOK, StrikeInv, NEW wrong \in SUBSET rf.asked, VerifyResources(wrong) PROVE StrikeInv'
<1>0. rf \in RefreshState
  BY DEF TypeOK
<1> DEFINE missing == wrong \cup {r \in rf.asked : ~server[r].there}
           present == rf.asked \ missing
           reports == UNION {Report(r, FALSE) : r \in present}
<1>1. rf' = [rf EXCEPT !.pc = AfterCalendar, !.missing = rf.missing \cup missing,
                       !.present = rf.present \cup present,
                       !.verified = rf.verified \cup reports]
      /\ rf.pc = "verify"
  BY DEF VerifyResources
<1>2. missing \cup present = rf.asked
  OBVIOUS
<1> HIDE DEF missing, present, reports
<1>3. /\ rf'.cal = rf.cal /\ rf'.todo = rf.todo /\ rf'.pc = AfterCalendar
      /\ rf'.listed = rf.listed
      /\ rf'.missing \cup rf'.present = rf.missing \cup rf.present \cup rf.asked
  BY <1>0, <1>1, <1>2 DEF RefreshState
<1>4. AfterCalendar = IF rf.todo = {} THEN "commit" ELSE "fetch"
  BY DEF AfterCalendar
<1>5. UNCHANGED <<ev, calRow, told>> /\ (calm' => calm)
  BY DEF VerifyResources, cacheRows
<1>6. ShapeKept'
  BY <1>1, <1>3, <1>4 DEF ShapeKept, StrikeInv, Underway
<1>7. DueVerified'
  <2> SUFFICES ASSUME NEW o \in Occurrences, Due(o), CollectionOf[o[1]] \in rf.listed \ rf.todo
               PROVE  o[1] \in rf.missing \cup rf.present \cup rf.asked
    BY <1>3, <1>5 DEF DueVerified, Due, Live
  <2> QED BY <1>1 DEF StrikeInv, DueVerified, Asking
<1> QED BY <1>5, <1>6, <1>7, OnlyReads DEF StrikeInv


(* What the transaction makes of a row, field by field.                    *)
LEMMA ObserveDoes ==
  ASSUME NEW o, NEW row, NEW seen
  PROVE  \/ Observe(row, o, seen) = row /\ ~\E x \in seen : x.o = o
         \/ \E x \in seen : x.o = o /\ Observe(row, o, seen) = Upsert(row, x)
<1>1. CASE \E x \in seen : x.o = o
  <2> DEFINE x == CHOOSE x \in seen : x.o = o
  <2>1. x \in seen /\ x.o = o
    BY <1>1
  <2>2. Observe(row, o, seen) = Upsert(row, x)
    BY <1>1 DEF Observe
  <2> HIDE DEF x
  <2> QED BY <2>1, <2>2
<1>2. CASE ~\E x \in seen : x.o = o
  BY <1>2 DEF Observe
<1> QED BY <1>1, <1>2

LEMMA UpsertDoes ==
  ASSUME NEW row, NEW x
  PROVE  /\ Live(Upsert(row, x)) /\ Upsert(row, x).misses = 0 /\ Upsert(row, x).sync = "synced"
         /\ Upsert(row, x).content = x.content /\ Upsert(row, x).deleted = FALSE
  BY DEF Upsert, Live

(* A row that the refresh has not seen is as it was; another says what was *)
(* seen.                                                                   *)
Says(row, x) ==
  Live(row) /\ row.misses = 0 /\ row.sync = "synced" /\ row.content = x.content
LEMMA ObservedDoes ==
  ASSUME NEW o
  PROVE  \/ Observed(o) = ev[o] /\ o \notin SeenNow
         \/ \E x \in rf.fetched \cup rf.verified : x.o = o /\ Says(Observed(o), x)
<1> DEFINE first == Observe(ev[o], o, rf.fetched)
<1>1. Observed(o) = Observe(first, o, rf.verified)
  BY DEF Observed
<1>2. \/ first = ev[o] /\ ~\E x \in rf.fetched : x.o = o
      \/ \E x \in rf.fetched : x.o = o /\ first = Upsert(ev[o], x)
  BY ObserveDoes
<1> HIDE DEF first
<1>3. \/ Observed(o) = first /\ ~\E x \in rf.verified : x.o = o
      \/ \E x \in rf.verified : x.o = o /\ Observed(o) = Upsert(first, x)
  BY <1>1, ObserveDoes
<1>4. \A row, x : Says(Upsert(row, x), x)
  BY UpsertDoes DEF Says
<1>5. CASE \E x \in rf.verified : x.o = o /\ Observed(o) = Upsert(first, x)
  BY <1>4, <1>5
<1>6. CASE \E x \in rf.fetched : x.o = o /\ first = Upsert(ev[o], x) /\ Observed(o) = first
  BY <1>4, <1>6
<1> QED BY <1>2, <1>3, <1>5, <1>6 DEF SeenNow

LEMMA MarksDo ==
  ASSUME NEW row \in Row
  PROVE  /\ ClearMisses(row).misses = 0 /\ ClearMisses(row).deleted = row.deleted
         /\ ClearMisses(row).known = row.known
         /\ MarkStale(row) \in Row /\ MarkStale(row).deleted = row.deleted
         /\ MarkStale(row).known = row.known
         /\ Tombstone(row).misses = 0 /\ Tombstone(row).deleted = TRUE
         /\ [row EXCEPT !.misses = 1].misses = 1
         /\ [row EXCEPT !.misses = 1].deleted = row.deleted
         /\ [row EXCEPT !.misses = 1].known = row.known
<1>1. MarkStale(row) \in Row
  BY RowOperators
<1>2. /\ MarkStale(row).deleted = row.deleted /\ MarkStale(row).known = row.known
      /\ ClearMisses(row).misses = 0 /\ ClearMisses(row).deleted = row.deleted
      /\ ClearMisses(row).known = row.known
      /\ [row EXCEPT !.misses = 1].misses = 1
      /\ [row EXCEPT !.misses = 1].deleted = row.deleted
      /\ [row EXCEPT !.misses = 1].known = row.known
  BY DEF Row, MarkStale, ClearMisses
<1>3. Tombstone(row).misses = 0 /\ Tombstone(row).deleted = TRUE
  <2> DEFINE version == row.version + 1
  <2>1. Tombstone(row) = [row EXCEPT !.deleted = TRUE, !.version = version, !.misses = 0]
    BY DEF Tombstone
  <2> HIDE DEF version
  <2> QED BY <2>1 DEF Row
<1> QED BY <1>1, <1>2, <1>3

LEMMA ObservedRow == ASSUME TypeOK, NEW o \in Occurrences PROVE Observed(o) \in Row
<1>1. ASSUME NEW row \in Row, NEW seen \in {rf.fetched, rf.verified} PROVE Observe(row, o, seen) \in Row
  <2>1. seen \subseteq Observation
    BY <1>1 DEF TypeOK, RefreshState
  <2> QED BY <1>1, <2>1, ObserveDoes, RowOperators
<1>2. ev[o] \in Row
  BY DEF TypeOK
<1> QED BY <1>1, <1>2 DEF Observed

(* A row with a strike after the transaction: its resource was reported    *)
(* missing and not seen, or the refresh had nothing to say of the row.     *)
LEMMA StrikeOrigin ==
  ASSUME TypeOK, NEW o \in Occurrences, Reconciled(o).misses # 0
  PROVE  \/ o[1] \in rf.missing /\ ~Contradicted(o[1]) /\ Live(Reconciled(o))
         \/ /\ Reconciled(o) = ev[o]
            /\ o[1] \in rf.missing => ~Live(ev[o])
            /\ o[1] \notin rf.missing => o[1] \notin rf.present /\ ~Disappeared(CollectionOf[o[1]])
<1> DEFINE row == Observed(o)
<1>1. row \in Row
  BY ObservedRow
<1>2. row.misses # 0 => row = ev[o]
  BY ObservedDoes DEF Says
<1>3. Reconciled(o) = IF o[1] \in rf.missing THEN OnMissing(row, o[1])
                      ELSE IF o[1] \in rf.present THEN OnPresent(row, o)
                      ELSE IF Disappeared(CollectionOf[o[1]]) THEN ClearMisses(MarkStale(row))
                      ELSE row
  BY DEF Reconciled
<1> HIDE DEF row
<1>4. CASE o[1] \in rf.missing
  <2>1. Reconciled(o) = OnMissing(row, o[1])
    BY <1>3, <1>4
  <2>2. CASE ~Live(row)
    BY <1>2, <1>4, <2>1, <2>2 DEF OnMissing
  <2>3. CASE Live(row) /\ Contradicted(o[1])
    BY <1>1, <2>1, <2>3, MarksDo DEF OnMissing
  <2>4. CASE Live(row) /\ ~Contradicted(o[1]) /\ row.misses >= 1
    BY <1>1, <2>1, <2>4, MarksDo DEF OnMissing
  <2>5. CASE Live(row) /\ ~Contradicted(o[1]) /\ ~(row.misses >= 1)
    BY <1>1, <1>4, <2>1, <2>5, MarksDo DEF OnMissing, Live
  <2> QED BY <2>2, <2>3, <2>4, <2>5
<1>5. CASE o[1] \notin rf.missing /\ o[1] \in rf.present
  <2>1. Reconciled(o) = ClearMisses(IF o \in SeenNow THEN row ELSE MarkStale(row))
    BY <1>3, <1>5 DEF OnPresent
  <2> QED BY <1>1, <2>1, MarksDo
<1>6. CASE o[1] \notin rf.missing /\ o[1] \notin rf.present /\ Disappeared(CollectionOf[o[1]])
  BY <1>1, <1>3, <1>6, MarksDo
<1>7. CASE o[1] \notin rf.missing /\ o[1] \notin rf.present /\ ~Disappeared(CollectionOf[o[1]])
  BY <1>2, <1>3, <1>7
<1> QED BY <1>4, <1>5, <1>6, <1>7

(* The transaction makes a tombstone of a row with a strike alone, when    *)
(* its resource was reported missing again.                                *)
LEMMA DeathOrigin ==
  ASSUME TypeOK, NEW o \in Occurrences, Live(ev[o]), Reconciled(o).deleted
  PROVE  o[1] \in rf.missing /\ ev[o].misses # 0
<1> DEFINE row == Observed(o)
<1>1. row \in Row /\ Live(row)
  BY ObservedRow, ObservedDoes DEF Says
<1>2. row.misses # 0 => row = ev[o]
  BY ObservedDoes DEF Says
<1>3. Reconciled(o) = IF o[1] \in rf.missing THEN OnMissing(row, o[1])
                      ELSE IF o[1] \in rf.present THEN OnPresent(row, o)
                      ELSE IF Disappeared(CollectionOf[o[1]]) THEN ClearMisses(MarkStale(row))
                      ELSE row
  BY DEF Reconciled
<1> HIDE DEF row
<1>4. ~ClearMisses(row).deleted /\ ~ClearMisses(MarkStale(row)).deleted
  BY <1>1, MarksDo DEF Live
<1>5. o[1] \in rf.missing
  BY <1>1, <1>3, <1>4 DEF OnPresent, Live
<1>6. Reconciled(o) = OnMissing(row, o[1])
  BY <1>3, <1>5
<1>7. row.misses >= 1
  BY <1>1, <1>4, <1>6, MarksDo DEF OnMissing, Live
<1> QED BY <1>2, <1>5, <1>7

(* The end of a complete refresh: a strike it leaves is one it was told    *)
(* of, for an older one would have been verified.                          *)
LEMMA CommitKeeps ==
  ASSUME CalendarAssumption, TypeOK, StrikeInv, CommitRefresh PROVE StrikeInv'
<1>1. /\ rf.pc = "commit" /\ rf' = Idle
      /\ ev' = [o \in Occurrences |-> Reconciled(o)]
      /\ calRow' = [c \in Calendars |-> IF c \in rf.listed THEN "current"
                                         ELSE IF Disappeared(c) THEN "disabled" ELSE calRow[c]]
      /\ told' = {r \in rf.missing : ~Contradicted(r)}
  BY DEF CommitRefresh
<1>2. Idle = [Idle EXCEPT !.pc = Idle.pc, !.since = Idle.since] /\ Idle.pc = "idle"
      /\ Idle.todo = {} /\ Idle.listed = {} /\ Idle.missing = {} /\ Idle.present = {}
  BY DEF Idle
<1>3. ShapeKept' /\ DueVerified'
  BY <1>1, <1>2 DEF ShapeKept, Underway, DueVerified
<1>4. ASSUME NEW o \in Occurrences, ev'[o].misses # 0
      PROVE  Live(ev'[o]) /\ o[1] \in told' /\ calRow'[CollectionOf[o[1]]] # "none"
  <2>0. CollectionOf[o[1]] \in Calendars /\ ev'[o] = Reconciled(o)
    BY <1>1 DEF CalendarAssumption, Occurrences
  <2>1. CASE o[1] \in rf.missing /\ ~Contradicted(o[1]) /\ Live(Reconciled(o))
    <3>1. CollectionOf[o[1]] \in rf.listed
      BY <2>1 DEF StrikeInv, ShapeKept
    <3> QED BY <1>1, <2>0, <2>1, <3>1
  <2>2. CASE /\ Reconciled(o) = ev[o]
             /\ o[1] \in rf.missing => ~Live(ev[o])
             /\ o[1] \notin rf.missing => o[1] \notin rf.present /\ ~Disappeared(CollectionOf[o[1]])
    <3>1. Live(ev[o]) /\ calRow[CollectionOf[o[1]]] # "none" /\ Due(o)
      BY <1>4, <2>0, <2>2 DEF StrikeInv, StrikesTold, Due
    <3>2. o[1] \notin rf.missing \cup rf.present /\ CollectionOf[o[1]] \in rf.listed
      BY <2>2, <3>1 DEF Disappeared
    <3>3. rf.todo = {} /\ ~Asking(o)
      BY <1>1 DEF StrikeInv, ShapeKept, Asking
    <3> QED BY <3>1, <3>2, <3>3 DEF StrikeInv, DueVerified
  <2> QED BY <1>4, <2>0, <2>1, <2>2, StrikeOrigin
<1> QED BY <1>3, <1>4 DEF StrikeInv, StrikesTold, Live

(* A failed refresh forgets the strikes.                                   *)
LEMMA FailureKeeps == ASSUME TypeOK, StrikeInv, RefreshFails PROVE StrikeInv'
<1> DEFINE old(o) == IF FailureStatus = "stale" THEN MarkStale(ev[o]) ELSE ev[o]
<1>1. rf' = Idle /\ ev' = [o \in Occurrences |-> ClearMisses(old(o))]
  BY DEF RefreshFails, RecordFailure
<1>2. \A o \in Occurrences : old(o) \in Row
  BY RowOperators DEF TypeOK
<1> HIDE DEF old
<1>3. \A o \in Occurrences : ev'[o].misses = 0
  BY <1>1, <1>2, MarksDo
<1>4. Idle = [Idle EXCEPT !.pc = Idle.pc, !.since = Idle.since] /\ Idle.pc = "idle"
      /\ Idle.todo = {} /\ Idle.listed = {} /\ Idle.missing = {} /\ Idle.present = {}
  BY DEF Idle
<1>5. ShapeKept' /\ DueVerified'
  BY <1>1, <1>4 DEF ShapeKept, Underway, DueVerified
<1>6. StrikesTold'
  BY <1>3 DEF StrikesTold
<1> QED BY <1>5, <1>6 DEF StrikeInv

(* Every step of a refresh keeps the invariant.                            *)
LEMMA RefreshKeeps ==
  ASSUME CalendarAssumption, VerifiesAll, TypeOK, StrikeInv, RefreshStep PROVE StrikeInv'
  BY StartKeeps, FetchKeeps, AskKeeps, VerifyKeeps, CommitKeeps, FailureKeeps DEF RefreshStep

(* Beside the refresh, other devices and time pass it by.                  *)
LEMMA CacheMoves == ASSUME [Next]_cacheVars PROVE Aside \/ Cut \/ RefreshStep
<1>1. CASE Others
  BY <1>1 DEF Others, OthersWrite, OthersDelete, OthersShare, cacheRows, Aside
<1>2. CASE Crash
  BY <1>2 DEF Crash, serverVars, cacheRows, history, Cut
<1>3. CASE Tick
  BY <1>3 DEF Tick, serverVars, cacheRows, history, Aside
<1>4. CASE UNCHANGED cacheVars
  BY <1>4 DEF cacheVars, Aside
<1> QED BY <1>1, <1>2, <1>3, <1>4 DEF Next

(* At the start nothing is cached and nothing is under way.                *)
LEMMA StrikeStart == ASSUME Init PROVE StrikeInv
<1>1. Idle = [Idle EXCEPT !.pc = Idle.pc, !.since = Idle.since] /\ Idle.pc = "idle"
      /\ Idle.todo = {} /\ Idle.listed = {} /\ Idle.missing = {} /\ Idle.present = {}
  BY DEF Idle
<1>2. ShapeKept /\ DueVerified
  BY <1>1 DEF Init, ShapeKept, Underway, DueVerified
<1>3. StrikesTold
  BY DEF Init, StrikesTold, NoRow
<1> QED BY <1>2, <1>3 DEF StrikeInv

(* An event dies of a second strike alone.                                 *)
LEMMA DeathsNeedTwo ==
  ASSUME TypeOK, StrikeInv, CommitRefresh, NEW o \in Occurrences, Dies(o)
  PROVE  o[1] \in told /\ o[1] \in rf.missing
<1>1. Live(ev[o]) /\ Reconciled(o).deleted
  BY DEF CommitRefresh, Dies
<1> QED BY <1>1, DeathOrigin DEF StrikeInv, StrikesTold

(* A refresh makes a tombstone only of an event whose resource it and the  *)
(* complete refresh that ended before it were both told is missing         *)
(* (_mark_missing_resources): one wrong answer, or two with a failed       *)
(* refresh or a sighting between them, never make an event disappear.      *)
THEOREM TombstonesTakeTwoMisses == VerifiesAll => (Spec => TombstoneNeedsTwoMisses)
<1> DEFINE Inv == TypeOK /\ StrikeInv
<1> SUFFICES ASSUME VerifiesAll PROVE Spec => TombstoneNeedsTwoMisses
  OBVIOUS
<1>1. Init => Inv
  BY InitType, StrikeStart, CalendarAssumption
<1>2. Inv /\ [Next]_cacheVars => Inv'
  BY CacheTypeStep, CacheMoves, RefreshKeeps, AsideKeeps, CalendarAssumption
<1>3. Inv /\ [Next]_cacheVars =>
        [CommitRefresh =>
           \A o \in Occurrences : Dies(o) => o[1] \in told /\ o[1] \in rf.missing]_cacheVars
  BY DeathsNeedTwo
<1> HIDE DEF Inv
<1> QED BY <1>1, <1>2, <1>3, PTL DEF Spec, TombstoneNeedsTwoMisses

(* What the final transaction of a write makes of rows and calendars: it   *)
(* gives no row a strike and forgets no calendar.                          *)
LEMMA ReconcileDoes ==
  ASSUME TypeOK, NEW h \in Handlers, Reconcile(h)
  PROVE  /\ \A o \in Occurrences : ev'[o] = ev[o] \/ ev'[o].misses = 0
         /\ \A c \in Calendars : calRow[c] # "none" => calRow'[c] # "none"
<1>0. /\ ev \in [Occurrences -> Row]
      /\ calRow \in [Calendars -> {"none", "current", "stale", "disabled"}]
  BY DEF TypeOK
<1>1. ASSUME NEW x, ReconcileEvent(x), NEW o \in Occurrences PROVE ev'[o] = ev[o] \/ ev'[o].misses = 0
  <2>1. ev'[o] = ev[o] \/ ev'[o] = Upsert(ev[x.o], x)
    BY <1>0, <1>1 DEF ReconcileEvent
  <2>2. Upsert(ev[x.o], x).misses = 0
    BY UpsertDoes
  <2> QED BY <2>1, <2>2
<1>2. ASSUME NEW p, ReconcileDeletedEvent(p), NEW o \in Occurrences
      PROVE  ev'[o] = ev[o] \/ ev'[o].misses = 0
  <2>1. ev'[o] \in {ev[o], ClearMisses(ev[o]), Tombstone(ev[o])}
    BY <1>0, <1>2 DEF ReconcileDeletedEvent
  <2>2. ClearMisses(ev[o]).misses = 0 /\ Tombstone(ev[o]).misses = 0
    BY <1>0, MarksDo
  <2> QED BY <2>1, <2>2
<1>3. ASSUME NEW c \in Calendars, NEW d, ReconcileCreatedCalendar(d) \/ ReconcileDeletedCalendar(d),
             calRow[c] # "none"
      PROVE  calRow'[c] # "none"
  BY <1>0, <1>3 DEF ReconcileCreatedCalendar, ReconcileDeletedCalendar
<1>4. CASE \E x : ReconcileEvent(x)
  BY <1>1, <1>4 DEF ReconcileEvent
<1>5. CASE \E p : ReconcileDeletedEvent(p)
  BY <1>2, <1>5 DEF ReconcileDeletedEvent
<1>6. CASE \E d : ReconcileCreatedCalendar(d) \/ ReconcileDeletedCalendar(d)
  BY <1>3, <1>6 DEF ReconcileCreatedCalendar, ReconcileDeletedCalendar
<1> QED BY <1>4, <1>5, <1>6 DEF Reconcile

(* The writes of the bot pass a refresh by, too.                           *)
LEMMA MutationMoves ==
  ASSUME MutationTypeInv, [MutationNext]_vars PROVE Aside \/ Cut \/ RefreshStep
<1>0. TypeOK
  BY DEF MutationTypeInv, MutationTypeOK
<1>1. CASE UNCHANGED <<collections, server, calRow, ev, rf, told, calm>>
  BY <1>1 DEF Aside
<1>2. CASE \E w : Apply(w)
  BY <1>2 DEF Apply, cacheRows, Aside
<1>3. CASE UNCHANGED vars
  BY <1>1, <1>3 DEF vars, cacheVars
<1>4. CASE CacheStep
  BY <1>4, CacheMoves DEF CacheStep, Next
<1>5. CASE \E h \in Handlers, k \in Keys : \E req \in Requests : Send(h, k, req)
  BY <1>1, <1>5 DEF Send, cacheVars
<1>6. CASE \E h \in Handlers : HandlerStep(h)
  <2>1. PICK h \in Handlers : HandlerStep(h)
    BY <1>6
  <2>2. CASE Admit(h) \/ Claim(h)
    BY <1>1, <2>2 DEF Admit, Claim, AnswerFromKey, cacheVars
  <2>3. CASE Prepare(h) \/ CheckCurrent(h)
    BY <1>1, <2>3 DEF Prepare, CheckCurrent, CallFails, Stop, Goto, cacheVars, serverVars, cacheRows, history
  <2>4. CASE Write(h)
    BY <1>1, <1>2, <2>4 DEF Write, CallFails, Stop, cacheVars, serverVars, cacheRows, history
  <2>5. CASE Readback(h)
    BY <1>1, <2>5 DEF Readback, ReadEvent, ReadPresence, Found, CallFails, Stop, cacheVars, serverVars,
                      cacheRows, history
  <2>6. CASE Finish(h)
    <3>1. CASE Reconcile(h) /\ calm' = FALSE /\ UNCHANGED <<rf, told>>
      BY <1>0, <3>1, ReconcileDoes DEF Aside
    <3>2. CASE CallFails(h, "uncertain") \/ Stop(h, "uncertain")
      BY <1>1, <3>2 DEF CallFails, Stop, cacheVars, serverVars, cacheRows, history
    <3> QED BY <2>6, <3>1, <3>2 DEF Finish
  <2> QED BY <2>1, <2>2, <2>3, <2>4, <2>5, <2>6 DEF HandlerStep
<1>7. CASE \E w \in flight : Arrive(w)
  BY <1>1, <1>2, <1>7 DEF Arrive
<1>8. CASE Restart
  BY <1>8 DEF Restart, serverVars, cacheRows, history, Cut
<1> QED BY <1>3, <1>4, <1>5, <1>6, <1>7, <1>8 DEF MutationNext

(* Types and strikes of the whole system.                                  *)
CopyInv == MutationTypeInv /\ StrikeInv
LEMMA CopyStep ==
  ASSUME VerifiesAll, CopyInv, [MutationNext]_vars PROVE CopyInv'
<1>1. MutationTypeInv'
  BY MutationTypeStep, CalendarAssumption DEF CopyInv
<1>2. StrikeInv'
  BY MutationMoves, RefreshKeeps, AsideKeeps, CalendarAssumption
     DEF CopyInv, MutationTypeInv, MutationTypeOK
<1> QED BY <1>1, <1>2 DEF CopyInv

(* The same next to the writes of the bot, whose final transactions may    *)
(* come between the answers of a refresh and its commit.                   *)
THEOREM TombstonesTakeTwoMissesNextToWrites ==
  VerifiesAll => (MutationSpec => TombstoneNeedsTwoMisses)
<1> SUFFICES ASSUME VerifiesAll PROVE MutationSpec => TombstoneNeedsTwoMisses
  OBVIOUS
<1>1. MutationInit => CopyInv
  BY MutationTypeInit, StrikeStart, CalendarAssumption DEF CopyInv, MutationInit
<1>2. CopyInv /\ [MutationNext]_vars => CopyInv'
  BY CopyStep
<1>3. CopyInv /\ [MutationNext]_vars =>
        [CommitRefresh =>
           \A o \in Occurrences : Dies(o) => o[1] \in told /\ o[1] \in rf.missing]_cacheVars
  BY DeathsNeedTwo DEF CopyInv, MutationTypeInv, MutationTypeOK
<1> QED BY <1>1, <1>2, <1>3, PTL DEF MutationSpec, TombstoneNeedsTwoMisses

-----------------------------------------------------------------------------
(* A quiet refresh.  While nothing changes, what the refresh has collected *)
(* is what the server shows; and a live event has a calendar that the copy *)
(* knows, so that the refresh either verifies the event or disables it.    *)
SeenListed ==
  \A x \in rf.fetched \cup rf.verified : CollectionOf[x.o[1]] \in rf.listed
CalmKept ==
  calm /\ Underway =>
     /\ rf.listed = collections
     /\ \A x \in rf.fetched \cup rf.verified : Shown(x.o) /\ x.content = server[x.o[1]].content
     /\ \A o \in Occurrences :
          Shown(o) /\ CollectionOf[o[1]] \notin rf.todo => \E x \in rf.fetched : x.o = o
     /\ \A r \in rf.missing : ~server[r].there
SeenInv == SeenListed /\ CalmKept

(* Beside the refresh: what changes the server ends the calm.              *)
LEMMA SeenBeside == ASSUME SeenInv, Aside \/ Cut PROVE SeenInv'
<1>1. CASE Aside
  BY <1>1 DEF Aside, SeenInv, SeenListed, CalmKept, Underway, Shown, Reachable, OccurrenceOf
<1>2. CASE Cut
  <2>1. Idle.fetched = {} /\ Idle.verified = {} /\ Idle.pc = "idle"
    BY DEF Idle
  <2> QED BY <1>2, <2>1 DEF Cut, SeenInv, SeenListed, CalmKept, Underway
<1> QED BY <1>1, <1>2

(* An observation is of an event that is shown, with its content.          *)
LEMMA ReportShown ==
  ASSUME NEW r, NEW tagged, NEW x \in Report(r, tagged)
  PROVE  x.o = OccurrenceOf(r) /\ Shown(x.o) /\ x.content = server[r].content /\ x.o[1] = r
<1> DEFINE plain == tagged /\ server[r].kind = "simple"
<1> DEFINE Obs(o) == [o |-> o, content |-> server[r].content, safe |-> plain,
                      etag |-> IF plain THEN server[r].etag ELSE 0]
<1>1. Report(r, tagged) = {Obs(o) : o \in {y \in {OccurrenceOf(r)} : Shown(y)}}
  BY DEF Report
<1>2. PICK o \in {y \in {OccurrenceOf(r)} : Shown(y)} : x = Obs(o)
  BY <1>1
<1>3. x.o = o /\ x.content = server[r].content
  BY <1>2
<1>4. o = OccurrenceOf(r) /\ Shown(o)
  BY <1>2
<1>5. OccurrenceOf(r)[1] = r
  BY DEF OccurrenceOf
<1> QED BY <1>3, <1>4, <1>5

(* And of every shown event there is one.                                  *)
LEMMA ShownReported ==
  ASSUME NEW o, Shown(o), NEW tagged PROVE \E x \in Report(o[1], tagged) : x.o = o
<1> DEFINE plain == tagged /\ server[o[1]].kind = "simple"
<1> DEFINE Obs(p) == [o |-> p, content |-> server[o[1]].content, safe |-> plain,
                      etag |-> IF plain THEN server[o[1]].etag ELSE 0]
<1>1. Report(o[1], tagged) = {Obs(p) : p \in {y \in {OccurrenceOf(o[1])} : Shown(y)}}
  BY DEF Report
<1>2. o \in {y \in {OccurrenceOf(o[1])} : Shown(y)}
  BY DEF Shown
<1>3. Obs(o) \in Report(o[1], tagged) /\ Obs(o).o = o
  BY <1>1, <1>2
<1> QED BY <1>3

LEMMA SeenStart ==
  ASSUME TypeOK, StrikeInv, SeenInv, BeginRefresh \/ ListCalendars PROVE SeenInv'
<1>1. CASE BeginRefresh
  <2>1. rf' = [Idle EXCEPT !.pc = "list", !.since = clock]
    BY <1>1 DEF BeginRefresh
  <2>2. rf'.pc = "list" /\ rf'.fetched = {} /\ rf'.verified = {}
    BY <2>1 DEF Idle
  <2> QED BY <2>2 DEF SeenInv, SeenListed, CalmKept, Underway
<1>2. CASE ListCalendars
  <2>1. /\ rf'.listed = collections /\ rf'.todo = collections
        /\ rf'.missing = {} /\ rf'.fetched = {} /\ rf'.verified = {}
    BY <1>2 DEF ListCalendars, StrikeInv, ShapeKept, Underway, Idle, TypeOK, RefreshState
  <2>2. UNCHANGED <<collections, server>>
    BY <1>2 DEF ListCalendars, serverVars
  <2> QED BY <2>1, <2>2 DEF SeenInv, SeenListed, CalmKept, Shown, Reachable, OccurrenceOf
<1> QED BY <1>1, <1>2

LEMMA SeenFetch ==
  ASSUME CalendarAssumption, TypeOK, StrikeInv, SeenInv, NEW c \in Calendars, FetchEvents(c)
  PROVE  SeenInv'
<1>0. rf \in RefreshState
  BY DEF TypeOK
<1> DEFINE reports == UNION {Report(r, TRUE) : r \in {q \in Resources : CollectionOf[q] = c}}
<1>1. rf' = [rf EXCEPT !.cal = c, !.todo = rf.todo \ {c}, !.pc = "ask",
                       !.fetched = rf.fetched \cup reports]
      /\ rf.pc = "fetch" /\ c \in rf.todo
  BY DEF FetchEvents
<1>2. \A x \in reports : /\ CollectionOf[x.o[1]] = c /\ Shown(x.o)
                         /\ x.content = server[x.o[1]].content
  <2> TAKE x \in reports
  <2>1. PICK r \in Resources : CollectionOf[r] = c /\ x \in Report(r, TRUE)
    OBVIOUS
  <2>2. Shown(x.o) /\ x.content = server[r].content /\ x.o[1] = r
    BY <2>1, ReportShown, Zenon
  <2> QED BY <2>1, <2>2
<1>3. \A o \in Occurrences : Shown(o) /\ CollectionOf[o[1]] = c => \E x \in reports : x.o = o
  <2> TAKE o \in Occurrences
  <2> HAVE Shown(o) /\ CollectionOf[o[1]] = c
  <2>1. PICK x \in Report(o[1], TRUE) : x.o = o
    BY ShownReported
  <2>2. o[1] \in {q \in Resources : CollectionOf[q] = c}
    BY DEF Occurrences
  <2> QED BY <2>1, <2>2
<1> HIDE DEF reports
<1>4. /\ rf'.fetched = rf.fetched \cup reports /\ rf'.verified = rf.verified
      /\ rf'.listed = rf.listed /\ rf'.todo = rf.todo \ {c} /\ rf'.missing = rf.missing
  BY <1>0, <1>1 DEF RefreshState
<1>5. UNCHANGED <<collections, server, calm>>
  BY DEF FetchEvents, serverVars, history
<1>6. SeenListed'
  BY <1>1, <1>2, <1>4 DEF SeenInv, SeenListed, StrikeInv, ShapeKept
<1>7. CalmKept'
  <2> SUFFICES ASSUME calm
               PROVE  /\ rf'.listed = collections
                      /\ \A x \in rf'.fetched \cup rf'.verified :
                           Shown(x.o) /\ x.content = server[x.o[1]].content
                      /\ \A o \in Occurrences :
                           Shown(o) /\ CollectionOf[o[1]] \notin rf'.todo
                             => \E x \in rf'.fetched : x.o = o
                      /\ \A r \in rf'.missing : ~server[r].there
    BY <1>5 DEF CalmKept, Shown, Reachable, OccurrenceOf
  <2>1. Underway
    BY <1>1 DEF Underway
  <2> QED BY <1>2, <1>3, <1>4, <2>1 DEF SeenInv, CalmKept
<1> QED BY <1>6, <1>7 DEF SeenInv

LEMMA SeenAsk == ASSUME TypeOK, SeenInv, AskResources PROVE SeenInv'
<1>1. /\ rf'.fetched = rf.fetched /\ rf'.verified = rf.verified /\ rf'.missing = rf.missing
      /\ rf'.listed = rf.listed /\ rf'.todo = rf.todo
  BY DEF AskResources, TypeOK, RefreshState
<1>2. UNCHANGED <<collections, server, calm>> /\ Underway
  BY DEF AskResources, serverVars, history, Underway
<1> QED BY <1>1, <1>2 DEF SeenInv, SeenListed, CalmKept, Shown, Reachable, OccurrenceOf

LEMMA SeenVerify ==
  ASSUME TypeOK, StrikeInv, SeenInv, NEW wrong \in SUBSET rf.asked, VerifyResources(wrong)
  PROVE  SeenInv'
<1>0. rf \in RefreshState
  BY DEF TypeOK
<1> DEFINE missing == wrong \cup {r \in rf.asked : ~server[r].there}
           present == rf.asked \ missing
           reports == UNION {Report(r, FALSE) : r \in present}
<1>1. rf' = [rf EXCEPT !.pc = AfterCalendar, !.missing = rf.missing \cup missing,
                       !.present = rf.present \cup present,
                       !.verified = rf.verified \cup reports]
      /\ rf.pc = "verify"
  BY DEF VerifyResources
<1>2. \A x \in reports : /\ x.o[1] \in rf.asked /\ Shown(x.o)
                         /\ x.content = server[x.o[1]].content
  <2> TAKE x \in reports
  <2>1. PICK r \in rf.asked : x \in Report(r, FALSE)
    OBVIOUS
  <2>2. Shown(x.o) /\ x.content = server[r].content /\ x.o[1] = r
    BY <2>1, ReportShown, Zenon
  <2> QED BY <2>1, <2>2
<1>3. wrong = {} => \A r \in missing : ~server[r].there
  OBVIOUS
<1> HIDE DEF missing, present, reports
<1>4. /\ rf'.fetched = rf.fetched /\ rf'.verified = rf.verified \cup reports
      /\ rf'.listed = rf.listed /\ rf'.todo = rf.todo /\ rf'.missing = rf.missing \cup missing
  BY <1>0, <1>1 DEF RefreshState
<1>5. UNCHANGED <<collections, server>> /\ calm' = (calm /\ wrong = {})
  BY DEF VerifyResources, serverVars
<1>6. SeenListed'
  BY <1>1, <1>2, <1>4 DEF SeenInv, SeenListed, StrikeInv, ShapeKept
<1>7. CalmKept'
  <2> SUFFICES ASSUME calm, wrong = {}
               PROVE  /\ rf'.listed = collections
                      /\ \A x \in rf'.fetched \cup rf'.verified :
                           Shown(x.o) /\ x.content = server[x.o[1]].content
                      /\ \A o \in Occurrences :
                           Shown(o) /\ CollectionOf[o[1]] \notin rf'.todo
                             => \E x \in rf'.fetched : x.o = o
                      /\ \A r \in rf'.missing : ~server[r].there
    BY <1>5 DEF CalmKept, Shown, Reachable, OccurrenceOf
  <2>1. Underway
    BY <1>1 DEF Underway
  <2> QED BY <1>2, <1>3, <1>4, <2>1 DEF SeenInv, CalmKept
<1> QED BY <1>6, <1>7 DEF SeenInv

(* Every step of a refresh keeps it; the end of one leaves nothing seen.   *)
LEMMA SeenStep ==
  ASSUME CalendarAssumption, TypeOK, StrikeInv, SeenInv, RefreshStep PROVE SeenInv'
<1>1. CASE CommitRefresh \/ RefreshFails
  <2>1. Idle.fetched = {} /\ Idle.verified = {} /\ Idle.pc = "idle"
    BY DEF Idle
  <2> QED BY <1>1, <2>1 DEF CommitRefresh, RefreshFails, RecordFailure, SeenInv, SeenListed,
                            CalmKept, Underway
<1> QED BY <1>1, SeenStart, SeenFetch, SeenAsk, SeenVerify DEF RefreshStep

(* Every live event is in a calendar that the copy knows.  For the events  *)
(* that a write stores, that is so from the preflight of the request on.   *)
Housed == \A o \in Occurrences : Live(ev[o]) => calRow[CollectionOf[o[1]]] # "none"
Stores(h) == hs[h].req.op \in {"create", "update"}
Addressed(h) ==
  Stores(h) =>
    /\ hs[h].pc # "idle" => CalendarOf(hs[h].req) \in Calendars
    /\ hs[h].pc \notin {"idle", "admit"} => calRow[CalendarOf(hs[h].req)] # "none"
    /\ hs[h].pc = "readback" => CollectionOf[hs[h].r] = CalendarOf(hs[h].req)
    /\ hs[h].pc = "finish" => \A x \in hs[h].got : CollectionOf[x.o[1]] = CalendarOf(hs[h].req)

QuietInv == CopyInv /\ SeenInv /\ Housed /\ \A h \in Handlers : Addressed(h)

(* No step forgets a calendar.                                             *)
LEMMA CalendarsStay ==
  ASSUME MutationTypeInv, [MutationNext]_vars, NEW c \in Calendars, calRow[c] # "none"
  PROVE  calRow'[c] # "none"
<1>0. calRow \in [Calendars -> {"none", "current", "stale", "disabled"}]
  BY DEF MutationTypeInv, MutationTypeOK, TypeOK
<1>1. CASE Aside \/ Cut
  BY <1>1 DEF Aside, Cut
<1>2. CASE RefreshStep
  <2>1. CASE CommitRefresh
    BY <2>1 DEF CommitRefresh
  <2>2. CASE RefreshFails
    <3>1. calRow'[c] \in {FailureStatus, calRow[c]}
      BY <2>2 DEF RefreshFails, RecordFailure
    <3>2. FailureStatus # "none"
      BY DEF FailureStatus
    <3> QED BY <3>1, <3>2
  <2>3. CASE UNCHANGED calRow
    BY <2>3
  <2> QED BY <1>2, <2>1, <2>2, <2>3
          DEF RefreshStep, BeginRefresh, ListCalendars, FetchEvents, AskResources,
              VerifyResources, cacheRows
<1> QED BY <1>1, <1>2, MutationMoves

(* A handler goes on with its request, or gives it up.                     *)
LEMMA AddressStays ==
  ASSUME QuietInv, [MutationNext]_vars, NEW h \in Handlers,
         \/ hs'[h] = hs[h]
         \/ hs'[h].pc = "idle"
         \/ /\ hs'[h].req = hs[h].req /\ hs[h].pc \notin {"idle", "admit"}
            /\ hs'[h].pc \in {"prepare", "check", "write"}
  PROVE  Addressed(h)'
<1>1. Addressed(h) /\ MutationTypeInv
  BY DEF QuietInv, CopyInv
<1>2. \A c \in Calendars : calRow[c] # "none" => calRow'[c] # "none"
  BY <1>1, CalendarsStay
<1>3. CASE hs'[h].pc = "idle"
  BY <1>3 DEF Addressed
<1>4. CASE hs'[h] = hs[h]
  BY <1>1, <1>2, <1>4 DEF Addressed, Stores, CalendarOf, OnEvent
<1>5. CASE /\ hs'[h].req = hs[h].req /\ hs[h].pc \notin {"idle", "admit"}
           /\ hs'[h].pc \in {"prepare", "check", "write"}
  BY <1>1, <1>2, <1>5 DEF Addressed, Stores, CalendarOf, OnEvent
<1> QED BY <1>3, <1>4, <1>5

LEMMA SendAddressed ==
  ASSUME QuietInv, NEW h \in Handlers, NEW k \in Keys, NEW req \in Requests, Send(h, k, req)
  PROVE  Addressed(h)'
<1>1. hs'[h] = HandlerAt("admit", k, req)
  BY DEF Send, QuietInv, CopyInv, MutationTypeInv, MutationTypeOK
<1>2. hs'[h].pc = "admit" /\ hs'[h].req = req
  BY <1>1 DEF HandlerAt
<1>3. req.op \in {"create", "update"} => CalendarOf(req) \in Calendars
  <2>1. CASE \E c \in Calendars, x \in Contents : req = NewRequest("create", c, x)
    BY <2>1 DEF NewRequest, CalendarOf, OnEvent
  <2>2. CASE \E o \in LiveEvents, x \in Contents : req = EventRequest("update", o, x)
    BY <2>2, CalendarAssumption DEF EventRequest, CalendarOf, OnEvent, LiveEvents, Occurrences,
                                    CalendarAssumption
  <2>3. req.op \in {"create", "update"} =>
          \/ \E c \in Calendars, x \in Contents : req = NewRequest("create", c, x)
          \/ \E o \in LiveEvents, x \in Contents : req = EventRequest("update", o, x)
    BY DEF Requests, NewRequest, EventRequest
  <2> QED BY <2>1, <2>2, <2>3
<1> QED BY <1>2, <1>3 DEF Addressed, Stores, CalendarOf, OnEvent

(* The preflight finds the calendar of the request in the copy.            *)
LEMMA AdmitAddressed ==
  ASSUME QuietInv, [MutationNext]_vars, NEW h \in Handlers, Admit(h) PROVE Addressed(h)'
<1>0. /\ hs \in [Handlers -> HandlerState] /\ hs[h] \in HandlerState /\ hs[h].pc = "admit"
      /\ GoodRequest(hs[h].req) /\ Addressed(h)
  BY DEF Admit, QuietInv, CopyInv, MutationTypeInv, MutationTypeOK, HandlerShape
<1>1. CASE hs'[h] = Quiet
  BY <1>1, AddressStays DEF Quiet, HandlerAt
<1>2. CASE hs'[h] # Quiet
  <2> DEFINE etag == IF OnEvent(hs[h].req) THEN ev[hs[h].req.o].etag ELSE 0
             rec == [hs[h] EXCEPT !.pc = "claim", !.etag = etag]
  <2>1. Acceptable(hs[h].req) /\ hs'[h] = rec /\ UNCHANGED cacheVars
    BY <1>0, <1>2 DEF Admit, AnswerFromKey
  <2> HIDE DEF etag
  <2>2. rec.pc = "claim" /\ rec.req = hs[h].req
    BY <1>0 DEF HandlerState
  <2> HIDE DEF rec
  <2>3. ASSUME Stores(h) PROVE Enabled(calRow[CalendarOf(hs[h].req)])
    <3>1. CASE hs[h].req.op = "update"
      <4>1. OnEvent(hs[h].req)
        BY <3>1 DEF OnEvent
      <4>2. Writable(hs[h].req)
        BY <2>1, <4>1, Zenon DEF Acceptable, OnEvent
      <4> QED BY <4>1, <4>2 DEF Writable, Destination, CalendarOf
    <3>2. CASE hs[h].req.op = "create"
      <4>1. ~OnEvent(hs[h].req)
        BY <3>2 DEF OnEvent
      <4>2. Destination(hs[h].req.c)
        BY <2>1, <3>2, <4>1 DEF Acceptable
      <4> QED BY <4>1, <4>2 DEF Destination, CalendarOf
    <3> QED BY <2>3, <3>1, <3>2 DEF Stores
  <2>4. calRow' = calRow
    BY <2>1 DEF cacheVars
  <2> QED BY <1>0, <2>1, <2>2, <2>3, <2>4 DEF Addressed, Stores, Enabled, CalendarOf, OnEvent
<1> QED BY <1>1, <1>2

(* The write that took effect is in the calendar of the request.           *)
LEMMA WriteAddressed ==
  ASSUME QuietInv, [MutationNext]_vars, NEW h \in Handlers, Write(h) PROVE Addressed(h)'
<1>0. /\ hs \in [Handlers -> HandlerState] /\ hs[h] \in HandlerState /\ hs[h].pc = "write"
      /\ Addressed(h) /\ MutationTypeInv
  BY DEF Write, QuietInv, CopyInv, MutationTypeInv, MutationTypeOK
<1>1. CASE \E answer : Store(h, answer)
  <2>1. hs'[h] = Quiet
    BY <1>0, <1>1 DEF Store
  <2> QED BY <2>1, AddressStays DEF Quiet, HandlerAt
<1>2. ASSUME NEW target \in Targets(h),
             hs' = [hs EXCEPT ![h].pc = "readback", ![h].r = target.r, ![h].c = target.c]
      PROVE  Addressed(h)'
  <2> DEFINE rec == [hs[h] EXCEPT !.pc = "readback", !.r = target.r, !.c = target.c]
  <2>1. hs'[h] = rec
    BY <1>0, <1>2
  <2>2. rec.req = hs[h].req /\ rec.pc = "readback" /\ rec.r = target.r
    BY <1>0 DEF HandlerState
  <2> HIDE DEF rec
  <2>3. ASSUME Stores(h) PROVE CollectionOf[target.r] = CalendarOf(hs[h].req)
    <3>1. CASE hs[h].req.op = "update"
      <4>1. OnEvent(hs[h].req)
        BY <3>1 DEF OnEvent
      <4>2. target.r = hs[h].req.o[1]
        BY <4>1 DEF Targets, OnEvent
      <4> QED BY <4>1, <4>2 DEF CalendarOf
    <3>2. CASE hs[h].req.op = "create"
      <4>1. ~OnEvent(hs[h].req)
        BY <3>2 DEF OnEvent
      <4>2. target.r \in FreshResources(hs[h].req.c)
        BY <3>2, <4>1 DEF Targets
      <4> QED BY <4>1, <4>2 DEF FreshResources, CalendarOf
    <3> QED BY <2>3, <3>1, <3>2 DEF Stores
  <2>4. \A c \in Calendars : calRow[c] # "none" => calRow'[c] # "none"
    BY <1>0, CalendarsStay
  <2> QED BY <1>0, <2>1, <2>2, <2>3, <2>4 DEF Addressed, Stores, CalendarOf, OnEvent
<1>3. \/ \E answer : Store(h, answer)
      \/ \E target \in Targets(h) :
           hs' = [hs EXCEPT ![h].pc = "readback", ![h].r = target.r, ![h].c = target.c]
  BY DEF Write, CallFails, Stop
<1> QED BY <1>1, <1>2, <1>3

(* What the readback hands on is of the resource that was written.         *)
LEMMA ReadbackAddressed ==
  ASSUME QuietInv, [MutationNext]_vars, NEW h \in Handlers, Readback(h) PROVE Addressed(h)'
<1>0. /\ hs \in [Handlers -> HandlerState] /\ hs[h] \in HandlerState /\ hs[h].pc = "readback"
      /\ Addressed(h) /\ MutationTypeInv
  BY DEF Readback, QuietInv, CopyInv, MutationTypeInv, MutationTypeOK
<1>1. CASE \E answer : Store(h, answer)
  <2>1. hs'[h] = Quiet
    BY <1>0, <1>1 DEF Store
  <2> QED BY <2>1, AddressStays DEF Quiet, HandlerAt
<1>2. ASSUME NEW got, Found(h, got), Stores(h) => \A x \in got : x.o[1] = hs[h].r
      PROVE  Addressed(h)'
  <2> DEFINE rec == [hs[h] EXCEPT !.pc = "finish", !.got = got]
  <2>1. hs'[h] = rec
    BY <1>0, <1>2 DEF Found
  <2>2. rec.pc = "finish" /\ rec.got = got /\ rec.req = hs[h].req
    BY <1>0 DEF HandlerState
  <2> HIDE DEF rec
  <2>3. \A c \in Calendars : calRow[c] # "none" => calRow'[c] # "none"
    BY <1>0, CalendarsStay
  <2> QED BY <1>0, <1>2, <2>1, <2>2, <2>3 DEF Addressed, Stores, CalendarOf, OnEvent
<1>3. CASE Stores(h)
  <2> DEFINE r == hs[h].r
             x == [o |-> OccurrenceOf(r), content |-> server[r].content,
                   etag |-> server[r].etag, safe |-> server[r].kind = "simple"]
  <2>1. x.o[1] = r
    BY DEF OccurrenceOf
  <2>2. (\E answer : Store(h, answer)) \/ Found(h, {x})
    BY <1>3 DEF Readback, ReadEvent, CallFails, Stop, Stores
  <2> HIDE DEF x
  <2> QED BY <1>1, <1>2, <2>1, <2>2
<1>4. CASE ~Stores(h)
  <2>1. (\E answer : Store(h, answer)) \/ Found(h, {})
    BY <1>4 DEF Readback, ReadPresence, CallFails, Stop, Stores
  <2> QED BY <1>1, <1>2, <2>1
<1> QED BY <1>3, <1>4

(* The claim and the checks leave the request alone, the last step ends it.*)
LEMMA ChecksAddressed ==
  ASSUME QuietInv, [MutationNext]_vars, NEW h \in Handlers,
         Claim(h) \/ Prepare(h) \/ CheckCurrent(h) \/ Finish(h)
  PROVE  Addressed(h)'
<1>0. hs \in [Handlers -> HandlerState] /\ hs[h] \in HandlerState
  BY DEF QuietInv, CopyInv, MutationTypeInv, MutationTypeOK
<1>1. CASE hs'[h] = Quiet
  BY <1>1, AddressStays DEF Quiet, HandlerAt
<1>2. ASSUME NEW pc \in {"check", "write"}, Goto(h, pc), hs[h].pc \notin {"idle", "admit"}
      PROVE  Addressed(h)'
  <2> DEFINE rec == [hs[h] EXCEPT !.pc = pc]
  <2>1. hs'[h] = rec
    BY <1>0, <1>2 DEF Goto
  <2>2. rec.req = hs[h].req /\ rec.pc = pc
    BY <1>0 DEF HandlerState
  <2> HIDE DEF rec
  <2> QED BY <1>2, <2>1, <2>2, AddressStays
<1>3. CASE Claim(h) /\ hs'[h] # Quiet
  <2> DEFINE primed == IF OnEvent(hs[h].req) THEN [etag |-> ev[hs[h].req.o].etag,
                                                   safe |-> ev[hs[h].req.o].safe]
                       ELSE NoPrimed
             rec == [hs[h] EXCEPT !.pc = "prepare", !.primed = primed]
  <2>1. hs'[h] = rec /\ hs[h].pc = "claim"
    BY <1>0, <1>3 DEF Claim, AnswerFromKey
  <2> HIDE DEF primed
  <2>2. rec.req = hs[h].req /\ rec.pc = "prepare"
    BY <1>0 DEF HandlerState
  <2> HIDE DEF rec
  <2> QED BY <2>1, <2>2, AddressStays
<1>4. \A answer : Store(h, answer) => hs'[h] = Quiet
  BY <1>0 DEF Store
<1>5. CASE Prepare(h)
  <2>1. hs[h].pc = "prepare"
    BY <1>5 DEF Prepare
  <2>2. (\E answer : Store(h, answer)) \/ Goto(h, "check") \/ Goto(h, "write")
    BY <1>5 DEF Prepare, CallFails, Stop
  <2> QED BY <1>1, <1>2, <1>4, <2>1, <2>2
<1>6. CASE CheckCurrent(h)
  <2>1. hs[h].pc = "check"
    BY <1>6 DEF CheckCurrent
  <2>2. (\E answer : Store(h, answer)) \/ Goto(h, "write")
    BY <1>6 DEF CheckCurrent, CallFails, Stop
  <2> QED BY <1>1, <1>2, <1>4, <2>1, <2>2
<1>7. CASE Finish(h)
  <2>1. \E answer : Store(h, answer)
    BY <1>7 DEF Finish, CallFails, Stop
  <2> QED BY <1>1, <1>4, <2>1
<1> QED BY <1>1, <1>3, <1>5, <1>6, <1>7

LEMMA HandlersAddressed ==
  ASSUME QuietInv, [MutationNext]_vars, NEW g \in Handlers PROVE Addressed(g)'
<1>0. hs \in [Handlers -> HandlerState] /\ MutationTypeInv
  BY DEF QuietInv, CopyInv, MutationTypeInv, MutationTypeOK
<1>1. CASE hs'[g] = hs[g]
  BY <1>1, AddressStays
<1>2. CASE UNCHANGED vars \/ CacheStep
  BY <1>1, <1>2 DEF vars, mutationVars, CacheStep
<1>3. CASE \E h \in Handlers, k \in Keys : \E req \in Requests : Send(h, k, req)
  <2>1. PICK h \in Handlers, k \in Keys : \E req \in Requests : Send(h, k, req)
    BY <1>3
  <2>2. CASE g = h
    BY <2>1, <2>2, SendAddressed
  <2>3. CASE g # h
    BY <1>0, <1>1, <2>1, <2>3 DEF Send
  <2> QED BY <2>2, <2>3
<1>4. CASE \E h \in Handlers : HandlerStep(h)
  <2>1. PICK h \in Handlers : HandlerStep(h)
    BY <1>4
  <2>2. CASE g = h
    BY <2>1, <2>2, AdmitAddressed, ChecksAddressed, WriteAddressed, ReadbackAddressed
       DEF HandlerStep
  <2>3. CASE g # h
    <3>1. \E rec : hs' = [hs EXCEPT ![h] = rec]
      BY <1>0, <2>1, OnlyOneMoves
    <3> QED BY <1>0, <1>1, <2>3, <3>1
  <2> QED BY <2>2, <2>3
<1>5. CASE \E w \in flight : Arrive(w)
  BY <1>1, <1>5 DEF Arrive
<1>6. CASE Restart
  <2>1. hs'[g] = Quiet
    BY <1>6 DEF Restart
  <2> QED BY <2>1, AddressStays DEF Quiet, HandlerAt
<1> QED BY <1>2, <1>3, <1>4, <1>5, <1>6 DEF MutationNext

(* The transaction brings no event back that the refresh has not seen.     *)
LEMMA LifeOrigin ==
  ASSUME TypeOK, NEW o \in Occurrences, Live(Reconciled(o))
  PROVE  Live(ev[o]) \/ \E x \in rf.fetched \cup rf.verified : x.o = o
<1> DEFINE row == Observed(o)
<1>1. row \in Row
  BY ObservedRow
<1>2. row = ev[o] \/ \E x \in rf.fetched \cup rf.verified : x.o = o
  BY ObservedDoes
<1>3. Reconciled(o) = IF o[1] \in rf.missing THEN OnMissing(row, o[1])
                      ELSE IF o[1] \in rf.present THEN OnPresent(row, o)
                      ELSE IF Disappeared(CollectionOf[o[1]]) THEN ClearMisses(MarkStale(row))
                      ELSE row
  BY DEF Reconciled
<1> HIDE DEF row
<1>4. Live(ClearMisses(row)) => Live(row)
  BY <1>1, MarksDo DEF Live
<1>5. Live(ClearMisses(MarkStale(row))) => Live(row)
  BY <1>1, MarksDo DEF Live
<1>6. Live(row)
  <2>1. CASE Reconciled(o) = OnMissing(row, o[1])
    BY <1>1, <1>4, <2>1, MarksDo DEF OnMissing, Live
  <2>2. CASE Reconciled(o) = OnPresent(row, o)
    BY <1>4, <1>5, <2>2 DEF OnPresent
  <2> QED BY <1>3, <1>5, <2>1, <2>2
<1> QED BY <1>2, <1>6

LEMMA HousedStep == ASSUME QuietInv, [MutationNext]_vars PROVE Housed'
<1>0. /\ MutationTypeInv /\ TypeOK /\ Housed /\ SeenListed
      /\ ev \in [Occurrences -> Row] /\ rf \in RefreshState
  BY DEF QuietInv, CopyInv, SeenInv, MutationTypeInv, MutationTypeOK, TypeOK
<1>1. \A c \in Calendars : calRow[c] # "none" => calRow'[c] # "none"
  BY <1>0, CalendarsStay
<1>2. \A o \in Occurrences : CollectionOf[o[1]] \in Calendars
  BY CalendarAssumption DEF CalendarAssumption, Occurrences
<1>3. ASSUME NEW o \in Occurrences, Live(ev[o]) PROVE calRow'[CollectionOf[o[1]]] # "none"
  BY <1>0, <1>1, <1>2, <1>3 DEF Housed
<1>4. ASSUME NEW o \in Occurrences, Live(ev'[o]) PROVE calRow'[CollectionOf[o[1]]] # "none"
  <2>1. CASE UNCHANGED ev
    BY <1>3, <1>4, <2>1
  <2>2. CASE CommitRefresh
    <3>1. ev'[o] = Reconciled(o)
      BY <2>2 DEF CommitRefresh
    <3>2. CASE Live(ev[o])
      BY <1>3, <3>2
    <3>3. CASE \E x \in rf.fetched \cup rf.verified : x.o = o
      <4>1. CollectionOf[o[1]] \in rf.listed
        BY <1>0, <3>3 DEF SeenListed
      <4>2. calRow'[CollectionOf[o[1]]] = "current"
        BY <1>2, <2>2, <4>1 DEF CommitRefresh
      <4> QED BY <4>2
    <3> QED BY <1>0, <1>4, <3>1, <3>2, <3>3, LifeOrigin
  <2>3. CASE RecordFailure
    <3>1. ev'[o] \in {ClearMisses(MarkStale(ev[o])), ClearMisses(ev[o])}
      BY <2>3 DEF RecordFailure
    <3>2. Live(ClearMisses(ev[o])) => Live(ev[o])
      BY <1>0, MarksDo DEF Live
    <3>3. Live(ClearMisses(MarkStale(ev[o]))) => Live(ev[o])
      BY <1>0, MarksDo DEF Live
    <3> QED BY <1>3, <1>4, <3>1, <3>2, <3>3
  <2>4. ASSUME NEW h \in Handlers, hs[h].pc = "finish", Reconcile(h)
        PROVE  calRow'[CollectionOf[o[1]]] # "none"
    <3>1. ASSUME NEW x \in hs[h].got, ReconcileEvent(x), Stores(h), x.o = o
          PROVE  calRow'[CollectionOf[o[1]]] # "none"
      <4>1. /\ CalendarOf(hs[h].req) \in Calendars /\ calRow[CalendarOf(hs[h].req)] # "none"
            /\ CollectionOf[o[1]] = CalendarOf(hs[h].req)
        BY <2>4, <3>1 DEF QuietInv, Addressed
      <4> QED BY <1>1, <4>1
    <3>2. ASSUME NEW x, ReconcileEvent(x), x.o # o PROVE ev'[o] = ev[o]
      BY <1>0, <3>2 DEF ReconcileEvent
    <3>3. ASSUME NEW p, ReconcileDeletedEvent(p) PROVE ev'[o] = ev[o]
      <4>1. \/ ev'[o] = ev[o]
            \/ ev'[o] = ClearMisses(ev[o]) /\ ev[o].deleted
            \/ ev'[o] = Tombstone(ev[o])
        BY <1>0, <3>3 DEF ReconcileDeletedEvent
      <4>2. Tombstone(ev[o]).deleted /\ ClearMisses(ev[o]).deleted = ev[o].deleted
        BY <1>0, MarksDo
      <4> QED BY <1>4, <4>1, <4>2 DEF Live
    <3>4. ASSUME NEW d, ReconcileCreatedCalendar(d) \/ ReconcileDeletedCalendar(d)
          PROVE  ev'[o] = ev[o]
      BY <3>4 DEF ReconcileCreatedCalendar, ReconcileDeletedCalendar
    <3>5. ev'[o] = ev[o] \/ \E x \in hs[h].got : ReconcileEvent(x) /\ Stores(h) /\ x.o = o
      BY <2>4, <3>2, <3>3, <3>4 DEF Reconcile, Stores
    <3> QED BY <1>3, <1>4, <3>1, <3>5
  <2> QED BY <2>1, <2>2, <2>3, <2>4, RowsMove
<1> QED BY <1>4 DEF Housed, Live

LEMMA QuietStep ==
  ASSUME VerifiesAll, QuietInv, [MutationNext]_vars PROVE QuietInv'
<1>1. CopyInv'
  BY CopyStep DEF QuietInv
<1>2. SeenInv'
  BY MutationMoves, SeenBeside, SeenStep, CalendarAssumption
     DEF QuietInv, CopyInv, MutationTypeInv, MutationTypeOK
<1>3. Housed'
  BY HousedStep
<1>4. (\A h \in Handlers : Addressed(h))'
  BY HandlersAddressed
<1> QED BY <1>1, <1>2, <1>3, <1>4 DEF QuietInv

LEMMA QuietStart == ASSUME MutationInit PROVE QuietInv
<1>1. CopyInv
  BY MutationTypeInit, StrikeStart, CalendarAssumption DEF CopyInv, MutationInit
<1>2. SeenInv
  <2>1. Idle.fetched = {} /\ Idle.verified = {} /\ Idle.pc = "idle"
    BY DEF Idle
  <2> QED BY <2>1 DEF MutationInit, Init, SeenInv, SeenListed, CalmKept, Underway
<1>3. Housed
  BY DEF MutationInit, Init, Housed, NoRow, Live
<1>4. \A h \in Handlers : Addressed(h)
  BY DEF MutationInit, Addressed, Quiet, HandlerAt
<1> QED BY <1>1, <1>2, <1>3, <1>4 DEF QuietInv

(* A quiet refresh that commits: what is shown was seen, and what was not  *)
(* seen is stale, dead, waiting for its second strike or not cached.       *)
LEMMA QuietCommit ==
  ASSUME QuietInv, CommitRefresh, calm PROVE CacheExact'
<1>0. /\ TypeOK /\ StrikeInv /\ SeenInv /\ Housed /\ ev \in [Occurrences -> Row]
      /\ rf.pc = "commit" /\ rf.todo = {} /\ rf.listed = collections
      /\ UNCHANGED <<collections, server>>
      /\ \A o \in Occurrences : ev'[o] = Reconciled(o)
      /\ \A x \in rf.fetched \cup rf.verified : Shown(x.o) /\ x.content = server[x.o[1]].content
      /\ \A o \in Occurrences : Shown(o) => \E x \in rf.fetched : x.o = o
      /\ \A r \in rf.missing : ~server[r].there
  BY DEF QuietInv, CopyInv, MutationTypeInv, MutationTypeOK, TypeOK, StrikeInv, ShapeKept,
         CommitRefresh, serverVars, SeenInv, CalmKept, Underway
<1>1. ASSUME NEW o \in Occurrences
      PROVE  /\ Shown(o) => /\ Live(Reconciled(o)) /\ Reconciled(o).sync = "synced"
                            /\ Reconciled(o).content = server[o[1]].content
             /\ Live(Reconciled(o)) /\ Reconciled(o).sync = "synced"
                  /\ Reconciled(o).misses = 0 => Shown(o)
  <2> DEFINE row == Observed(o)
             r == o[1]
  <2>1. row \in Row
    BY <1>0, ObservedRow
  <2>2. \/ row = ev[o] /\ o \notin SeenNow
        \/ \E x \in rf.fetched \cup rf.verified : x.o = o /\ Says(row, x)
    BY ObservedDoes
  <2>3. Reconciled(o) = IF r \in rf.missing THEN OnMissing(row, r)
                        ELSE IF r \in rf.present THEN OnPresent(row, o)
                        ELSE IF Disappeared(CollectionOf[r]) THEN ClearMisses(MarkStale(row))
                        ELSE row
    BY DEF Reconciled
  <2>4. o \in SeenNow <=> Shown(o)
    BY <1>0 DEF SeenNow
  <2>5. Contradicted(r) => server[r].there
    BY <1>0 DEF Contradicted, SeenNow, Shown, Reachable
  <2> HIDE DEF row
  <2>6. ASSUME NEW q \in Row
        PROVE  /\ ClearMisses(q).known = q.known /\ ClearMisses(q).deleted = q.deleted
               /\ ClearMisses(q).sync = q.sync /\ ClearMisses(q).content = q.content
               /\ MarkStale(q) \in Row
               /\ Live(MarkStale(q)) => MarkStale(q).sync = "stale"
    <3>1. MarkStale(q) \in Row
      BY RowOperators
    <3> QED BY <3>1 DEF Row, ClearMisses, MarkStale, Live
  <2>7. CASE Shown(o)
    <3>1. Says(row, [content |-> server[r].content])
      BY <1>0, <2>2, <2>4, <2>7 DEF Says
    <3>2. Live(row) /\ row.sync = "synced" /\ row.content = server[r].content
      BY <3>1 DEF Says
    <3>3. r \notin rf.missing /\ CollectionOf[r] \in rf.listed
      BY <1>0, <2>7 DEF Shown, Reachable
    <3>4. Reconciled(o) \in {row, ClearMisses(row)}
      BY <2>3, <2>4, <2>7, <3>3 DEF OnPresent, Disappeared
    <3> QED BY <2>1, <2>6, <2>7, <3>2, <3>4 DEF Live
  <2>8. CASE ~Shown(o)
    <3> SUFFICES ASSUME Live(Reconciled(o)), Reconciled(o).sync = "synced", Reconciled(o).misses = 0
                 PROVE  FALSE
      BY <2>8
    <3>1. row = ev[o] /\ o \notin SeenNow
      BY <2>2, <2>4, <2>8 DEF SeenNow
    <3>2. CASE r \in rf.missing
      <4>1. ~Contradicted(r)
        BY <1>0, <2>5, <3>2
      <4>2. Reconciled(o) = IF ~Live(row) THEN row ELSE IF row.misses >= 1 THEN Tombstone(row)
                            ELSE [row EXCEPT !.misses = 1]
        BY <2>3, <3>2, <4>1 DEF OnMissing
      <4>3. Tombstone(row).deleted /\ [row EXCEPT !.misses = 1].misses = 1
        BY <2>1, MarksDo
      <4> QED BY <4>2, <4>3 DEF Live
    <3>3. CASE r \notin rf.missing /\ r \in rf.present
      <4>1. Reconciled(o) = ClearMisses(MarkStale(row))
        BY <2>3, <3>1, <3>3 DEF OnPresent
      <4> QED BY <2>1, <2>6, <4>1 DEF Live
    <3>4. CASE r \notin rf.missing \cup rf.present /\ Disappeared(CollectionOf[r])
      <4>1. Reconciled(o) = ClearMisses(MarkStale(row))
        BY <2>3, <3>4
      <4> QED BY <2>1, <2>6, <4>1 DEF Live
    <3>5. CASE r \notin rf.missing \cup rf.present /\ ~Disappeared(CollectionOf[r])
      <4>1. Live(ev[o])
        BY <2>3, <3>1, <3>5
      <4>2. CollectionOf[r] \in rf.listed
        BY <1>0, <3>5, <4>1 DEF Housed, Disappeared
      <4> QED BY <1>0, <3>5, <4>1, <4>2 DEF StrikeInv, DueVerified, Due, Asking
    <3> QED BY <3>2, <3>3, <3>4, <3>5
  <2> QED BY <2>7, <2>8
<1> QED BY <1>0, <1>1 DEF CacheExact, Shown, Reachable, OccurrenceOf, Live

(* A refresh during which nothing changed leaves the copy exact: what the  *)
(* window shows is cached with its content, and what the copy calls synced *)
(* is shown, but for an event that waits for its second strike.            *)
THEOREM QuietRefreshIsExactHolds == VerifiesAll => (MutationSpec => QuietRefreshIsExact)
<1> SUFFICES ASSUME VerifiesAll PROVE MutationSpec => QuietRefreshIsExact
  OBVIOUS
<1>1. MutationInit => QuietInv
  BY QuietStart
<1>2. QuietInv /\ [MutationNext]_vars => QuietInv'
  BY QuietStep
<1>3. QuietInv /\ [MutationNext]_vars => [CommitRefresh /\ calm => CacheExact']_cacheVars
  BY QuietCommit
<1> QED BY <1>1, <1>2, <1>3, PTL DEF MutationSpec, QuietRefreshIsExact
=============================================================================
