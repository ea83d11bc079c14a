--------------------------- MODULE CalendarCache ---------------------------
(***************************************************************************)
(* The durable copy of the owner's iCloud calendars and the refresh that   *)
(* keeps it: providers/cache.py, with the reading half of                  *)
(* providers/icloud.py.                                                    *)
(*                                                                         *)
(* A refresh asks the server for its calendars, then, calendar by          *)
(* calendar, for the events of a window and for the resources that the     *)
(* cache already knows, and stores everything in one transaction.  Other   *)
(* devices change the server between any two answers.  An event that the   *)
(* cache holds becomes a tombstone when two complete refreshes in a row    *)
(* are told that its resource is gone.                                     *)
(*                                                                         *)
(* A resource holds one event, whose identity depends on whether it recurs *)
(* (the key "base" or an instance key).  Contents in Hidden are those that *)
(* lie outside the window of a refresh.                                    *)
(***************************************************************************)
EXTENDS Naturals, FiniteSets

CONSTANTS
  Calendars, Resources,   \* calendar collections, resources in them
  Listed, Existing,       \* the calendars and resources that exist at the start
  CollectionOf,           \* the calendar of each resource
  Rank,                   \* the order of the resources' hrefs
  Limit,                  \* how many resources a refresh verifies per calendar
  Contents, NoContent,    \* what an event says
  Hidden,                 \* contents outside the window
  Kinds,                  \* shapes of a resource, see below
  StaleAfter,             \* age at which a failed refresh makes the copy stale
  NoCalendar,
  MaxTime,                \* bound of the clock
  MaxChanges,             \* bound on the changes other devices make
  MaxFaults               \* bound on failed and wrong answers and on restarts

ASSUME CalendarAssumption ==
  /\ Listed \subseteq Calendars /\ Existing \subseteq Resources
  /\ IsFiniteSet(Resources)
  /\ CollectionOf \in [Resources -> Calendars]
  /\ Rank \in [Resources -> Nat]
  /\ Limit \in Nat
  /\ Hidden \subseteq Contents
  /\ Contents # {} /\ NoContent \notin Contents
  /\ "simple" \in Kinds
  /\ Kinds \subseteq {"simple", "rich", "series", "multi"}
  /\ NoCalendar \notin Calendars
  /\ StaleAfter \in Nat \ {0}
  /\ MaxTime \in Nat /\ MaxChanges \in Nat /\ MaxFaults \in Nat

VARIABLES
  collections,  \* the calendars that the server lists
  server,       \* the resources on the server
  calRow,       \* table provider_calendars: the status of each row
  ev,           \* tables calendar_events and provider_event_cache
  source,       \* table provider_sources: status and last_successful_sync_at
  rf,           \* the local variables of the refresh that is under way
  clock,
  changes, faults,
  told,         \* history: what the last ended refresh was told is missing
  calm          \* history: nothing changed since the refresh began

serverVars == <<collections, server, changes>>
cacheRows == <<calRow, ev, source>>
history == <<told, calm>>
cacheVars == <<collections, server, calRow, ev, source, rf, clock, changes, faults,
               told, calm>>

-----------------------------------------------------------------------------
(* The server.                                                             *)

(* "simple" is one plain VEVENT, "rich" one with fields the bot does not   *)
(* write, "series" a recurring one, "multi" a series with overrides.       *)
Resource == [there : BOOLEAN, etag : Nat, kind : Kinds, content : Contents \cup {NoContent}]

Occurrences == Resources \X {"base", "instance"}
OccurrenceOf(r) ==
  <<r, IF server[r].kind \in {"simple", "rich"} THEN "base" ELSE "instance">>
Reachable(r) == server[r].there /\ CollectionOf[r] \in collections
Shown(o) ==
  Reachable(o[1]) /\ OccurrenceOf(o[1]) = o /\ server[o[1]].content \notin Hidden

(* What a report says of a resource.  Only an answer that carries the ETag *)
(* of a plain event makes the event writable; a multiget hands no ETag on. *)
Observation ==
  [o : Occurrences, content : Contents \cup {NoContent}, etag : Nat, safe : BOOLEAN]
Report(r, tagged) ==
  LET plain == tagged /\ server[r].kind = "simple"
  IN  {[o |-> o, content |-> server[r].content, safe |-> plain,
        etag |-> IF plain THEN server[r].etag ELSE 0] :
           o \in {x \in {OccurrenceOf(r)} : Shown(x)}}

OthersWrite(r, kind, content) ==
  /\ changes < MaxChanges
  /\ CollectionOf[r] \in collections
  /\ server' = [server EXCEPT ![r] = [there |-> TRUE, etag |-> server[r].etag + 1,
                                      kind |-> kind, content |-> content]]
  /\ changes' = changes + 1
  /\ calm' = FALSE
  /\ UNCHANGED <<collections, cacheRows, rf, clock, faults, told>>

OthersDelete(r) ==
  /\ changes < MaxChanges
  /\ Reachable(r)
  /\ server' = [server EXCEPT ![r].there = FALSE]
  /\ changes' = changes + 1
  /\ calm' = FALSE
  /\ UNCHANGED <<collections, cacheRows, rf, clock, faults, told>>

(* A shared calendar is withdrawn, or granted again.                       *)
OthersShare(c) ==
  /\ changes < MaxChanges
  /\ collections' = IF c \in collections THEN collections \ {c} ELSE collections \cup {c}
  /\ changes' = changes + 1
  /\ calm' = FALSE
  /\ UNCHANGED <<server, cacheRows, rf, clock, faults, told>>

Others ==
  \/ \E r \in Resources, kind \in Kinds, content \in Contents : OthersWrite(r, kind, content)
  \/ \E r \in Resources : OthersDelete(r)
  \/ \E c \in Calendars : OthersShare(c)

-----------------------------------------------------------------------------
(* The rows of the cache.                                                  *)

Row == [known : BOOLEAN, content : Contents \cup {NoContent}, deleted : BOOLEAN,
        sync : {"none", "synced", "stale"}, version : Nat,
        etag : Nat, safe : BOOLEAN, misses : 0..1]
NoRow == [known |-> FALSE, content |-> NoContent, deleted |-> FALSE, sync |-> "none",
          version |-> 0, etag |-> 0, safe |-> FALSE, misses |-> 0]

Live(row) == row.known /\ ~row.deleted
Enabled(status) == status \in {"current", "stale"}

\* mutant: an event that comes back as it was is taken for unchanged
UpsertRevived(row, x) ==
  LET unchanged == row.known /\ row.content = x.content /\ row.sync = "synced"
  IN  [known |-> TRUE, content |-> x.content, deleted |-> FALSE, sync |-> "synced",
       version |-> IF unchanged THEN row.version ELSE row.version + 1,
       etag |-> x.etag, safe |-> x.safe, misses |-> 0]

(* The version of an event tells its readers that something they can see   *)
(* has changed; the ETag and the safety of writing are always replaced.    *)
Upsert(row, x) ==
  LET unchanged == Live(row) /\ row.content = x.content /\ row.sync = "synced"
  IN  [known |-> TRUE, content |-> x.content, deleted |-> FALSE, sync |-> "synced",
       version |-> IF unchanged THEN row.version ELSE row.version + 1,
       etag |-> x.etag, safe |-> x.safe, misses |-> 0]

Tombstone(row) ==
  [row EXCEPT !.deleted = TRUE, !.version = row.version + 1, !.misses = 0]
MarkStale(row) ==
  [row EXCEPT !.sync = IF Live(row) THEN "stale" ELSE row.sync]
\* mutant: strikes are never forgotten
KeepMisses(row) == row
ClearMisses(row) == [row EXCEPT !.misses = 0]

-----------------------------------------------------------------------------
(* A refresh.                                                              *)

Idle == [pc |-> "idle", since |-> 0, listed |-> {}, todo |-> {}, cal |-> NoCalendar,
         asked |-> {}, fetched |-> {}, verified |-> {}, missing |-> {}, present |-> {}]

BeginRefresh ==
  /\ rf.pc = "idle"
  /\ rf' = [Idle EXCEPT !.pc = "list", !.since = clock]
  /\ calm' = TRUE
  /\ UNCHANGED <<serverVars, cacheRows, clock, faults, told>>

ListCalendars ==
  /\ rf.pc = "list"
  /\ rf' = [rf EXCEPT !.listed = collections, !.todo = collections,
                      !.pc = IF collections = {} THEN "commit" ELSE "fetch"]
  /\ UNCHANGED <<serverVars, cacheRows, clock, faults, history>>

FetchEvents(c) ==
  /\ rf.pc = "fetch"
  /\ c \in rf.todo \cap collections
  /\ rf' = [rf EXCEPT !.cal = c, !.todo = rf.todo \ {c}, !.pc = "ask",
                      !.fetched = rf.fetched \cup
                         UNION {Report(r, TRUE) : r \in {q \in Resources : CollectionOf[q] = c}}]
  /\ UNCHANGED <<serverVars, cacheRows, clock, faults, history>>

(* mutant: events already known to be stale are not asked for              *)
SyncedRefs(c) ==
  {r \in Resources : CollectionOf[r] = c /\
     \E o \in Occurrences : o[1] = r /\ Live(ev[o]) /\ ev[o].sync = "synced"}

(* The hrefs of the calendar's live events, in their order, up to Limit.   *)
CachedRefs(c) ==
  LET refs == {r \in Resources : CollectionOf[r] = c /\ \E o \in Occurrences : o[1] = r /\ Live(ev[o])}
  IN  {r \in refs : Cardinality({q \in refs : Rank[q] < Rank[r]}) < Limit}

AfterCalendar == IF rf.todo = {} THEN "commit" ELSE "fetch"

AskResources ==
  /\ rf.pc = "ask"
  /\ LET refs == CachedRefs(rf.cal)
     IN  rf' = [rf EXCEPT !.asked = refs, !.pc = IF refs = {} THEN AfterCalendar ELSE "verify"]
  /\ UNCHANGED <<serverVars, cacheRows, clock, faults, history>>

(* The multiget: every href asked for is answered, with the resource or    *)
(* with 404.  A wrong 404 is a fault of the server.                        *)
VerifyResources(wrong) ==
  /\ rf.pc = "verify"
  /\ rf.cal \in collections
  /\ faults + Cardinality(wrong) <= MaxFaults
  /\ wrong \subseteq {r \in rf.asked : server[r].there}
  /\ LET missing == wrong \cup {r \in rf.asked : ~server[r].there}
         present == rf.asked \ missing
     IN  rf' = [rf EXCEPT !.pc = AfterCalendar,
                          !.missing = rf.missing \cup missing,
                          !.present = rf.present \cup present,
                          !.verified = rf.verified \cup UNION {Report(r, FALSE) : r \in present}]
  /\ faults' = faults + Cardinality(wrong)
  /\ calm' = (calm /\ wrong = {})
  /\ UNCHANGED <<serverVars, cacheRows, clock, told>>

(* What the transaction makes of a row: the fetched observation, then the  *)
(* verified one, then the verdict on its resource.                         *)
Observe(row, o, seen) ==
  IF \E x \in seen : x.o = o THEN Upsert(row, CHOOSE x \in seen : x.o = o) ELSE row
Observed(o) == Observe(Observe(ev[o], o, rf.fetched), o, rf.verified)
SeenNow == {x.o : x \in rf.fetched \cup rf.verified}
Contradicted(r) == \E o \in SeenNow : o[1] = r

OnMissing(row, r) ==
  IF ~Live(row) THEN row
  ELSE IF Contradicted(r) THEN ClearMisses(row)
  ELSE IF row.misses >= 1 THEN Tombstone(row)
  ELSE [row EXCEPT !.misses = 1]
OnPresent(row, o) == ClearMisses(IF o \in SeenNow THEN row ELSE MarkStale(row))

\* mutant: a calendar that is no longer listed is overlooked
NeverDisappeared(c) == c \notin Calendars
Disappeared(c) == c \notin rf.listed /\ calRow[c] # "none"
Reconciled(o) ==
  LET row == Observed(o)
      r == o[1]
  IN  IF r \in rf.missing THEN OnMissing(row, r)
      ELSE IF r \in rf.present THEN OnPresent(row, o)
      ELSE IF Disappeared(CollectionOf[r]) THEN ClearMisses(MarkStale(row))
      ELSE row

CommitRefresh ==
  /\ rf.pc = "commit"
  /\ ev' = [o \in Occurrences |-> Reconciled(o)]
  /\ calRow' = [c \in Calendars |-> IF c \in rf.listed THEN "current"
                                   ELSE IF Disappeared(c) THEN "disabled" ELSE calRow[c]]
  /\ source' = [status |-> "current", last |-> rf.since]
  /\ told' = {r \in rf.missing : ~Contradicted(r)}
  /\ rf' = Idle
  /\ UNCHANGED <<serverVars, clock, faults, calm>>

(* A failed refresh keeps the rows, forgets the strikes and decides on the *)
(* age of the data, measured at the time when the refresh began.           *)
FailureStatus ==
  LET hasCache == (\E c \in Calendars : calRow[c] # "none") \/ (\E o \in Occurrences : ev[o].known)
  IN  IF ~hasCache THEN "error"
      ELSE IF source.last # 0 /\ rf.since < source.last + StaleAfter THEN "current"
      ELSE "stale"

RecordFailure ==
  /\ source' = [source EXCEPT !.status = FailureStatus]
  /\ ev' = [o \in Occurrences |->
              ClearMisses(IF FailureStatus = "stale" THEN MarkStale(ev[o]) ELSE ev[o])]
  /\ calRow' = [c \in Calendars |-> IF Enabled(calRow[c]) THEN FailureStatus ELSE calRow[c]]
  /\ told' = {}
  /\ rf' = Idle
  /\ UNCHANGED <<serverVars, clock, calm>>

(* A calendar that was listed is withdrawn before it is read.              *)
Withdrawn ==
  \/ rf.pc = "fetch" /\ ~(rf.todo \subseteq collections)
  \/ rf.pc = "verify" /\ rf.cal \notin collections

RefreshFails ==
  /\ rf.pc \notin {"idle", "ask"}
  /\ \/ Withdrawn /\ faults' = faults
     \/ ~Withdrawn /\ faults < MaxFaults /\ faults' = faults + 1
  /\ RecordFailure

(* The process ends, or close() cancels the refresh: nothing is stored.    *)
Crash ==
  /\ rf.pc # "idle"
  /\ faults < MaxFaults
  /\ faults' = faults + 1
  /\ rf' = Idle
  /\ UNCHANGED <<serverVars, cacheRows, clock, history>>

Tick ==
  /\ clock < MaxTime
  /\ clock' = clock + 1
  /\ UNCHANGED <<serverVars, cacheRows, rf, faults, history>>

-----------------------------------------------------------------------------
RefreshStep ==
  \/ BeginRefresh
  \/ ListCalendars
  \/ \E c \in Calendars : FetchEvents(c)
  \/ AskResources
  \/ \E wrong \in SUBSET rf.asked : VerifyResources(wrong)
  \/ CommitRefresh
  \/ RefreshFails

Init ==
  /\ collections = Listed
  /\ server = [r \in Resources |->
       IF r \in Existing
       THEN [there |-> TRUE, etag |-> 1, kind |-> "simple", content |-> CHOOSE x \in Contents : TRUE]
       ELSE [there |-> FALSE, etag |-> 0, kind |-> "simple", content |-> NoContent]]
  /\ calRow = [c \in Calendars |-> "none"]
  /\ ev = [o \in Occurrences |-> NoRow]
  /\ source = [status |-> "error", last |-> 0]
  /\ rf = Idle
  /\ clock = 1
  /\ changes = 0 /\ faults = 0
  /\ told = {} /\ calm = TRUE

Next == Others \/ RefreshStep \/ Crash \/ Tick
Spec == Init /\ [][Next]_cacheVars

(* The loop starts the next refresh after the one before, and each of its  *)
(* calls ends, by an answer or by a timeout of the transport.              *)
FairSpec == Spec /\ WF_cacheVars(RefreshStep)

-----------------------------------------------------------------------------
RefreshState ==
  [pc : {"idle", "list", "fetch", "ask", "verify", "commit"}, since : Nat,
   listed : SUBSET Calendars, todo : SUBSET Calendars, cal : Calendars \cup {NoCalendar},
   asked : SUBSET Resources, fetched : SUBSET Observation, verified : SUBSET Observation,
   missing : SUBSET Resources, present : SUBSET Resources]

(* Every variable keeps to the values the tables and the code allow.       *)
TypeOK ==
  /\ collections \subseteq Calendars
  /\ server \in [Resources -> Resource]
  /\ calRow \in [Calendars -> {"none", "current", "stale", "disabled"}]
  /\ ev \in [Occurrences -> Row]
  /\ source \in [status : {"current", "stale", "error"}, last : Nat]
  /\ rf \in RefreshState
  /\ clock \in Nat /\ changes \in Nat /\ faults \in Nat
  /\ told \subseteq Resources /\ calm \in BOOLEAN

(* A refresh makes a tombstone only of an event whose resource the refresh *)
(* ended before it, a complete one, was told is missing too: one wrong     *)
(* answer, or two with a failed refresh, a sighting or a withdrawn         *)
(* calendar between them, never make an event disappear.                   *)
Dies(o) == Live(ev[o]) /\ ev'[o].deleted
TombstoneNeedsTwoMisses ==
  [][CommitRefresh =>
       \A o \in Occurrences : Dies(o) => o[1] \in told /\ o[1] \in rf.missing]_cacheVars

(* A live event is in step with the server once a refresh has completed    *)
(* during which nothing changed: what the window shows is cached with its  *)
(* content, and what the cache calls synced is shown, but for an event     *)
(* that waits for the second strike.                                       *)
CacheExact ==
  \A o \in Occurrences :
     /\ Shown(o) => Live(ev[o]) /\ ev[o].sync = "synced" /\ ev[o].content = server[o[1]].content
     /\ Live(ev[o]) /\ ev[o].sync = "synced" /\ ev[o].misses = 0 => Shown(o)
QuietRefreshIsExact == [][CommitRefresh /\ calm => CacheExact']_cacheVars

(* When the server rests, the copy becomes what the server shows and stays *)
(* so, and events that were deleted on the server become tombstones.       *)
Mirrors ==
  /\ CacheExact
  /\ \A o \in Occurrences :
        Live(ev[o]) /\ CollectionOf[o[1]] \in collections => server[o[1]].there
CopyConverges == <>[]Mirrors

(* Whoever holds a version of an event can tell that the event has changed *)
(* since: no row goes back to a version it had, and none shows something   *)
(* else, is deleted or comes back under the version it has, whether a      *)
(* refresh, a late one among them, or a confirmed write touches it.        *)
Told(was, now) ==
  \/ now.version > was.version
  \/ /\ now.version = was.version
     /\ now.content = was.content /\ Live(now) = Live(was)
VersionsTellApart == [][\A o \in Occurrences : Told(ev[o], ev'[o])]_cacheVars
=============================================================================
