----------------------- MODULE ReminderCutoverProofs -----------------------
(***************************************************************************)
(* Proofs about ReminderCutover, for any number of reminders, channels,    *)
(* starts, requests and faults: no accepted reminder disappears, a pending *)
(* one has its timer, a channel heard to take one takes it again only      *)
(* after a delivery that could not be recorded, and a cancelled one stays  *)
(* silent.                                                                 *)
(*                                                                         *)
(* The argument: while the JSON store runs, its memory is never behind the *)
(* file, and ahead of it by the change whose save holds the lock and by    *)
(* those whose save failed; rows come from the file through the marker or  *)
(* are made in Planning, and then the file does not know them.  So what is *)
(* pending anywhere has not been heard to be sent, that is every message a *)
(* channel took lost its answer, or its timer is between the delivery and  *)
(* the saved mark.                                                         *)
(***************************************************************************)
EXTENDS ReminderCutover, TLAPS

Saves(op, r) == saving = [op |-> op, r |-> r]
PendingIn(recs, r) == recs[r] # NoRecord /\ recs[r].status = "pending"
CancelledIn(recs, r) == recs[r] # NoRecord /\ recs[r].status = "cancelled"
FiredIn(recs, r) == recs[r] # NoRecord /\ recs[r].status = "fired"
Native(r) == rows[r] # NoRecord /\ rows[r].origin = "native"

(* What the channels were heard to take of a reminder: nothing, at most one  *)
(* message each, nothing of those its timer has still to try.                *)
Fresh(r) == \A c \in Channels : sent[<<r, c>>] = unheard[<<r, c>>]
SentOnce(r) == \A c \in Channels : sent[<<r, c>>] <= 1 + unheard[<<r, c>>]
Untried(r) == \A c \in left[r] : sent[<<r, c>>] = unheard[<<r, c>>]

(* Timers run and records are in memory only while the JSON store runs.      *)
Stopped(r) == mode # "legacy" => task[r] = NoTask /\ mem.recs[r] = NoRecord

(* The change whose save holds the lock is in memory.                        *)
InMemory(r) ==
  /\ Saves("create", r) => PendingIn(mem.recs, r) /\ task[r] = NoTask /\ Fresh(r)
  /\ Saves("cancel", r) => CancelledIn(mem.recs, r)
  /\ Saves("mark", r) => FiredIn(mem.recs, r) /\ task[r] = "marking"

(* The memory holds what the file holds, fired stays fired, and who has a    *)
(* timer is in the file.                                                     *)
MemoryHolds(r) ==
  /\ mode = "legacy" /\ file.recs[r] # NoRecord => mem.recs[r] # NoRecord
  /\ mode = "legacy" /\ FiredIn(file.recs, r) => FiredIn(mem.recs, r)
  /\ task[r] # NoTask => file.recs[r] # NoRecord

(* A row comes with the marker or is made after it, in Planning, and then it *)
(* is in no file; what was read as fired is fired in the file.               *)
Imported(r) ==
  /\ marker = NoRecord => rows[r] = NoRecord
  /\ Native(r) => file.recs[r] = NoRecord /\ mem.recs[r] = NoRecord
  /\ reading # NoRecord /\ FiredIn(reading.recs, r) => FiredIn(file.recs, r)
  /\ mode = "legacy" /\ Delivered(r) => r \in excused \/ FiredIn(file.recs, r)

(* What is accepted is in the file or made in Planning.                      *)
Kept(r) ==
  r \in accepted => /\ file.recs[r] # NoRecord \/ Native(r)
                    /\ mode = "planning" => rows[r] # NoRecord

(* PendingHasTimer, also while the creation of the reminder is being saved.  *)
Timed(r) ==
  mode = "legacy" /\ IsPending(r) /\ r \notin idle => task[r] # NoTask \/ Saves("create", r)

(* What may still be sent has not been heard to be sent, unless the delivery *)
(* is on its way to the file.                                                *)
Unsent(r) ==
  /\ mode = "legacy" /\ IsPending(r) => Fresh(r) \/ Unrecorded(r)
  /\ PendingIn(file.recs, r) /\ ~Delivered(r) => Fresh(r) \/ Unrecorded(r)
  /\ task[r] \in {"waiting", "sending"} => Fresh(r)
  /\ task[r] = "sent" => Untried(r)
  /\ mode = "planning" \/ Native(r) =>
       (Open(r) /\ rows[r].delivery = "not_due" => Fresh(r))
Once(r) ==
  /\ Fresh(r) \/ file.recs[r] # NoRecord \/ rows[r] # NoRecord
  /\ r \notin excused => Unsent(r) /\ SentOnce(r)

(* A cancelled reminder is pending nowhere and has no timer.                 *)
Rests(r) ==
  r \in cancelled =>
    /\ file.recs[r] # NoRecord /\ ~PendingIn(file.recs, r)
    /\ task[r] = NoTask /\ ~IsPending(r)
    /\ mode = "planning" => ~Open(r)

Sane(r) == /\ Stopped(r) /\ InMemory(r) /\ MemoryHolds(r) /\ Imported(r) /\ Kept(r)
           /\ Timed(r) /\ Once(r) /\ Rests(r)

CutoverInv ==
  /\ TypeOK
  /\ mode # "legacy" => saving = Unlocked
  /\ mode = "planning" => marker # NoRecord
  /\ \A r \in Reminders : Sane(r)

-----------------------------------------------------------------------------
(* Shapes of the records.                                                    *)
LEMMA Fields ==
  ASSUME TypeOK
  PROVE  /\ mem.recs \in [Reminders -> Record \cup {NoRecord}] /\ mem.on \subseteq Channels
         /\ file.recs \in [Reminders -> Record \cup {NoRecord}] /\ file.on \subseteq Channels
         /\ Saved(mem) \in Document /\ Saved(mem).recs = mem.recs
         /\ Loaded(file) \in Store /\ Loaded(file).recs = file.recs
         /\ saving.op \in {"none", "create", "cancel", "mark", "settings"}
         /\ saving.op = "none" <=> saving = Unlocked
         /\ saving.op \in {"create", "cancel", "mark"} => saving.r \in Reminders
BY DEF TypeOK, Document, Store, Saved, Loaded, Unlocked

LEMMA PendingRecord ==
  ASSUME CutoverAssumption
  PROVE  Pending \in Record /\ Pending.status = "pending" /\ Pending # NoRecord
<1>1. Pending \in Record /\ Pending.status = "pending"
  BY DEF Record, Pending
<1> QED BY <1>1 DEF CutoverAssumption

LEMMA RecordKinds ==
  ASSUME CutoverAssumption, NEW rec \in Record
  PROVE  /\ Fired(rec) \in Record /\ Fired(rec).status = "fired"
         /\ Cancelled(rec) \in Record /\ Cancelled(rec).status = "cancelled"
         /\ rec # NoRecord /\ Fired(rec) # NoRecord /\ Cancelled(rec) # NoRecord
<1>2. Fired(rec) \in Record /\ Fired(rec).status = "fired"
  BY DEF Record, Fired
<1>3. Cancelled(rec) \in Record /\ Cancelled(rec).status = "cancelled"
  BY DEF Record, Cancelled
<1> QED BY <1>2, <1>3 DEF CutoverAssumption

LEMMA RowsOfRecords ==
  ASSUME CutoverAssumption, NEW rec \in Record
  PROVE  /\ RowOf(rec) \in Row /\ RowOf(rec) # NoRecord /\ RowOf(rec).origin = "legacy"
         /\ RowOf(rec).status = "pending" <=> rec.status = "pending"
         /\ RowOf(rec).delivery = "delivered" <=> rec.status = "fired"
<1>1. rec.status \in {"pending", "fired", "cancelled"}
  BY DEF Record
<1>2. CASE rec.status = "pending"
  BY <1>2 DEF RowOf, Row, CutoverAssumption
<1>3. CASE rec.status = "fired"
  BY <1>3 DEF RowOf, Row, CutoverAssumption
<1>4. CASE rec.status = "cancelled"
  BY <1>4 DEF RowOf, Row, CutoverAssumption
<1> QED BY <1>1, <1>2, <1>3, <1>4

(* Messages are counted, so nothing heard is at most one.                    *)
LEMMA NothingIsOnce ==
  ASSUME TypeOK, NEW r \in Reminders
  PROVE  /\ Fresh(r) => SentOnce(r)
         /\ \A c \in Channels : sent[<<r, c>>] \in Nat /\ unheard[<<r, c>>] \in Nat
<1>1. \A c \in Channels : sent[<<r, c>>] \in Nat /\ unheard[<<r, c>>] \in Nat
  BY DEF TypeOK
<1> QED BY <1>1 DEF Fresh, SentOnce

(* A held change: one record of the memory, and the lock.                    *)
LEMMA Held ==
  ASSUME CutoverAssumption, TypeOK, NEW r \in Reminders, NEW rec \in Record,
         NEW op \in {"create", "cancel", "mark"},
         Hold(op, r, [mem EXCEPT !.recs[r] = rec])
  PROVE  /\ mem' \in Store /\ mem'.recs[r] = rec /\ mem'.on = mem.on
         /\ \A x \in Reminders \ {r} : mem'.recs[x] = mem.recs[x]
         /\ saving' = [op |-> op, r |-> r] /\ saving'.op = op /\ saving'.r = r
<1>1. mem' = [mem EXCEPT !.recs[r] = rec] /\ saving' = [op |-> op, r |-> r]
  BY DEF Hold
<1> QED BY <1>1, Fields DEF TypeOK, Store

(* A step that changes at most the messages of a reminder, and none that was *)
(* heard, keeps what is known of it.                                         *)
LEMMA NothingHeard ==
  ASSUME CutoverAssumption, CutoverInv, NEW x \in Reminders,
         mode' = mode, marker' = marker, reading' = reading,
         file'.recs[x] = file.recs[x], mem'.recs[x] = mem.recs[x],
         task'[x] = task[x], left'[x] = left[x], rows'[x] = rows[x],
         Fresh(x)' <=> Fresh(x), SentOnce(x)' <=> SentOnce(x), Untried(x)' <=> Untried(x),
         x \in accepted' <=> x \in accepted, x \in cancelled' <=> x \in cancelled,
         x \in excused' <=> x \in excused, x \in idle' <=> x \in idle,
         saving' = saving \/ (saving.r # x /\ saving'.r # x)
  PROVE  Sane(x)'
<1>1. Sane(x) /\ left[x] \subseteq Channels
  BY DEF CutoverInv, TypeOK
<1>2. /\ Fresh(x)' <=> Fresh(x)
      /\ SentOnce(x)' <=> SentOnce(x)
      /\ Untried(x)' <=> Untried(x)
  OBVIOUS
<1>3. \A op \in {"create", "cancel", "mark"} : Saves(op, x)' <=> Saves(op, x)
  BY DEF Saves
<1>4. /\ Unrecorded(x)' <=> Unrecorded(x)
      /\ IsPending(x)' <=> IsPending(x)
      /\ Delivered(x)' <=> Delivered(x)
      /\ Native(x)' <=> Native(x)
      /\ Open(x)' <=> Open(x)
  BY <1>3 DEF Unrecorded, IsPending, Known, Delivered, Native, Open, Saves
<1>5. /\ PendingIn(file.recs, x)' <=> PendingIn(file.recs, x)
      /\ FiredIn(file.recs, x)' <=> FiredIn(file.recs, x)
      /\ PendingIn(mem.recs, x)' <=> PendingIn(mem.recs, x)
      /\ CancelledIn(mem.recs, x)' <=> CancelledIn(mem.recs, x)
      /\ FiredIn(mem.recs, x)' <=> FiredIn(mem.recs, x)
      /\ FiredIn(reading.recs, x)' <=> FiredIn(reading.recs, x)
  BY DEF PendingIn, FiredIn, CancelledIn
<1>6. Stopped(x)' /\ InMemory(x)' /\ MemoryHolds(x)'
  BY <1>1, <1>2, <1>3, <1>5 DEF Sane, Stopped, InMemory, MemoryHolds
<1>7. Imported(x)' /\ Kept(x)' /\ Timed(x)'
  BY <1>1, <1>3, <1>4, <1>5 DEF Sane, Imported, Kept, Timed
<1>8. Once(x)'
  <2>1. Unsent(x)' <=> Unsent(x)
    BY <1>2, <1>4, <1>5 DEF Unsent
  <2> QED BY <1>1, <1>2, <2>1 DEF Sane, Once
<1>9. Rests(x)'
  BY <1>1, <1>4, <1>5 DEF Sane, Rests
<1> QED BY <1>6, <1>7, <1>8, <1>9 DEF Sane

(* A step that leaves a reminder alone keeps what is known of it.            *)
LEMMA Untouched ==
  ASSUME CutoverAssumption, CutoverInv, NEW x \in Reminders,
         mode' = mode, marker' = marker, reading' = reading,
         file'.recs[x] = file.recs[x], mem'.recs[x] = mem.recs[x],
         task'[x] = task[x], left'[x] = left[x], rows'[x] = rows[x],
         \A c \in Channels : /\ sent'[<<x, c>>] = sent[<<x, c>>]
                             /\ unheard'[<<x, c>>] = unheard[<<x, c>>],
         x \in accepted' <=> x \in accepted, x \in cancelled' <=> x \in cancelled,
         x \in excused' <=> x \in excused, x \in idle' <=> x \in idle,
         saving' = saving \/ (saving.r # x /\ saving'.r # x)
  PROVE  Sane(x)'
<1>1. left[x] \subseteq Channels
  BY DEF CutoverInv, TypeOK
<1>2. /\ Fresh(x)' <=> Fresh(x)
      /\ SentOnce(x)' <=> SentOnce(x)
      /\ Untried(x)' <=> Untried(x)
  BY <1>1 DEF Fresh, SentOnce, Untried
<1> QED BY <1>2, NothingHeard

-----------------------------------------------------------------------------
(* The JSON store.                                                           *)
Aside == <<file, mode, task, left, rows, marker, reading, sent, unheard, cancelled,
           accepted, excused, idle>>

LEMMA HoldKeeps ==
  ASSUME CutoverAssumption, CutoverInv, NEW r \in Reminders, NEW rec \in Record,
         NEW op \in {"create", "cancel", "mark"},
         Hold(op, r, [mem EXCEPT !.recs[r] = rec]),
         Running, UNCHANGED Aside, Sane(r)',
         budget' \in [starts : Nat, edits : Nat, faults : Nat]
  PROVE  CutoverInv'
<1>1. /\ mem' \in Store /\ mem'.recs[r] = rec /\ mem'.on = mem.on
      /\ \A x \in Reminders \ {r} : mem'.recs[x] = mem.recs[x]
      /\ saving' = [op |-> op, r |-> r] /\ saving'.op = op /\ saving'.r = r
  BY Held DEF CutoverInv
<1>2. /\ file' = file /\ mode' = mode /\ task' = task /\ left' = left
      /\ rows' = rows /\ marker' = marker /\ reading' = reading
      /\ sent' = sent /\ unheard' = unheard /\ cancelled' = cancelled /\ accepted' = accepted
      /\ excused' = excused /\ idle' = idle
      /\ mode = "legacy" /\ saving = Unlocked /\ saving.r = NoRecord
  BY DEF Aside, Running, Unlocked
<1>3. ASSUME NEW x \in Reminders, x # r
      PROVE  Sane(x)'
  <2>1. saving.r # x /\ saving'.r # x /\ mem'.recs[x] = mem.recs[x]
    BY <1>1, <1>2, <1>3 DEF CutoverAssumption
  <2> QED BY <1>2, <2>1, Untouched
<1>4. TypeOK'
  <2>1. saving' \in [op : {"create", "cancel", "mark"}, r : Reminders]
    BY <1>1
  <2> QED BY <1>1, <1>2, <2>1 DEF CutoverInv, TypeOK
<1> QED BY <1>2, <1>3, <1>4 DEF CutoverInv

LEMMA CreateKeeps ==
  ASSUME CutoverAssumption, CutoverInv, NEW r \in Reminders, Create(r)
  PROVE  CutoverInv'
<1>0. Hold("create", r, [mem EXCEPT !.recs[r] = Pending])
  BY DEF Create, StoreCreate
<1>9. Running /\ UNCHANGED Aside /\ budget' \in [starts : Nat, edits : Nat, faults : Nat]
  BY DEF Create, StoreCreate, Known, Edit, Aside, planning, history, CutoverInv, TypeOK
<1>1. /\ mem.recs[r] = NoRecord /\ rows[r] = NoRecord /\ r \notin accepted
  BY DEF Create, StoreCreate, Known, Edit, Aside, planning, history, CutoverInv, TypeOK
<1>2. Pending \in Record /\ Pending.status = "pending" /\ Pending # NoRecord
  BY PendingRecord
<1>3. mem'.recs[r] = Pending /\ saving' = [op |-> "create", r |-> r]
  BY <1>0, <1>2, Held DEF CutoverInv
<1>4. /\ mode' = "legacy" /\ mode = "legacy" /\ task'[r] = task[r] /\ file'.recs[r] = file.recs[r]
      /\ rows'[r] = rows[r] /\ (Fresh(r)' <=> Fresh(r)) /\ (SentOnce(r)' <=> SentOnce(r))
      /\ accepted' = accepted /\ cancelled' = cancelled /\ idle' = idle /\ excused' = excused
      /\ marker' = marker /\ reading' = reading
  BY <1>9 DEF Aside, Running, Fresh, SentOnce
<1>5. /\ Sane(r) /\ Fresh(r) /\ SentOnce(r)
      /\ file.recs[r] = NoRecord /\ task[r] = NoTask /\ r \notin cancelled
  BY <1>1, <1>4, NothingIsOnce DEF CutoverInv, Sane, MemoryHolds, Once, Rests
<1>6. /\ IsPending(r)' /\ ~Delivered(r)' /\ ~Native(r)' /\ ~Open(r)' /\ SentOnce(r)'
      /\ Saves("create", r)' /\ ~Saves("cancel", r)' /\ ~Saves("mark", r)'
      /\ ~FiredIn(file.recs, r)' /\ ~PendingIn(file.recs, r)' /\ PendingIn(mem.recs, r)'
  BY <1>1, <1>2, <1>3, <1>4, <1>5 DEF IsPending, Known, Delivered, Native, Open, Saves,
     FiredIn, PendingIn
<1>7. Sane(r)'
  <2>1. Stopped(r)' /\ InMemory(r)'
    BY <1>3, <1>4, <1>5, <1>6 DEF Stopped, InMemory
  <2>2. MemoryHolds(r)' 
    BY <1>1, <1>2, <1>3, <1>4, <1>5, <1>6 DEF MemoryHolds
  <2>3. Imported(r)'
    <3>1. reading # NoRecord => ~FiredIn(reading.recs, r)'
      BY <1>4, <1>5 DEF Sane, Imported, FiredIn
    <3> QED BY <1>1, <1>4, <1>6, <3>1 DEF Imported
  <2>4. Kept(r)' /\ Timed(r)' /\ Rests(r)'
    BY <1>1, <1>3, <1>4, <1>5, <1>6 DEF Kept, Timed, Rests
  <2>5. Once(r)'
    BY <1>1, <1>3, <1>4, <1>5, <1>6 DEF Once, Unsent, NoTask
  <2> QED BY <2>1, <2>2, <2>3, <2>4, <2>5 DEF Sane
<1> QED BY <1>0, <1>9, <1>2, <1>7, HoldKeeps

LEMMA CancelPendingKeeps ==
  ASSUME CutoverAssumption, CutoverInv, NEW r \in Reminders, CancelPending(r)
  PROVE  CutoverInv'
<1>1. /\ Running /\ UNCHANGED Aside /\ IsPending(r)
      /\ budget' \in [starts : Nat, edits : Nat, faults : Nat]
  BY DEF CancelPending, StoreCancel, Edit, Aside, planning, history, CutoverInv, TypeOK
<1>2. mem.recs[r] \in Record /\ mem.recs[r].status = "pending"
  BY <1>1, Fields DEF CutoverInv, IsPending, Known
<1>3. Hold("cancel", r, [mem EXCEPT !.recs[r] = Cancelled(mem.recs[r])])
  BY DEF CancelPending, StoreCancel
<1>4. /\ Cancelled(mem.recs[r]) \in Record /\ Cancelled(mem.recs[r]).status = "cancelled"
      /\ Cancelled(mem.recs[r]) # NoRecord
  BY <1>2, RecordKinds
<1>5. mem'.recs[r] = Cancelled(mem.recs[r]) /\ saving' = [op |-> "cancel", r |-> r]
  BY <1>3, <1>4, Held DEF CutoverInv
<1>6. /\ mode' = "legacy" /\ mode = "legacy" /\ task' = task /\ file' = file /\ left' = left
      /\ rows' = rows /\ (Fresh(r)' <=> Fresh(r)) /\ (SentOnce(r)' <=> SentOnce(r))
      /\ accepted' = accepted /\ cancelled' = cancelled /\ idle' = idle /\ excused' = excused
      /\ marker' = marker /\ reading' = reading /\ (Untried(r)' <=> Untried(r))
      /\ saving = Unlocked
  BY <1>1 DEF Aside, Running, Fresh, SentOnce, Untried
<1>7. /\ ~Saves("create", r)' /\ Saves("cancel", r)' /\ ~Saves("mark", r)'
      /\ Unrecorded(r)' <=> Unrecorded(r)
      /\ ~Saves("create", r)
  BY <1>5, <1>6 DEF Saves, Unrecorded, Unlocked
<1>8. /\ Sane(r) /\ r \notin cancelled /\ ~FiredIn(mem.recs, r) /\ ~FiredIn(file.recs, r)
  BY <1>1, <1>2, <1>6 DEF CutoverInv, Sane, Rests, MemoryHolds, FiredIn
<1>9. /\ ~IsPending(r)' /\ CancelledIn(mem.recs, r)' /\ mem'.recs[r] # NoRecord
      /\ (Delivered(r)' <=> Delivered(r)) /\ (Native(r)' <=> Native(r))
      /\ (Open(r)' <=> Open(r)) /\ ~Native(r)
      /\ (PendingIn(file.recs, r)' <=> PendingIn(file.recs, r))
      /\ ~FiredIn(file.recs, r)'
  BY <1>2, <1>4, <1>5, <1>6, <1>8 DEF IsPending, Known, CancelledIn, Delivered, Native, Open,
     PendingIn, FiredIn, Sane, Imported, CutoverAssumption
<1>10. Sane(r)'
  <2>91. Stopped(r)' /\ InMemory(r)'
    BY <1>5, <1>6, <1>7, <1>8, <1>9 DEF Stopped, InMemory, Sane
  <2>92. MemoryHolds(r)'
    BY <1>5, <1>6, <1>7, <1>8, <1>9 DEF MemoryHolds, Sane
  <2>93. Imported(r)'
    BY <1>5, <1>6, <1>7, <1>8, <1>9 DEF Imported, FiredIn, Sane
  <2>94. Kept(r)' /\ Timed(r)' /\ Rests(r)'
    BY <1>5, <1>6, <1>7, <1>8, <1>9 DEF Kept, Timed, Rests, Sane
  <2>95. Once(r)'
    BY <1>5, <1>6, <1>7, <1>8, <1>9 DEF Once, Unsent, NoTask, Sane
  <2> QED BY <2>91, <2>92, <2>93, <2>94, <2>95 DEF Sane
<1> QED BY <1>1, <1>3, <1>4, <1>10, HoldKeeps

LEMMA MarkFiredKeeps ==
  ASSUME CutoverAssumption, CutoverInv, NEW r \in Reminders, MarkFired(r)
  PROVE  CutoverInv'
<1>1. /\ Running /\ UNCHANGED Aside /\ task[r] = "marking" /\ mode = "legacy"
      /\ budget' \in [starts : Nat, edits : Nat, faults : Nat]
  BY DEF MarkFired, Running, Aside, planning, history, CutoverInv, TypeOK
<1>2. Sane(r)
  BY DEF CutoverInv
<1>3. mem.recs[r] \in Record /\ mem.recs[r] # NoRecord /\ file.recs[r] # NoRecord /\ ~Native(r)
  BY <1>1, <1>2, Fields DEF CutoverInv, Sane, MemoryHolds, Imported, NoTask
<1>4. Hold("mark", r, [mem EXCEPT !.recs[r] = Fired(mem.recs[r])])
  BY DEF MarkFired, StoreMark
<1>5. /\ Fired(mem.recs[r]) \in Record /\ Fired(mem.recs[r]).status = "fired"
      /\ Fired(mem.recs[r]) # NoRecord
  BY <1>3, RecordKinds
<1>6. mem'.recs[r] = Fired(mem.recs[r]) /\ saving' = [op |-> "mark", r |-> r]
  BY <1>4, <1>5, Held DEF CutoverInv
<1>7. /\ mode' = "legacy" /\ task' = task /\ file' = file /\ left' = left
      /\ rows' = rows /\ (Fresh(r)' <=> Fresh(r)) /\ (SentOnce(r)' <=> SentOnce(r))
      /\ accepted' = accepted /\ cancelled' = cancelled /\ idle' = idle /\ excused' = excused
      /\ marker' = marker /\ reading' = reading /\ (Untried(r)' <=> Untried(r))
  BY <1>1 DEF Aside, Running, Fresh, SentOnce, Untried
<1>8. ~Saves("create", r)' /\ ~Saves("cancel", r)' /\ Saves("mark", r)' /\ Unrecorded(r)'
  BY <1>1, <1>6, <1>7 DEF Saves, Unrecorded
<1>9. /\ ~IsPending(r)' /\ FiredIn(mem.recs, r)' /\ mem'.recs[r] # NoRecord
      /\ (Delivered(r)' <=> Delivered(r)) /\ ~Native(r)'
      /\ (Open(r)' <=> Open(r)) /\ (FiredIn(file.recs, r)' <=> FiredIn(file.recs, r))
      /\ r \notin cancelled
  BY <1>1, <1>2, <1>3, <1>5, <1>6, <1>7 DEF IsPending, Known, Delivered, Native, Open, FiredIn,
     Sane, Rests, NoTask
<1>10. Sane(r)'
  <2>91. Stopped(r)' /\ InMemory(r)'
    BY <1>1, <1>2, <1>3, <1>6, <1>7, <1>8, <1>9 DEF Stopped, InMemory, Sane
  <2>92. MemoryHolds(r)'
    BY <1>1, <1>2, <1>3, <1>6, <1>7, <1>8, <1>9 DEF MemoryHolds, Sane
  <2>93. Imported(r)'
    BY <1>1, <1>2, <1>3, <1>6, <1>7, <1>8, <1>9 DEF Imported, FiredIn, Sane
  <2>94. Kept(r)' /\ Timed(r)' /\ Rests(r)'
    BY <1>1, <1>2, <1>3, <1>6, <1>7, <1>8, <1>9 DEF Kept, Timed, Rests, Sane
  <2>95. Once(r)'
    BY <1>1, <1>2, <1>3, <1>6, <1>7, <1>8, <1>9 DEF Once, Unsent, NoTask, Sane
  <2> QED BY <2>91, <2>92, <2>93, <2>94, <2>95 DEF Sane
<1> QED BY <1>1, <1>4, <1>5, <1>10, HoldKeeps

LEMMA ToggleKeeps ==
  ASSUME CutoverAssumption, CutoverInv, NEW c \in Channels, Toggle(c)
  PROVE  CutoverInv'
<1>1. /\ mode = "legacy" /\ mode' = mode /\ saving = Unlocked /\ task' = task /\ left' = left
      /\ rows' = rows /\ marker' = marker /\ reading' = reading /\ file' = file
      /\ sent' = sent /\ unheard' = unheard /\ cancelled' = cancelled /\ accepted' = accepted
      /\ excused' = excused /\ idle' = idle
      /\ budget' \in [starts : Nat, edits : Nat, faults : Nat]
  BY DEF Toggle, Running, Edit, planning, history, CutoverInv, TypeOK
<1>2. /\ mem' = [mem EXCEPT !.on = Toggled(mem.on, c)]
      /\ saving' = [op |-> "settings", r |-> NoRecord]
  BY DEF Toggle, StoreSettings, Hold
<1>3. mem' \in Store /\ mem'.recs = mem.recs
  <2>1. Toggled(mem.on, c) \subseteq Channels
    BY Fields DEF Toggled, CutoverInv
  <2> QED BY <1>2, <2>1 DEF CutoverInv, TypeOK, Store
<1>4. ASSUME NEW x \in Reminders
      PROVE  Sane(x)'
  <2>1. saving.r # x /\ saving'.r # x
    BY <1>1, <1>2 DEF Unlocked, CutoverAssumption
  <2> QED BY <1>1, <1>3, <2>1, Untouched
<1>5. TypeOK'
  BY <1>1, <1>2, <1>3 DEF CutoverInv, TypeOK
<1> QED BY <1>1, <1>4, <1>5 DEF CutoverInv

LEMMA CancelOtherKeeps ==
  ASSUME CutoverAssumption, CutoverInv, NEW r \in Reminders, CancelOther(r)
  PROVE  CutoverInv'
<1>1. /\ mode = "legacy" /\ mode' = mode /\ saving = Unlocked /\ saving' = saving /\ left' = left
      /\ mem' = mem /\ rows' = rows /\ marker' = marker /\ reading' = reading /\ file' = file
      /\ sent' = sent /\ unheard' = unheard
      /\ cancelled' = cancelled /\ accepted' = accepted /\ idle' = idle
      /\ task' = [task EXCEPT ![r] = NoTask] /\ Known(r) /\ ~IsPending(r)
      /\ excused' = IF Unrecorded(r) THEN excused \cup {r} ELSE excused
      /\ budget' \in [starts : Nat, edits : Nat, faults : Nat]
  BY DEF CancelOther, Running, Edit, planning, CutoverInv, TypeOK
<1>2. /\ task'[r] = NoTask /\ \A x \in Reminders \ {r} : task'[x] = task[x]
      /\ TypeOK'
  BY <1>1 DEF CutoverInv, TypeOK, NoTask
<1>3. ASSUME NEW x \in Reminders, x # r
      PROVE  Sane(x)'
  <2>1. x \in excused' <=> x \in excused
    BY <1>1, <1>3
  <2> QED BY <1>1, <1>2, <1>3, <2>1, Untouched
<1>4. /\ Sane(r) /\ (r \in excused => r \in excused')
      /\ (r \notin excused' => ~Unrecorded(r)) /\ ~Unrecorded(r)'
      /\ ~Saves("create", r) /\ ~Saves("cancel", r) /\ ~Saves("mark", r)
      /\ ~Saves("create", r)' /\ ~Saves("cancel", r)' /\ ~Saves("mark", r)'
  BY <1>1, <1>2 DEF CutoverInv, Saves, Unrecorded, Unlocked, NoTask
<1>5. /\ (Fresh(r)' <=> Fresh(r)) /\ (SentOnce(r)' <=> SentOnce(r)) /\ ~IsPending(r)'
      /\ (Delivered(r)' <=> Delivered(r)) /\ (Native(r)' <=> Native(r))
      /\ (Open(r)' <=> Open(r)) /\ rows'[r] = rows[r]
      /\ (PendingIn(file.recs, r)' <=> PendingIn(file.recs, r))
      /\ (FiredIn(file.recs, r)' <=> FiredIn(file.recs, r))
      /\ (FiredIn(mem.recs, r)' <=> FiredIn(mem.recs, r))
  BY <1>1 DEF Fresh, SentOnce, IsPending, Known, Delivered, Native, Open, PendingIn, FiredIn
<1>6. Sane(r)'
  <2>91. Stopped(r)' /\ InMemory(r)'
    BY <1>1, <1>2, <1>4, <1>5 DEF Stopped, InMemory, Sane
  <2>92. MemoryHolds(r)'
    BY <1>1, <1>2, <1>4, <1>5 DEF MemoryHolds, Sane
  <2>93. Imported(r)'
    BY <1>1, <1>2, <1>4, <1>5 DEF Imported, FiredIn, Sane
  <2>94. Kept(r)' /\ Timed(r)' /\ Rests(r)'
    BY <1>1, <1>2, <1>4, <1>5 DEF Kept, Timed, Rests, Sane
  <2>95. Once(r)'
    BY <1>1, <1>2, <1>4, <1>5 DEF Once, Unsent, NoTask, Sane
  <2> QED BY <2>91, <2>92, <2>93, <2>94, <2>95 DEF Sane
<1> QED BY <1>1, <1>2, <1>3, <1>6 DEF CutoverInv

(* The file takes the memory as it is.                                       *)
LEMMA SaveSucceedsKeeps ==
  ASSUME CutoverAssumption, CutoverInv, SaveSucceeds
  PROVE  CutoverInv'
<1>1. /\ mode = "legacy" /\ mode' = mode /\ mem' = mem /\ left' = left /\ rows' = rows
      /\ marker' = marker /\ reading' = reading /\ sent' = sent /\ unheard' = unheard
      /\ excused' = excused
      /\ idle' = idle /\ budget' = budget /\ saving # Unlocked /\ saving' = Unlocked
      /\ file' \in Document /\ file'.recs = mem.recs
  BY Fields DEF SaveSucceeds, planning, CutoverInv
<1>2. /\ task' \in [Reminders -> {NoTask, "waiting", "sending", "sent", "marking"}]
      /\ accepted' \subseteq Reminders /\ cancelled' \subseteq Reminders
      /\ \A x \in Reminders :
           \/ /\ Saves("create", x) /\ task'[x] = "waiting"
              /\ x \in accepted' /\ (x \in cancelled' <=> x \in cancelled)
           \/ /\ Saves("cancel", x) /\ task'[x] = NoTask
              /\ x \in cancelled' /\ (x \in accepted' <=> x \in accepted)
           \/ /\ Saves("mark", x) /\ task'[x] = NoTask
              /\ (x \in cancelled' <=> x \in cancelled) /\ (x \in accepted' <=> x \in accepted)
           \/ /\ ~Saves("create", x) /\ ~Saves("cancel", x) /\ ~Saves("mark", x)
              /\ task'[x] = task[x]
              /\ (x \in cancelled' <=> x \in cancelled) /\ (x \in accepted' <=> x \in accepted)
  <2>1. CASE saving.op = "create"
    <3>1. /\ task' = [task EXCEPT ![saving.r] = "waiting"] /\ saving.r \in Reminders
          /\ accepted' = accepted \cup {saving.r} /\ cancelled' = cancelled
      BY <2>1, Fields DEF SaveSucceeds, AfterSave, CutoverInv
    <3>2. saving = [op |-> "create", r |-> saving.r]
      BY <2>1 DEF CutoverInv, TypeOK, Unlocked
    <3> QED BY <3>1, <3>2 DEF Saves, CutoverInv, TypeOK
  <2>2. CASE saving.op = "cancel"
    <3>1. /\ task' = [task EXCEPT ![saving.r] = NoTask] /\ saving.r \in Reminders
          /\ cancelled' = cancelled \cup {saving.r} /\ accepted' = accepted
      BY <2>2, Fields DEF SaveSucceeds, AfterSave, CutoverInv
    <3>2. saving = [op |-> "cancel", r |-> saving.r]
      BY <2>2 DEF CutoverInv, TypeOK, Unlocked
    <3> QED BY <3>1, <3>2 DEF Saves, CutoverInv, TypeOK
  <2>3. CASE saving.op = "mark"
    <3>1. /\ task' = [task EXCEPT ![saving.r] = NoTask] /\ saving.r \in Reminders
          /\ cancelled' = cancelled /\ accepted' = accepted
      BY <2>3, Fields DEF SaveSucceeds, AfterSave, CutoverInv
    <3>2. saving = [op |-> "mark", r |-> saving.r]
      BY <2>3 DEF CutoverInv, TypeOK, Unlocked
    <3> QED BY <3>1, <3>2 DEF Saves, CutoverInv, TypeOK
  <2>4. CASE saving.op = "settings"
    <3>1. task' = task /\ cancelled' = cancelled /\ accepted' = accepted
      BY <2>4 DEF SaveSucceeds, AfterSave
    <3>2. \A x : ~Saves("create", x) /\ ~Saves("cancel", x) /\ ~Saves("mark", x)
      BY <2>4 DEF Saves
    <3> QED BY <3>1, <3>2 DEF CutoverInv, TypeOK
  <2> QED BY <1>1, <2>1, <2>2, <2>3, <2>4, Fields DEF CutoverInv
<1>3. TypeOK'
  BY <1>1, <1>2 DEF CutoverInv, TypeOK
<1>4. ASSUME NEW r \in Reminders
      PROVE  Sane(r)'
  <2>1. /\ Sane(r)
        /\ ~Saves("create", r)' /\ ~Saves("cancel", r)' /\ ~Saves("mark", r)'
        /\ (Fresh(r)' <=> Fresh(r)) /\ (SentOnce(r)' <=> SentOnce(r))
        /\ (Untried(r)' <=> Untried(r)) /\ (IsPending(r)' <=> IsPending(r))
        /\ (Delivered(r)' <=> Delivered(r)) /\ (Native(r)' <=> Native(r))
        /\ (Open(r)' <=> Open(r))
        /\ (PendingIn(file.recs, r)' <=> IsPending(r))
        /\ (FiredIn(file.recs, r)' <=> FiredIn(mem.recs, r))
        /\ (FiredIn(mem.recs, r)' <=> FiredIn(mem.recs, r))
        /\ (FiredIn(reading.recs, r)' <=> FiredIn(reading.recs, r))
        /\ (IsPending(r) => ~FiredIn(mem.recs, r) /\ ~CancelledIn(mem.recs, r))
        /\ (PendingIn(mem.recs, r) <=> IsPending(r))
        /\ (CancelledIn(mem.recs, r) => mem.recs[r] # NoRecord)
        /\ (FiredIn(mem.recs, r) => mem.recs[r] # NoRecord)
        /\ (IsPending(r) => mem.recs[r] # NoRecord)
    BY <1>1 DEF CutoverInv, Saves, Unlocked, Fresh, SentOnce, Untried, IsPending, Known,
       Delivered, Native, Open, PendingIn, FiredIn, CancelledIn
  <2>2. \/ /\ Saves("create", r) /\ task'[r] = "waiting"
           /\ r \in accepted' /\ (r \in cancelled' <=> r \in cancelled)
        \/ /\ Saves("cancel", r) /\ task'[r] = NoTask
           /\ r \in cancelled' /\ (r \in accepted' <=> r \in accepted)
        \/ /\ Saves("mark", r) /\ task'[r] = NoTask
           /\ (r \in cancelled' <=> r \in cancelled) /\ (r \in accepted' <=> r \in accepted)
        \/ /\ ~Saves("create", r) /\ ~Saves("cancel", r) /\ ~Saves("mark", r)
           /\ task'[r] = task[r]
           /\ (r \in cancelled' <=> r \in cancelled) /\ (r \in accepted' <=> r \in accepted)
    BY <1>2
  <2>3. /\ Unrecorded(r) <=> task[r] \in {"sent", "marking"} \/ Saves("mark", r)
        /\ Unrecorded(r)' <=> task'[r] \in {"sent", "marking"}
    BY <1>1 DEF Unrecorded, Saves, Unlocked
  <2>4. Stopped(r) /\ InMemory(r) /\ MemoryHolds(r) /\ Imported(r) /\ Kept(r) /\ Timed(r)
        /\ Once(r) /\ Rests(r)
    BY <2>1 DEF Sane
  <2>91. Stopped(r)' /\ InMemory(r)'
    BY <1>1, <2>1, <2>2, <2>3, <2>4 DEF Stopped, InMemory
  <2>92. MemoryHolds(r)'
    BY <1>1, <2>1, <2>2, <2>3, <2>4 DEF MemoryHolds, InMemory
  <2>93. Imported(r)'
    BY <1>1, <2>1, <2>2, <2>3, <2>4 DEF Imported, MemoryHolds
  <2>94. Kept(r)' /\ Timed(r)' /\ Rests(r)'
    BY <1>1, <2>1, <2>2, <2>3, <2>4 DEF Kept, Timed, Rests, InMemory, MemoryHolds, NoTask
  <2>95. Once(r)'
    BY <1>1, <2>1, <2>2, <2>3, <2>4 DEF Once, Unsent, NoTask, InMemory, MemoryHolds
  <2> QED BY <2>91, <2>92, <2>93, <2>94, <2>95 DEF Sane
<1> QED BY <1>1, <1>3, <1>4 DEF CutoverInv

LEMMA SaveFailsKeeps ==
  ASSUME CutoverAssumption, CutoverInv, SaveFails
  PROVE  CutoverInv'
<1>1. /\ mode = "legacy" /\ mode' = mode /\ mem' = mem /\ left' = left /\ rows' = rows
      /\ marker' = marker /\ reading' = reading /\ sent' = sent /\ unheard' = unheard
      /\ file' = file
      /\ accepted' = accepted /\ cancelled' = cancelled
      /\ saving # Unlocked /\ saving' = Unlocked
      /\ budget' \in [starts : Nat, edits : Nat, faults : Nat]
      /\ task' = IF saving.op = "mark" THEN [task EXCEPT ![saving.r] = NoTask] ELSE task
      /\ excused' = IF saving.op = "mark" THEN excused \cup {saving.r} ELSE excused
      /\ idle' = IF saving.op = "create" THEN idle \cup {saving.r} ELSE idle
  BY DEF SaveFails, Fault, planning, CutoverInv, TypeOK
<1>2. /\ saving.op = "create" => saving = [op |-> "create", r |-> saving.r]
      /\ saving.op = "mark" => saving = [op |-> "mark", r |-> saving.r]
      /\ saving.op \in {"create", "mark"} => saving.r \in Reminders
  BY DEF CutoverInv, TypeOK, Unlocked
<1>3. /\ task' \in [Reminders -> {NoTask, "waiting", "sending", "sent", "marking"}]
      /\ excused' \subseteq Reminders /\ idle' \subseteq Reminders
  BY <1>1, <1>2 DEF CutoverInv, TypeOK, NoTask
<1>4. ASSUME NEW r \in Reminders
      PROVE  /\ Saves("create", r) => r \in idle'
             /\ Saves("mark", r) => r \in excused' /\ task'[r] = NoTask
             /\ ~Saves("mark", r) => task'[r] = task[r] /\ (r \in excused' <=> r \in excused)
             /\ r \in idle => r \in idle'
             /\ r \in excused => r \in excused'
  <2>1. /\ Saves("create", r) => saving.op = "create" /\ saving.r = r
        /\ Saves("mark", r) <=> saving.op = "mark" /\ saving.r = r
    BY <1>2 DEF Saves
  <2>2. task \in [Reminders -> {NoTask, "waiting", "sending", "sent", "marking"}]
    BY DEF CutoverInv, TypeOK
  <2> QED BY <1>1, <2>1, <2>2
<1>5. TypeOK'
  BY <1>1, <1>3 DEF CutoverInv, TypeOK
<1>6. ASSUME NEW r \in Reminders
      PROVE  Sane(r)'
  <2>1. /\ Sane(r)
        /\ ~Saves("create", r)' /\ ~Saves("cancel", r)' /\ ~Saves("mark", r)'
        /\ (Fresh(r)' <=> Fresh(r)) /\ (SentOnce(r)' <=> SentOnce(r))
        /\ (Untried(r)' <=> Untried(r)) /\ (IsPending(r)' <=> IsPending(r))
        /\ (Delivered(r)' <=> Delivered(r)) /\ (Native(r)' <=> Native(r))
        /\ (Open(r)' <=> Open(r))
        /\ (PendingIn(file.recs, r)' <=> PendingIn(file.recs, r))
        /\ (FiredIn(file.recs, r)' <=> FiredIn(file.recs, r))
        /\ (FiredIn(mem.recs, r)' <=> FiredIn(mem.recs, r))
        /\ (FiredIn(reading.recs, r)' <=> FiredIn(reading.recs, r))
        /\ (IsPending(r) => ~FiredIn(mem.recs, r) /\ ~CancelledIn(mem.recs, r))
    BY <1>1 DEF CutoverInv, Saves, Unlocked, Fresh, SentOnce, Untried, IsPending, Known,
       Delivered, Native, Open, PendingIn, FiredIn, CancelledIn
  <2>2. /\ Saves("create", r) => r \in idle'
        /\ Saves("mark", r) => r \in excused' /\ task'[r] = NoTask
        /\ ~Saves("mark", r) => task'[r] = task[r] /\ (r \in excused' <=> r \in excused)
        /\ r \in idle => r \in idle'
        /\ r \in excused => r \in excused'
    BY <1>4
  <2>3. /\ Unrecorded(r) <=> task[r] \in {"sent", "marking"} \/ Saves("mark", r)
        /\ Unrecorded(r)' <=> task'[r] \in {"sent", "marking"}
    BY <1>1 DEF Unrecorded, Saves, Unlocked
  <2>4. Stopped(r) /\ InMemory(r) /\ MemoryHolds(r) /\ Imported(r) /\ Kept(r) /\ Timed(r)
        /\ Once(r) /\ Rests(r)
    BY <2>1 DEF Sane
  <2>91. Stopped(r)' /\ InMemory(r)'
    BY <1>1, <2>1, <2>2, <2>3, <2>4 DEF Stopped, InMemory
  <2>92. MemoryHolds(r)'
    BY <1>1, <2>1, <2>2, <2>3, <2>4 DEF MemoryHolds
  <2>93. Imported(r)'
    BY <1>1, <2>1, <2>2, <2>3, <2>4 DEF Imported
  <2>94. Kept(r)' /\ Timed(r)' /\ Rests(r)'
    BY <1>1, <2>1, <2>2, <2>3, <2>4 DEF Kept, Timed, Rests, InMemory
  <2>95. Once(r)'
    BY <1>1, <2>1, <2>2, <2>3, <2>4 DEF Once, Unsent
  <2> QED BY <2>91, <2>92, <2>93, <2>94, <2>95 DEF Sane
<1> QED BY <1>1, <1>5, <1>6 DEF CutoverInv

-----------------------------------------------------------------------------
(* The timers.                                                               *)
LEMMA FireKeeps ==
  ASSUME CutoverAssumption, CutoverInv, NEW r \in Reminders, Fire(r)
  PROVE  CutoverInv'
<1>1. /\ mode = "legacy" /\ mode' = mode /\ saving = Unlocked /\ saving' = saving
      /\ mem' = mem /\ rows' = rows /\ marker' = marker /\ reading' = reading /\ file' = file
      /\ sent' = sent /\ unheard' = unheard
      /\ cancelled' = cancelled /\ accepted' = accepted /\ idle' = idle
      /\ excused' = excused /\ budget' = budget /\ task[r] = "waiting"
      /\ \/ /\ IsPending(r) /\ left' = [left EXCEPT ![r] = mem.on]
            /\ task' = [task EXCEPT ![r] = IF mem.on = {} THEN "marking" ELSE "sending"]
         \/ /\ ~IsPending(r) /\ left' = left /\ task' = [task EXCEPT ![r] = NoTask]
  BY DEF Fire, Running, planning, history
<1>2. /\ \/ IsPending(r) /\ task'[r] \in {"marking", "sending"}
         \/ ~IsPending(r) /\ task'[r] = NoTask
      /\ \A x \in Reminders \ {r} : task'[x] = task[x] /\ left'[x] = left[x]
  BY <1>1 DEF CutoverInv, TypeOK
<1>10. TypeOK'
  <2>1. left' \in [Reminders -> SUBSET Channels]
    BY <1>1, Fields DEF CutoverInv, TypeOK
  <2>2. task' \in [Reminders -> {NoTask, "waiting", "sending", "sent", "marking"}]
    BY <1>1 DEF CutoverInv, TypeOK
  <2> QED BY <1>1, <2>1, <2>2 DEF CutoverInv, TypeOK
<1>3. ASSUME NEW x \in Reminders, x # r
      PROVE  Sane(x)'
  BY <1>1, <1>2, <1>3, Untouched
<1>4. /\ Sane(r)
      /\ ~Saves("create", r)' /\ ~Saves("cancel", r)' /\ ~Saves("mark", r)'
      /\ (Unrecorded(r)' <=> task'[r] = "marking")
  BY <1>1, <1>2 DEF CutoverInv, Saves, Unrecorded, Unlocked, NoTask
<1>5. /\ (Fresh(r)' <=> Fresh(r)) /\ (SentOnce(r)' <=> SentOnce(r))
      /\ (IsPending(r)' <=> IsPending(r))
      /\ (Delivered(r)' <=> Delivered(r)) /\ (Native(r)' <=> Native(r))
      /\ (Open(r)' <=> Open(r))
      /\ (PendingIn(file.recs, r)' <=> PendingIn(file.recs, r))
      /\ (FiredIn(file.recs, r)' <=> FiredIn(file.recs, r))
      /\ (FiredIn(mem.recs, r)' <=> FiredIn(mem.recs, r))
      /\ (FiredIn(reading.recs, r)' <=> FiredIn(reading.recs, r))
  BY <1>1 DEF Fresh, SentOnce, IsPending, Known, Delivered, Native, Open, PendingIn, FiredIn
<1>6. Stopped(r) /\ InMemory(r) /\ MemoryHolds(r) /\ Imported(r) /\ Kept(r) /\ Timed(r)
      /\ Once(r) /\ Rests(r)
  BY <1>4 DEF Sane
<1>7. Sane(r)'
  <2>91. Stopped(r)' /\ InMemory(r)'
    BY <1>1, <1>2, <1>4, <1>5, <1>6 DEF Stopped, InMemory
  <2>92. MemoryHolds(r)'
    BY <1>1, <1>2, <1>4, <1>5, <1>6 DEF MemoryHolds, NoTask
  <2>93. Imported(r)'
    BY <1>1, <1>2, <1>4, <1>5, <1>6 DEF Imported
  <2>94. Kept(r)' /\ Timed(r)' /\ Rests(r)'
    BY <1>1, <1>2, <1>4, <1>5, <1>6 DEF Kept, Timed, Rests, NoTask
  <2>95. Once(r)'
    BY <1>1, <1>2, <1>4, <1>5, <1>6 DEF Once, Unsent, NoTask
  <2> QED BY <2>91, <2>92, <2>93, <2>94, <2>95 DEF Sane
<1> QED BY <1>1, <1>3, <1>7, <1>10 DEF CutoverInv

LEMMA SendToKeeps ==
  ASSUME CutoverAssumption, CutoverInv, NEW r \in Reminders, NEW c \in Channels,
         NEW took \in BOOLEAN, SendTo(r, c, took)
  PROVE  CutoverInv'
<1> DEFINE any == took \/ task[r] = "sent"
           rest == left[r] \ {c}
<1>1. /\ mode = "legacy" /\ mode' = mode /\ saving' = saving
      /\ mem' = mem /\ rows' = rows /\ marker' = marker /\ reading' = reading /\ file' = file
      /\ cancelled' = cancelled /\ accepted' = accepted /\ excused' = excused
      /\ task[r] \in {"sending", "sent"} /\ c \in left[r]
      /\ budget' = budget /\ unheard' = unheard
      /\ sent' = IF took THEN [sent EXCEPT ![<<r, c>>] = @ + 1] ELSE sent
      /\ left' = [left EXCEPT ![r] = rest]
      /\ idle' = IF rest = {} /\ ~any THEN idle \cup {r} ELSE idle
  BY DEF SendTo, AfterChannel, planning
<1>2. \/ any /\ rest # {} /\ task' = [task EXCEPT ![r] = "sent"]
      \/ ~any /\ rest # {} /\ task' = [task EXCEPT ![r] = "sending"]
      \/ any /\ rest = {} /\ task' = [task EXCEPT ![r] = "marking"]
      \/ ~any /\ rest = {} /\ task' = [task EXCEPT ![r] = NoTask]
  <2>1. task' = [task EXCEPT ![r] = CASE rest # {} -> IF any THEN "sent" ELSE "sending"
                                      [] rest = {} /\ any -> "marking"
                                      [] OTHER -> NoTask]
    BY DEF SendTo, AfterChannel
  <2> QED BY <2>1
<1>3. /\ left'[r] = rest /\ \A x \in Reminders \ {r} : left'[x] = left[x] /\ task'[x] = task[x]
      /\ \A x \in Reminders \ {r} : \A d \in Channels : sent'[<<x, d>>] = sent[<<x, d>>]
      /\ \A d \in Channels \ {c} : sent'[<<r, d>>] = sent[<<r, d>>]
      /\ sent[<<r, c>>] \in Nat /\ unheard[<<r, c>>] \in Nat
      /\ sent'[<<r, c>>] = IF took THEN sent[<<r, c>>] + 1 ELSE sent[<<r, c>>]
      /\ \/ any /\ task'[r] = "sent"
         \/ ~any /\ task'[r] = "sending"
         \/ any /\ task'[r] = "marking"
         \/ ~any /\ task'[r] = NoTask /\ r \in idle'
      /\ r \in idle => r \in idle'
      /\ \A x \in Reminders \ {r} : x \in idle' <=> x \in idle
  BY <1>1, <1>2 DEF CutoverInv, TypeOK
<1>4. TypeOK'
  BY <1>1, <1>2 DEF CutoverInv, TypeOK, NoTask
<1>5. ASSUME NEW x \in Reminders, x # r
      PROVE  Sane(x)'
  BY <1>1, <1>3, <1>5, Untouched
<1>6. /\ Sane(r) /\ left[r] \subseteq Channels
      /\ ~Saves("create", r)' /\ (Saves("cancel", r)' <=> Saves("cancel", r))
      /\ ~Saves("mark", r)' /\ ~Saves("create", r) /\ ~Saves("mark", r)
  <2>1. Sane(r) /\ left[r] \subseteq Channels
    BY DEF CutoverInv, TypeOK
  <2>2. ~Saves("create", r) /\ ~Saves("mark", r)
    BY <1>1, <2>1 DEF Sane, InMemory, NoTask
  <2> QED BY <1>1, <2>1, <2>2 DEF Saves
<1>7. /\ (Unrecorded(r)' <=> task'[r] \in {"sent", "marking"})
      /\ (Unrecorded(r) <=> task[r] = "sent")
  BY <1>1, <1>6 DEF Unrecorded, Saves
<1>8. r \notin excused => /\ SentOnce(r)' /\ (~any => Fresh(r)') /\ (task'[r] = "sent" => Untried(r)')
  <2>1. r \notin excused => /\ sent[<<r, c>>] = unheard[<<r, c>>] /\ SentOnce(r)
                            /\ (~any => Fresh(r))
                            /\ \A d \in left[r] : sent[<<r, d>>] = unheard[<<r, d>>]
    BY <1>1, <1>6 DEF Sane, Once, Unsent, Untried, Fresh
  <2> QED BY <1>1, <1>3, <1>6, <2>1 DEF SentOnce, Fresh, Untried
<1>9. /\ (IsPending(r)' <=> IsPending(r))
      /\ (Delivered(r)' <=> Delivered(r)) /\ (Native(r)' <=> Native(r))
      /\ (Open(r)' <=> Open(r))
      /\ (PendingIn(file.recs, r)' <=> PendingIn(file.recs, r))
      /\ (FiredIn(file.recs, r)' <=> FiredIn(file.recs, r))
      /\ (FiredIn(mem.recs, r)' <=> FiredIn(mem.recs, r))
      /\ (CancelledIn(mem.recs, r)' <=> CancelledIn(mem.recs, r))
      /\ (FiredIn(reading.recs, r)' <=> FiredIn(reading.recs, r))
  BY <1>1 DEF IsPending, Known, Delivered, Native, Open, PendingIn, FiredIn, CancelledIn
<1>10. /\ Stopped(r) /\ InMemory(r) /\ MemoryHolds(r) /\ Imported(r) /\ Kept(r) /\ Timed(r)
       /\ Once(r) /\ Rests(r) /\ file.recs[r] # NoRecord /\ ~Native(r)
  BY <1>1, <1>6 DEF Sane, MemoryHolds, Imported, NoTask
<1> HIDE DEF any, rest
<1>11. Sane(r)'
  <2>91. Stopped(r)' /\ InMemory(r)'
    BY <1>1, <1>3, <1>6, <1>7, <1>8, <1>9, <1>10 DEF Stopped, InMemory
  <2>92. MemoryHolds(r)'
    BY <1>1, <1>3, <1>6, <1>7, <1>8, <1>9, <1>10 DEF MemoryHolds
  <2>93. Imported(r)'
    BY <1>1, <1>3, <1>6, <1>7, <1>8, <1>9, <1>10 DEF Imported
  <2>94. Kept(r)' /\ Timed(r)' /\ Rests(r)'
    BY <1>1, <1>3, <1>6, <1>7, <1>8, <1>9, <1>10 DEF Kept, Timed, Rests, NoTask
  <2>95. Once(r)'
    BY <1>1, <1>3, <1>6, <1>7, <1>8, <1>9, <1>10 DEF Once, Unsent
  <2> QED BY <2>91, <2>92, <2>93, <2>94, <2>95 DEF Sane
<1> QED BY <1>1, <1>4, <1>5, <1>11 DEF CutoverInv

(* An exception ends the timer; what a channel was heard to take is excused. *)
LEMMA TimerBreaksKeeps ==
  ASSUME CutoverAssumption, CutoverInv, NEW r \in Reminders, TimerBreaks(r)
  PROVE  CutoverInv'
<1>1. /\ mode = "legacy" /\ mode' = mode /\ saving' = saving /\ left' = left
      /\ mem' = mem /\ rows' = rows /\ marker' = marker /\ reading' = reading /\ file' = file
      /\ sent' = sent /\ unheard' = unheard /\ cancelled' = cancelled /\ accepted' = accepted
      /\ task[r] \in {"sending", "sent"} /\ task' = [task EXCEPT ![r] = NoTask]
      /\ idle' = idle \cup {r}
      /\ excused' = IF Unrecorded(r) THEN excused \cup {r} ELSE excused
      /\ budget' \in [starts : Nat, edits : Nat, faults : Nat]
  BY DEF TimerBreaks, Fault, planning, CutoverInv, TypeOK
<1>2. /\ task'[r] = NoTask /\ \A x \in Reminders \ {r} : task'[x] = task[x]
      /\ TypeOK'
  BY <1>1 DEF CutoverInv, TypeOK, NoTask
<1>3. ASSUME NEW x \in Reminders, x # r
      PROVE  Sane(x)'
  <2>1. (x \in excused' <=> x \in excused) /\ (x \in idle' <=> x \in idle)
    BY <1>1, <1>3
  <2> QED BY <1>1, <1>2, <1>3, <2>1, Untouched
<1>4. /\ Sane(r) /\ file.recs[r] # NoRecord /\ ~Saves("create", r) /\ ~Saves("mark", r)
  <2>1. Sane(r)
    BY DEF CutoverInv
  <2> QED BY <1>1, <2>1 DEF Sane, InMemory, MemoryHolds, NoTask
<1>5. /\ ~Saves("create", r)' /\ (Saves("cancel", r)' <=> Saves("cancel", r))
      /\ ~Saves("mark", r)' /\ ~Unrecorded(r)'
      /\ (Unrecorded(r) => r \in excused') /\ (r \in excused => r \in excused')
      /\ (r \notin excused' => ~Unrecorded(r) /\ r \notin excused) /\ r \in idle'
  BY <1>1, <1>2, <1>4 DEF Saves, Unrecorded, NoTask
<1>6. /\ (Fresh(r)' <=> Fresh(r)) /\ (SentOnce(r)' <=> SentOnce(r))
      /\ (IsPending(r)' <=> IsPending(r))
      /\ (Delivered(r)' <=> Delivered(r)) /\ (Native(r)' <=> Native(r))
      /\ (Open(r)' <=> Open(r))
      /\ (PendingIn(file.recs, r)' <=> PendingIn(file.recs, r))
      /\ (FiredIn(file.recs, r)' <=> FiredIn(file.recs, r))
      /\ (FiredIn(mem.recs, r)' <=> FiredIn(mem.recs, r))
      /\ (CancelledIn(mem.recs, r)' <=> CancelledIn(mem.recs, r))
      /\ (FiredIn(reading.recs, r)' <=> FiredIn(reading.recs, r))
  BY <1>1 DEF Fresh, SentOnce, IsPending, Known, Delivered, Native, Open, PendingIn, FiredIn,
     CancelledIn
<1>7. Sane(r)'
  <2>91. Stopped(r)' /\ InMemory(r)'
    BY <1>1, <1>2, <1>4, <1>5, <1>6 DEF Stopped, InMemory, Sane
  <2>92. MemoryHolds(r)'
    BY <1>1, <1>2, <1>4, <1>5, <1>6 DEF MemoryHolds, Sane
  <2>93. Imported(r)'
    BY <1>1, <1>2, <1>4, <1>5, <1>6 DEF Imported, Sane
  <2>94. Kept(r)' /\ Timed(r)' /\ Rests(r)'
    BY <1>1, <1>2, <1>4, <1>5, <1>6 DEF Kept, Timed, Rests, Sane
  <2>95. Once(r)'
    BY <1>1, <1>2, <1>4, <1>5, <1>6 DEF Once, Unsent, NoTask, Sane
  <2> QED BY <2>91, <2>92, <2>93, <2>94, <2>95 DEF Sane
<1> QED BY <1>1, <1>2, <1>3, <1>7 DEF CutoverInv

(* A lost answer is one more message taken and one more not heard.           *)
LEMMA AnswerLostKeeps ==
  ASSUME CutoverAssumption, CutoverInv, NEW r \in Reminders, NEW c \in Channels,
         AnswerLost(r, c)
  PROVE  CutoverInv'
<1>1. /\ mode' = mode /\ saving' = saving /\ mem' = mem /\ task' = task /\ left' = left
      /\ rows' = rows /\ marker' = marker /\ reading' = reading /\ file' = file
      /\ cancelled' = cancelled /\ accepted' = accepted /\ excused' = excused /\ idle' = idle
      /\ sent' = [sent EXCEPT ![<<r, c>>] = @ + 1]
      /\ unheard' = [unheard EXCEPT ![<<r, c>>] = @ + 1]
      /\ budget' \in [starts : Nat, edits : Nat, faults : Nat]
  BY DEF AnswerLost, Fault, process, planning, CutoverInv, TypeOK
<1>2. TypeOK'
  BY <1>1 DEF CutoverInv, TypeOK
<1>3. ASSUME NEW x \in Reminders, NEW d \in Channels
      PROVE  /\ sent'[<<x, d>>] = unheard'[<<x, d>>] <=> sent[<<x, d>>] = unheard[<<x, d>>]
             /\ sent'[<<x, d>>] <= 1 + unheard'[<<x, d>>]
                  <=> sent[<<x, d>>] <= 1 + unheard[<<x, d>>]
  <2>1. /\ sent \in [Reminders \X Channels -> Nat] /\ unheard \in [Reminders \X Channels -> Nat]
        /\ <<x, d>> \in Reminders \X Channels
    BY DEF CutoverInv, TypeOK
  <2>2. CASE <<x, d>> = <<r, c>>
    <3>1. /\ sent'[<<x, d>>] = sent[<<x, d>>] + 1 /\ unheard'[<<x, d>>] = unheard[<<x, d>>] + 1
          /\ sent[<<x, d>>] \in Nat /\ unheard[<<x, d>>] \in Nat
      BY <1>1, <2>1, <2>2
    <3> QED BY <3>1
  <2>3. CASE <<x, d>> # <<r, c>>
    BY <1>1, <2>1, <2>3
  <2> QED BY <2>2, <2>3
<1>4. ASSUME NEW x \in Reminders
      PROVE  Sane(x)'
  <2>1. left[x] \subseteq Channels /\ left'[x] = left[x]
    BY <1>1 DEF CutoverInv, TypeOK
  <2>2. /\ Fresh(x)' <=> Fresh(x)
        /\ SentOnce(x)' <=> SentOnce(x)
        /\ Untried(x)' <=> Untried(x)
    BY <1>3, <2>1 DEF Fresh, SentOnce, Untried
  <2> QED BY <1>1, <2>2, NothingHeard
<1> QED BY <1>1, <1>2, <1>4 DEF CutoverInv

-----------------------------------------------------------------------------
(* The import and the process.                                               *)
LEMMA ReadSourceKeeps ==
  ASSUME CutoverAssumption, CutoverInv, ReadSource
  PROVE  CutoverInv'
<1>1. /\ mode' = mode /\ saving' = saving /\ task' = task /\ left' = left
      /\ mem' = mem /\ rows' = rows /\ marker' = marker /\ reading' = file /\ file' = file
      /\ sent' = sent /\ unheard' = unheard
      /\ cancelled' = cancelled /\ accepted' = accepted /\ idle' = idle
      /\ excused' = excused /\ budget' = budget
  BY DEF ReadSource, process, history
<1>2. TypeOK'
  BY <1>1 DEF CutoverInv, TypeOK
<1>3. ASSUME NEW r \in Reminders
      PROVE  Sane(r)'
  <2>1. Sane(r)
    BY DEF CutoverInv
  <2>2. Imported(r)'
    BY <1>1, <2>1 DEF Sane, Imported, Native, Delivered, FiredIn
  <2>3. Stopped(r)' /\ InMemory(r)' /\ MemoryHolds(r)'
    BY <1>1, <2>1 DEF Sane, Stopped, InMemory, MemoryHolds, Saves, Fresh
  <2>4. Kept(r)' /\ Timed(r)' /\ Rests(r)'
    BY <1>1, <2>1 DEF Sane, Kept, Timed, Rests, Native, IsPending, Known, Saves, Open
  <2>5. Once(r)'
    BY <1>1, <2>1 DEF Sane, Once, Unsent, SentOnce, Fresh, Untried, Native, Open, IsPending, 
       Known, Unrecorded, Delivered
  <2> QED BY <2>2, <2>3, <2>4, <2>5 DEF Sane
<1> QED BY <1>1, <1>2, <1>3 DEF CutoverInv

(* There are no rows before; what is delivered by the import was fired in    *)
(* the file it read, and still is.                                           *)
LEMMA ImportKeeps ==
  ASSUME CutoverAssumption, CutoverInv, Import
  PROVE  CutoverInv'
<1>1. /\ mode' = mode /\ saving' = saving /\ task' = task /\ left' = left
      /\ mem' = mem /\ marker' = reading /\ reading' = NoRecord /\ file' = file
      /\ sent' = sent /\ unheard' = unheard
      /\ cancelled' = cancelled /\ accepted' = accepted /\ idle' = idle
      /\ excused' = excused /\ budget' = budget /\ reading # NoRecord /\ marker = NoRecord
      /\ rows' = [r \in Reminders |-> IF reading.recs[r] = NoRecord THEN rows[r]
                                      ELSE RowOf(reading.recs[r])]
  BY DEF Import, process, history
<1>2. reading \in Document /\ reading.recs \in [Reminders -> Record \cup {NoRecord}]
  BY <1>1 DEF CutoverInv, TypeOK, Document
<1>3. ASSUME NEW r \in Reminders
      PROVE  /\ rows[r] = NoRecord /\ rows'[r] \in Row \cup {NoRecord}
             /\ ~Native(r)' /\ (Delivered(r)' => FiredIn(reading.recs, r))
  <2>1. rows[r] = NoRecord
    BY <1>1 DEF CutoverInv, Sane, Imported
  <2>2. CASE reading.recs[r] = NoRecord
    BY <1>1, <2>1, <2>2 DEF Native, Delivered
  <2>3. CASE reading.recs[r] # NoRecord
    <3>1. reading.recs[r] \in Record /\ rows'[r] = RowOf(reading.recs[r])
      BY <1>1, <1>2, <2>3
    <3>2. /\ rows'[r] \in Row /\ rows'[r].origin = "legacy"
          /\ rows'[r].delivery = "delivered" <=> reading.recs[r].status = "fired"
      BY <3>1, RowsOfRecords
    <3> QED BY <2>1, <2>3, <3>2 DEF Native, Delivered, FiredIn
  <2> QED BY <2>2, <2>3
<1>4. TypeOK'
  <2>1. rows' \in [Reminders -> Row \cup {NoRecord}]
    BY <1>1, <1>3
  <2> QED BY <1>1, <1>2, <2>1 DEF CutoverInv, TypeOK
<1>5. ASSUME NEW r \in Reminders
      PROVE  Sane(r)'
  <2>1. /\ Sane(r) /\ ~Native(r) /\ ~Delivered(r) /\ ~Open(r) /\ mode # "planning"
        /\ (PendingIn(file.recs, r)' <=> PendingIn(file.recs, r))
        /\ (FiredIn(file.recs, r)' <=> FiredIn(file.recs, r))
        /\ rows[r] = NoRecord /\ ~Native(r)' /\ (Delivered(r)' => FiredIn(reading.recs, r))
    BY <1>1, <1>3 DEF CutoverInv, Native, Delivered, Open, PendingIn, FiredIn
  <2>2. Imported(r)'
    BY <1>1, <2>1 DEF Sane, Imported
  <2>3. Stopped(r)' /\ InMemory(r)' /\ MemoryHolds(r)'
    BY <1>1, <2>1 DEF Sane, Stopped, InMemory, MemoryHolds, Saves, Fresh
  <2>4. Kept(r)' /\ Timed(r)' /\ Rests(r)'
    BY <1>1, <2>1 DEF Sane, Kept, Timed, Rests, IsPending, Known, Saves
  <2>5. Once(r)'
    BY <1>1, <2>1 DEF Sane, Once, Unsent, SentOnce, Fresh, Untried, IsPending, 
       Known, Unrecorded
  <2> QED BY <2>2, <2>3, <2>4, <2>5 DEF Sane
<1>6. marker' # NoRecord
  BY <1>1
<1> QED BY <1>1, <1>4, <1>5, <1>6 DEF CutoverInv

(* The process ends: what was not recorded is excused, what the file holds   *)
(* or takes from the memory has not been sent.                               *)
LEMMA DownKeeps ==
  ASSUME CutoverAssumption, CutoverInv, Down, mode # "down",
         file' = file \/ (mode = "legacy" /\ file' = Saved(mem)),
         UNCHANGED <<rows, marker, reading, sent, unheard, cancelled, accepted>>,
         budget' \in [starts : Nat, edits : Nat, faults : Nat]
  PROVE  CutoverInv'
<1>1. /\ mode' = "down" /\ saving' = Unlocked /\ idle' = {}
      /\ mem' = [recs |-> [r \in Reminders |-> NoRecord], on |-> {}]
      /\ task' = [r \in Reminders |-> NoTask] /\ left' = [r \in Reminders |-> {}]
      /\ excused' = excused \cup {r \in Reminders : Unrecorded(r)}
  BY DEF Down
<1>2. TypeOK'
  <2>1. mem' \in Store
    BY <1>1 DEF Store
  <2>2. file' \in Document
    BY Fields DEF CutoverInv, TypeOK
  <2> QED BY <1>1, <2>1, <2>2 DEF CutoverInv, TypeOK, NoTask
<1>3. ASSUME NEW r \in Reminders
      PROVE  Sane(r)'
  <2>1. /\ Sane(r) /\ mem'.recs[r] = NoRecord /\ task'[r] = NoTask
        /\ (r \notin excused' => r \notin excused /\ ~Unrecorded(r))
        /\ (r \in excused => r \in excused')
        /\ ~Saves("create", r)' /\ ~Saves("cancel", r)' /\ ~Saves("mark", r)'
        /\ ~IsPending(r)'
    BY <1>1 DEF CutoverInv, Saves, Unlocked, IsPending, Known
  <2>2. \/ file'.recs[r] = file.recs[r]
        \/ mode = "legacy" /\ file'.recs[r] = mem.recs[r]
    BY Fields DEF CutoverInv
  <2>3. /\ (file.recs[r] # NoRecord => file'.recs[r] # NoRecord)
        /\ (FiredIn(file.recs, r) => FiredIn(file.recs, r)')
        /\ \/ PendingIn(file.recs, r)' => PendingIn(file.recs, r)
           \/ mode = "legacy" /\ (PendingIn(file.recs, r)' => IsPending(r))
    BY <2>1, <2>2 DEF Sane, MemoryHolds, FiredIn, PendingIn, IsPending, Known
  <2>4. /\ (Native(r)' <=> Native(r)) /\ (Open(r)' <=> Open(r))
        /\ (Delivered(r)' <=> Delivered(r)) /\ (Fresh(r)' <=> Fresh(r))
        /\ (SentOnce(r)' <=> SentOnce(r))
        /\ (FiredIn(reading.recs, r)' <=> FiredIn(reading.recs, r))
        /\ rows' = rows /\ marker' = marker /\ reading' = reading
        /\ cancelled' = cancelled /\ accepted' = accepted
    BY DEF Native, Open, Delivered, Fresh, SentOnce, FiredIn
  <2>5. Native(r) => file'.recs[r] = NoRecord
    BY <2>1, <2>2 DEF Sane, Imported
  <2>6. Stopped(r)' /\ InMemory(r)' /\ MemoryHolds(r)'
    BY <1>1, <2>1 DEF Stopped, InMemory, MemoryHolds
  <2>7. Imported(r)'
    BY <1>1, <2>1, <2>3, <2>4, <2>5 DEF Sane, Imported
  <2>8. Kept(r)' /\ Timed(r)' /\ Rests(r)'
    BY <1>1, <2>1, <2>3, <2>4 DEF Sane, Kept, Timed, Rests
  <2>9. Once(r)'
    BY <1>1, <2>1, <2>3, <2>4 DEF Sane, Once, Unsent, NoTask
  <2> QED BY <2>6, <2>7, <2>8, <2>9 DEF Sane
<1> QED BY <1>1, <1>2, <1>3 DEF CutoverInv

LEMMA CrashKeeps ==
  ASSUME CutoverAssumption, CutoverInv, Crash
  PROVE  CutoverInv'
<1>1. /\ Down /\ mode # "down"
      /\ file' = file \/ (mode = "legacy" /\ file' = Saved(mem))
  BY DEF Crash, CutoverInv
<1>2. UNCHANGED <<rows, marker, reading, sent, unheard, cancelled, accepted>>
  BY DEF Crash, planning
<1>3. budget' \in [starts : Nat, edits : Nat, faults : Nat]
  BY DEF Crash, Fault, CutoverInv, TypeOK
<1> QED BY <1>1, <1>2, <1>3, DownKeeps

LEMMA StopKeeps ==
  ASSUME CutoverAssumption, CutoverInv, Stop
  PROVE  CutoverInv'
<1>1. Down /\ mode # "down" /\ file' = file
  BY DEF Stop
<1>2. /\ UNCHANGED <<rows, marker, reading, sent, unheard, cancelled, accepted>>
      /\ budget' \in [starts : Nat, edits : Nat, faults : Nat]
  BY DEF Stop, planning, CutoverInv, TypeOK
<1> QED BY <1>1, <1>2, DownKeeps

LEMMA StartLegacyKeeps ==
  ASSUME CutoverAssumption, CutoverInv, StartLegacy
  PROVE  CutoverInv'
<1>1. /\ mode = "down" /\ mode' = "legacy" /\ mem' = Loaded(file) /\ mem' \in Store
      /\ mem'.recs = file.recs /\ file' = file /\ saving' = saving /\ saving = Unlocked
      /\ left' = left /\ rows' = rows /\ marker' = marker /\ reading' = reading
      /\ sent' = sent /\ unheard' = unheard
      /\ cancelled' = cancelled /\ accepted' = accepted /\ idle' = idle
      /\ excused' = excused \cup {r \in Reminders : Delivered(r)}
      /\ budget' \in [starts : Nat, edits : Nat, faults : Nat]
  BY Fields DEF StartLegacy, Launch, planning, CutoverInv, TypeOK
<1>2. \A r \in Reminders : /\ PendingIn(file.recs, r) => task'[r] = "waiting"
                           /\ ~PendingIn(file.recs, r) => task'[r] = NoTask
  BY DEF StartLegacy, PendingIn
<1>3. TypeOK'
  <2>1. task' \in [Reminders -> {NoTask, "waiting", "sending", "sent", "marking"}]
    BY DEF StartLegacy
  <2> QED BY <1>1, <2>1 DEF CutoverInv, TypeOK
<1>4. ASSUME NEW r \in Reminders
      PROVE  Sane(r)'
  <2>1. /\ Sane(r) /\ task[r] = NoTask
        /\ (r \notin excused' => r \notin excused /\ ~Delivered(r))
        /\ (r \in excused => r \in excused') /\ (Delivered(r) => r \in excused')
    BY <1>1 DEF CutoverInv, Sane, Stopped
  <2>2. /\ ~Saves("create", r)' /\ ~Saves("cancel", r)' /\ ~Saves("mark", r)'
        /\ ~Unrecorded(r)
    BY <1>1, <2>1 DEF Saves, Unlocked, Unrecorded, NoTask
  <2>3. /\ (Native(r)' <=> Native(r)) /\ (Open(r)' <=> Open(r))
        /\ (Delivered(r)' <=> Delivered(r)) /\ (Fresh(r)' <=> Fresh(r))
        /\ (SentOnce(r)' <=> SentOnce(r))
        /\ (FiredIn(reading.recs, r)' <=> FiredIn(reading.recs, r))
        /\ (FiredIn(file.recs, r)' <=> FiredIn(file.recs, r))
        /\ (FiredIn(mem.recs, r)' <=> FiredIn(file.recs, r))
        /\ (PendingIn(file.recs, r)' <=> PendingIn(file.recs, r))
        /\ (IsPending(r)' <=> PendingIn(file.recs, r))
        /\ (PendingIn(file.recs, r) => file.recs[r] # NoRecord)
    BY <1>1 DEF Native, Open, Delivered, Fresh, SentOnce, FiredIn, PendingIn, IsPending, Known
  <2>4. /\ PendingIn(file.recs, r) => task'[r] = "waiting"
        /\ ~PendingIn(file.recs, r) => task'[r] = NoTask
    BY <1>2
  <2>5. Stopped(r)' /\ InMemory(r)' /\ MemoryHolds(r)'
    BY <1>1, <2>1, <2>2, <2>3, <2>4 DEF Stopped, InMemory, MemoryHolds
  <2>6. Imported(r)'
    BY <1>1, <2>1, <2>3 DEF Sane, Imported
  <2>7. Kept(r)' /\ Timed(r)' /\ Rests(r)'
    BY <1>1, <2>1, <2>3, <2>4 DEF Sane, Kept, Timed, Rests, NoTask
  <2>8. Once(r)'
    BY <1>1, <2>1, <2>2, <2>3, <2>4 DEF Sane, Once, Unsent, NoTask
  <2> QED BY <2>5, <2>6, <2>7, <2>8 DEF Sane
<1> QED BY <1>1, <1>3, <1>4 DEF CutoverInv

(* The gate: every record of the file is its row, every other row was made   *)
(* in Planning.                                                              *)
LEMMA GateHolds ==
  ASSUME CutoverAssumption, CutoverInv, CutoverReady, NEW r \in Reminders
  PROVE  /\ file.recs[r] # NoRecord =>
              /\ rows[r] # NoRecord /\ (Open(r) <=> PendingIn(file.recs, r))
         /\ file.recs[r] = NoRecord => rows[r] = NoRecord \/ Native(r)
<1>1. CASE file.recs[r] = NoRecord
  BY <1>1, Fields DEF CutoverReady, Verified, Native, CutoverInv, TypeOK
<1>2. CASE file.recs[r] # NoRecord
  <2>1. file.recs[r] \in Record /\ rows[r] = RowOf(file.recs[r])
    BY <1>2, Fields DEF CutoverReady, Verified, CutoverInv
  <2>2. /\ RowOf(file.recs[r]) # NoRecord
        /\ RowOf(file.recs[r]).status = "pending" <=> file.recs[r].status = "pending"
    BY <2>1, RowsOfRecords
  <2> QED BY <1>2, <2>1, <2>2 DEF Open, PendingIn
<1> QED BY <1>1, <1>2

LEMMA StartPlanningKeeps ==
  ASSUME CutoverAssumption, CutoverInv, StartPlanning
  PROVE  CutoverInv'
<1>1. /\ mode = "down" /\ mem' = mem /\ file' = file /\ saving' = saving /\ saving = Unlocked
      /\ task' = task /\ left' = left /\ rows' = rows /\ marker' = marker
      /\ reading' = reading /\ excused' = excused
      /\ sent' = sent /\ unheard' = unheard
      /\ cancelled' = cancelled /\ accepted' = accepted /\ idle' = idle
      /\ mode' = IF CutoverReady THEN "planning" ELSE "down"
      /\ budget' \in [starts : Nat, edits : Nat, faults : Nat]
  BY DEF StartPlanning, Launch, planning, CutoverInv, TypeOK
<1>2. TypeOK'
  BY <1>1 DEF CutoverInv, TypeOK
<1>3. CASE ~CutoverReady
  <2>1. mode' = mode
    BY <1>1, <1>3
  <2>2. ASSUME NEW x \in Reminders
        PROVE  Sane(x)'
    BY <1>1, <2>1, Untouched
  <2> QED BY <1>1, <1>2, <2>1, <2>2 DEF CutoverInv
<1>4. CASE CutoverReady
  <2>1. mode' = "planning" /\ marker' # NoRecord
    BY <1>1, <1>4 DEF CutoverReady
  <2>2. ASSUME NEW r \in Reminders
        PROVE  Sane(r)'
    <3>1. /\ Sane(r) /\ task[r] = NoTask
          /\ ~Saves("create", r)' /\ ~Saves("cancel", r)' /\ ~Saves("mark", r)'
          /\ ~Unrecorded(r)
      BY <1>1 DEF CutoverInv, Sane, Stopped, Saves, Unlocked, Unrecorded, NoTask
    <3>2. /\ (Native(r)' <=> Native(r)) /\ (Open(r)' <=> Open(r))
          /\ (Delivered(r)' <=> Delivered(r)) /\ (Fresh(r)' <=> Fresh(r))
          /\ (SentOnce(r)' <=> SentOnce(r)) /\ (IsPending(r)' <=> IsPending(r))
          /\ (FiredIn(reading.recs, r)' <=> FiredIn(reading.recs, r))
          /\ (FiredIn(file.recs, r)' <=> FiredIn(file.recs, r))
          /\ (PendingIn(file.recs, r)' <=> PendingIn(file.recs, r))
          /\ (rows[r].delivery = "not_due" => ~Delivered(r))
          /\ (Native(r) => rows[r] # NoRecord) /\ (Open(r) => rows[r] # NoRecord)
      BY <1>1 DEF Native, Open, Delivered, Fresh, SentOnce, FiredIn, PendingIn, IsPending, Known
    <3>3. /\ file.recs[r] # NoRecord =>
               /\ rows[r] # NoRecord /\ (Open(r) <=> PendingIn(file.recs, r))
          /\ file.recs[r] = NoRecord => rows[r] = NoRecord \/ Native(r)
      BY <1>4, GateHolds
    <3>4. Stopped(r)' /\ InMemory(r)' /\ MemoryHolds(r)'
      BY <1>1, <2>1, <3>1 DEF Sane, Stopped, InMemory, MemoryHolds
    <3>5. Imported(r)'
      BY <1>1, <2>1, <3>1, <3>2 DEF Sane, Imported
    <3>6. Kept(r)' /\ Timed(r)' /\ Rests(r)'
      BY <1>1, <2>1, <3>1, <3>2, <3>3 DEF Sane, Kept, Timed, Rests
    <3>7. Once(r)'
      BY <1>1, <2>1, <3>1, <3>2, <3>3 DEF Sane, Once, Unsent, NoTask
    <3> QED BY <3>4, <3>5, <3>6, <3>7 DEF Sane
  <2> QED BY <1>1, <1>2, <2>1, <2>2 DEF CutoverInv
<1> QED BY <1>3, <1>4

-----------------------------------------------------------------------------
(* Planning, and the release before.                                         *)
LEMMA PlanningCreateKeeps ==
  ASSUME CutoverAssumption, CutoverInv, NEW r \in Reminders, PlanningCreate(r)
  PROVE  CutoverInv'
<1>1. /\ mode = "planning" /\ mode' = mode /\ mem' = mem /\ file' = file /\ saving' = saving
      /\ task' = task /\ left' = left /\ marker' = marker /\ reading' = reading
      /\ excused' = excused /\ sent' = sent /\ unheard' = unheard
      /\ cancelled' = cancelled /\ idle' = idle
      /\ accepted' = accepted \cup {r} /\ rows[r] = NoRecord /\ file.recs[r] = NoRecord
      /\ rows' = [rows EXCEPT ![r] = [status |-> "pending", delivery |-> "not_due",
                                      origin |-> "native"]]
      /\ budget' \in [starts : Nat, edits : Nat, faults : Nat]
  BY DEF PlanningCreate, Edit, process, CutoverInv, TypeOK
<1>2. /\ rows' \in [Reminders -> Row \cup {NoRecord}]
      /\ rows'[r] \in Row /\ rows'[r].origin = "native" /\ rows'[r].delivery = "not_due"
      /\ \A x \in Reminders \ {r} : rows'[x] = rows[x]
  <2>1. [status |-> "pending", delivery |-> "not_due", origin |-> "native"] \in Row
    BY DEF Row
  <2> QED BY <1>1, <2>1 DEF CutoverInv, TypeOK
<1>3. TypeOK'
  BY <1>1, <1>2 DEF CutoverInv, TypeOK
<1>4. ASSUME NEW x \in Reminders, x # r
      PROVE  Sane(x)'
  <2>1. x \in accepted' <=> x \in accepted
    BY <1>1, <1>4
  <2> QED BY <1>1, <1>2, <1>4, <2>1, Untouched
<1>5. /\ Sane(r) /\ saving = Unlocked /\ task[r] = NoTask /\ mem.recs[r] = NoRecord
      /\ Fresh(r) /\ SentOnce(r) /\ r \notin cancelled
  BY <1>1, NothingIsOnce DEF CutoverInv, Sane, Stopped, Once, Rests
<1>6. /\ ~Saves("create", r)' /\ ~Saves("cancel", r)' /\ ~Saves("mark", r)'
      /\ Native(r)' /\ ~Delivered(r)' /\ Fresh(r)' /\ SentOnce(r)' /\ ~IsPending(r)'
      /\ ~PendingIn(file.recs, r)' /\ rows'[r] # NoRecord
      /\ (FiredIn(reading.recs, r)' <=> FiredIn(reading.recs, r))
      /\ (FiredIn(file.recs, r)' <=> FiredIn(file.recs, r))
  BY <1>1, <1>2, <1>5 DEF CutoverAssumption, Saves, Unlocked, Native, Delivered, Fresh, SentOnce,
     IsPending, Known, PendingIn, FiredIn
<1>7. Sane(r)'
  <2>1. marker # NoRecord
    BY <1>1 DEF CutoverInv
  <2>2. Stopped(r)' /\ InMemory(r)' /\ MemoryHolds(r)' /\ Imported(r)'
    BY <1>1, <1>5, <1>6, <2>1 DEF Sane, Stopped, InMemory, MemoryHolds, Imported
  <2>3. Kept(r)' /\ Timed(r)' /\ Rests(r)' /\ Once(r)'
    BY <1>1, <1>5, <1>6 DEF Kept, Timed, Rests, Once, Unsent, NoTask
  <2> QED BY <2>2, <2>3 DEF Sane
<1> QED BY <1>1, <1>3, <1>4, <1>7 DEF CutoverInv

LEMMA PlanningCancelKeeps ==
  ASSUME CutoverAssumption, CutoverInv, NEW r \in Reminders, PlanningCancel(r)
  PROVE  CutoverInv'
<1>1. /\ mode = "planning" /\ mode' = mode /\ mem' = mem /\ file' = file /\ saving' = saving
      /\ task' = task /\ left' = left /\ marker' = marker /\ reading' = reading
      /\ excused' = excused /\ sent' = sent /\ unheard' = unheard
      /\ cancelled' = cancelled /\ idle' = idle
      /\ accepted' = accepted /\ rows[r] # NoRecord /\ rows[r] \in Row
      /\ rows' = [rows EXCEPT ![r] = [rows[r] EXCEPT !.status = "cancelled"]]
      /\ budget' \in [starts : Nat, edits : Nat, faults : Nat]
  BY DEF PlanningCancel, Open, Edit, process, history, CutoverInv, TypeOK
<1>2. /\ rows'[r] \in Row /\ rows'[r].status = "cancelled"
      /\ rows'[r].delivery = rows[r].delivery /\ rows'[r].origin = rows[r].origin
      /\ \A x \in Reminders \ {r} : rows'[x] = rows[x]
  <2>1. rows'[r] = [rows[r] EXCEPT !.status = "cancelled"]
    BY <1>1 DEF CutoverInv, TypeOK
  <2> QED BY <1>1, <2>1 DEF CutoverInv, TypeOK, Row
<1>3. TypeOK'
  <2>1. rows' \in [Reminders -> Row \cup {NoRecord}]
    BY <1>1, <1>2 DEF CutoverInv, TypeOK
  <2> QED BY <1>1, <2>1 DEF CutoverInv, TypeOK
<1>4. ASSUME NEW x \in Reminders, x # r
      PROVE  Sane(x)'
  BY <1>1, <1>2, <1>4, Untouched
<1>5. Sane(r) /\ saving = Unlocked /\ task[r] = NoTask /\ mem.recs[r] = NoRecord
  BY <1>1 DEF CutoverInv, Sane, Stopped
<1>6. /\ ~Saves("create", r)' /\ ~Saves("cancel", r)' /\ ~Saves("mark", r)'
      /\ (Native(r)' <=> Native(r)) /\ (Delivered(r)' <=> Delivered(r)) /\ ~Open(r)'
      /\ (Fresh(r)' <=> Fresh(r)) /\ (SentOnce(r)' <=> SentOnce(r)) /\ ~IsPending(r)'
      /\ (PendingIn(file.recs, r)' <=> PendingIn(file.recs, r)) /\ rows'[r] # NoRecord
      /\ (FiredIn(reading.recs, r)' <=> FiredIn(reading.recs, r))
      /\ (FiredIn(file.recs, r)' <=> FiredIn(file.recs, r)) /\ ~Unrecorded(r)
  BY <1>1, <1>2, <1>5 DEF CutoverAssumption, Saves, Unlocked, Native, Delivered, Open, Fresh,
     SentOnce, IsPending, Known, PendingIn, FiredIn, Unrecorded, NoTask
<1>7. Sane(r)'
  <2>1. marker # NoRecord
    BY <1>1 DEF CutoverInv
  <2>2. Stopped(r)' /\ InMemory(r)' /\ MemoryHolds(r)' /\ Imported(r)'
    BY <1>1, <1>5, <1>6, <2>1 DEF Sane, Stopped, InMemory, MemoryHolds, Imported
  <2>3. Kept(r)' /\ Timed(r)' /\ Rests(r)' /\ Once(r)'
    BY <1>1, <1>5, <1>6 DEF Sane, Kept, Timed, Rests, Once, Unsent, NoTask
  <2> QED BY <2>2, <2>3 DEF Sane
<1> QED BY <1>1, <1>3, <1>4, <1>7 DEF CutoverInv

LEMMA PlanningDeliverKeeps ==
  ASSUME CutoverAssumption, CutoverInv, NEW r \in Reminders, NEW c \in Channels,
         PlanningDeliver(r, c)
  PROVE  CutoverInv'
<1>1. /\ mode = "planning" /\ mode' = mode /\ mem' = mem /\ file' = file /\ saving' = saving
      /\ task' = task /\ left' = left /\ marker' = marker /\ reading' = reading
      /\ excused' = excused /\ cancelled' = cancelled /\ idle' = idle
      /\ accepted' = accepted /\ rows[r] # NoRecord /\ rows[r] \in Row /\ Open(r)
      /\ rows[r].delivery = "not_due" /\ budget' = budget
      /\ rows' = [rows EXCEPT ![r] = [rows[r] EXCEPT !.delivery = "delivered"]]
      /\ sent' = [sent EXCEPT ![<<r, c>>] = @ + 1] /\ unheard' = unheard
  BY DEF PlanningDeliver, Open, process, CutoverInv, TypeOK
<1>2. /\ rows'[r] \in Row /\ rows'[r].delivery = "delivered"
      /\ rows'[r].status = rows[r].status /\ rows'[r].origin = rows[r].origin
      /\ \A x \in Reminders \ {r} : rows'[x] = rows[x]
      /\ \A x \in Reminders \ {r} : \A d \in Channels : sent'[<<x, d>>] = sent[<<x, d>>]
      /\ \A d \in Channels \ {c} : sent'[<<r, d>>] = sent[<<r, d>>]
      /\ sent'[<<r, c>>] = sent[<<r, c>>] + 1 /\ sent[<<r, c>>] \in Nat
      /\ unheard[<<r, c>>] \in Nat
  <2>1. rows'[r] = [rows[r] EXCEPT !.delivery = "delivered"]
    BY <1>1 DEF CutoverInv, TypeOK
  <2> QED BY <1>1, <2>1 DEF CutoverInv, TypeOK, Row
<1>3. TypeOK'
  <2>1. rows' \in [Reminders -> Row \cup {NoRecord}]
    BY <1>1, <1>2 DEF CutoverInv, TypeOK
  <2> QED BY <1>1, <2>1 DEF CutoverInv, TypeOK
<1>4. ASSUME NEW x \in Reminders, x # r
      PROVE  Sane(x)'
  BY <1>1, <1>2, <1>4, Untouched
<1>5. Sane(r) /\ saving = Unlocked /\ task[r] = NoTask /\ mem.recs[r] = NoRecord
  BY <1>1 DEF CutoverInv, Sane, Stopped
<1>6. r \notin excused => SentOnce(r)'
  <2>1. r \notin excused => Fresh(r)
    BY <1>1, <1>5 DEF Sane, Once, Unsent
  <2>2. /\ Fresh(r) => SentOnce(r)
        /\ \A d \in Channels : sent[<<r, d>>] \in Nat /\ unheard[<<r, d>>] \in Nat
    BY NothingIsOnce DEF CutoverInv
  <2> QED BY <1>1, <1>2, <2>1, <2>2 DEF Fresh, SentOnce
<1>7. /\ ~Saves("create", r)' /\ ~Saves("cancel", r)' /\ ~Saves("mark", r)'
      /\ (Native(r)' <=> Native(r)) /\ Delivered(r)' /\ (Open(r)' <=> Open(r))
      /\ ~IsPending(r)' /\ rows'[r] # NoRecord
      /\ (PendingIn(file.recs, r)' <=> PendingIn(file.recs, r))
      /\ (FiredIn(reading.recs, r)' <=> FiredIn(reading.recs, r))
      /\ (FiredIn(file.recs, r)' <=> FiredIn(file.recs, r))
  BY <1>1, <1>2, <1>5 DEF CutoverAssumption, Saves, Unlocked, Native, Delivered, Open,
     IsPending, Known, PendingIn, FiredIn
<1>8. Sane(r)'
  <2>1. marker # NoRecord
    BY <1>1 DEF CutoverInv
  <2>2. Stopped(r)' /\ InMemory(r)' /\ MemoryHolds(r)' /\ Imported(r)'
    BY <1>1, <1>5, <1>7, <2>1 DEF Sane, Stopped, InMemory, MemoryHolds, Imported
  <2>3. Kept(r)' /\ Timed(r)' /\ Rests(r)' /\ Once(r)'
    BY <1>1, <1>2, <1>5, <1>6, <1>7 DEF Sane, Kept, Timed, Rests, Once, Unsent, NoTask
  <2> QED BY <2>2, <2>3 DEF Sane
<1> QED BY <1>1, <1>3, <1>4, <1>8 DEF CutoverInv

LEMMA PlanningToggleKeeps ==
  ASSUME CutoverAssumption, CutoverInv, NEW c \in Channels, PlanningToggle(c)
  PROVE  CutoverInv'
<1>1. /\ mode' = mode /\ mem' = mem /\ saving' = saving
      /\ task' = task /\ left' = left /\ rows' = rows /\ marker' = marker
      /\ reading' = reading /\ excused' = excused
      /\ sent' = sent /\ unheard' = unheard
      /\ cancelled' = cancelled /\ accepted' = accepted /\ idle' = idle
      /\ budget' \in [starts : Nat, edits : Nat, faults : Nat]
  BY DEF PlanningToggle, Edit, process, planning, history, CutoverInv, TypeOK
<1>2. file' \in Document /\ file'.recs = file.recs
  <2>1. file' = [file EXCEPT !.on = Toggled(file.on, c), !.keys = "known"]
    BY DEF PlanningToggle
  <2>2. Toggled(file.on, c) \subseteq Channels
    BY Fields DEF Toggled, CutoverInv
  <2> QED BY <2>1, <2>2 DEF CutoverInv, TypeOK, Document
<1>3. TypeOK'
  BY <1>1, <1>2 DEF CutoverInv, TypeOK
<1>4. ASSUME NEW x \in Reminders
      PROVE  Sane(x)'
  BY <1>1, <1>2, Untouched
<1> QED BY <1>1, <1>3, <1>4 DEF CutoverInv

(* The release before this one writes one record.                            *)
LEMMA PriorKeeps ==
  ASSUME CutoverAssumption, CutoverInv, NEW r \in Reminders, PriorRelease(r)
  PROVE  CutoverInv'
<1> DEFINE Made == /\ file.recs[r] = NoRecord /\ rows[r] = NoRecord /\ r \notin accepted
                   /\ file'.recs[r] = Pending /\ accepted' = accepted \cup {r}
                   /\ sent' = sent /\ cancelled' = cancelled /\ excused' = excused
           Ended == /\ PendingIn(file.recs, r)
                    /\ file'.recs[r] = Cancelled(file.recs[r])
                    /\ cancelled' = cancelled \cup {r}
                    /\ sent' = sent /\ accepted' = accepted /\ excused' = excused
           Done(c) == /\ PendingIn(file.recs, r)
                      /\ file'.recs[r] = Fired(file.recs[r])
                      /\ sent' = [sent EXCEPT ![<<r, c>>] = @ + 1]
                      /\ excused' = IF Delivered(r) THEN excused \cup {r} ELSE excused
                      /\ cancelled' = cancelled /\ accepted' = accepted
<1>1. /\ mode = "down" /\ mode' = mode /\ mem' = mem /\ saving' = saving
      /\ task' = task /\ left' = left /\ rows' = rows /\ marker' = marker
      /\ reading' = reading /\ idle' = idle /\ unheard' = unheard
      /\ budget' \in [starts : Nat, edits : Nat, faults : Nat]
  BY DEF PriorRelease, Edit, process, planning, CutoverInv, TypeOK
<1>2. ASSUME NEW rec \in Record, PriorWrites([file.recs EXCEPT ![r] = rec])
      PROVE  /\ file' \in Document /\ file'.recs[r] = rec
             /\ \A x \in Reminders \ {r} : file'.recs[x] = file.recs[x]
  <2>1. file' = [file EXCEPT !.recs = [file.recs EXCEPT ![r] = rec], !.keys = "known"]
    BY <1>2 DEF PriorWrites
  <2> QED BY <2>1, Fields DEF CutoverInv, TypeOK, Document
<1>3. /\ file' \in Document /\ \A x \in Reminders \ {r} : file'.recs[x] = file.recs[x]
      /\ Made \/ Ended \/ \E c \in Channels : Done(c)
  <2>1. CASE /\ file.recs[r] = NoRecord /\ rows[r] = NoRecord /\ r \notin accepted
             /\ PriorWrites([file.recs EXCEPT ![r] = Pending])
             /\ accepted' = accepted \cup {r}
             /\ UNCHANGED <<sent, cancelled, excused>>
    <3>1. /\ file' \in Document /\ file'.recs[r] = Pending
          /\ \A x \in Reminders \ {r} : file'.recs[x] = file.recs[x]
      BY <1>2, <2>1, PendingRecord
    <3> QED BY <2>1, <3>1
  <2>2. CASE /\ file.recs[r] # NoRecord /\ file.recs[r].status = "pending"
             /\ PriorWrites([file.recs EXCEPT ![r] = Cancelled(file.recs[r])])
             /\ cancelled' = cancelled \cup {r}
             /\ UNCHANGED <<sent, accepted, excused>>
    <3>1. Cancelled(file.recs[r]) \in Record
      BY <2>2, Fields, RecordKinds DEF CutoverInv
    <3>2. /\ file' \in Document /\ file'.recs[r] = Cancelled(file.recs[r])
          /\ \A x \in Reminders \ {r} : file'.recs[x] = file.recs[x]
      BY <1>2, <2>2, <3>1
    <3> QED BY <2>2, <3>2 DEF PendingIn
  <2>3. CASE /\ file.recs[r] # NoRecord /\ file.recs[r].status = "pending"
             /\ PriorWrites([file.recs EXCEPT ![r] = Fired(file.recs[r])])
             /\ \E c \in Channels : sent' = [sent EXCEPT ![<<r, c>>] = @ + 1]
             /\ excused' = IF Delivered(r) THEN excused \cup {r} ELSE excused
             /\ UNCHANGED <<cancelled, accepted>>
    <3>1. Fired(file.recs[r]) \in Record
      BY <2>3, Fields, RecordKinds DEF CutoverInv
    <3>2. /\ file' \in Document /\ file'.recs[r] = Fired(file.recs[r])
          /\ \A x \in Reminders \ {r} : file'.recs[x] = file.recs[x]
      BY <1>2, <2>3, <3>1
    <3> QED BY <2>3, <3>2 DEF PendingIn
  <2> QED BY <2>1, <2>2, <2>3 DEF PriorRelease
<1>4. /\ Sane(r) /\ saving = Unlocked /\ task[r] = NoTask /\ mem.recs[r] = NoRecord
      /\ ~Saves("create", r) /\ ~Saves("cancel", r) /\ ~Saves("mark", r) /\ ~Unrecorded(r)
  BY <1>1 DEF CutoverInv, Sane, Stopped, Saves, Unlocked, Unrecorded, NoTask
<1>5. /\ ~Saves("create", r)' /\ ~Saves("cancel", r)' /\ ~Saves("mark", r)'
      /\ (Native(r)' <=> Native(r)) /\ (Delivered(r)' <=> Delivered(r)) /\ (Open(r)' <=> Open(r))
      /\ ~IsPending(r)' /\ (FiredIn(reading.recs, r)' <=> FiredIn(reading.recs, r))
  BY <1>1, <1>4 DEF Saves, Native, Delivered, Open, IsPending, Known, FiredIn
<1>6. CASE Made
  <2>1. /\ PendingIn(file.recs, r)' /\ ~FiredIn(file.recs, r) /\ ~Native(r) /\ ~Open(r)
        /\ ~Delivered(r) /\ (Fresh(r)' <=> Fresh(r)) /\ (SentOnce(r)' <=> SentOnce(r))
        /\ Fresh(r) /\ SentOnce(r) /\ file'.recs[r] # NoRecord /\ r \notin cancelled
    <3>1. Fresh(r) /\ SentOnce(r) /\ r \notin cancelled
      BY <1>4, <1>6, NothingIsOnce DEF CutoverInv, Sane, Once, Rests
    <3>2. (Fresh(r)' <=> Fresh(r)) /\ (SentOnce(r)' <=> SentOnce(r))
      BY <1>1, <1>6 DEF Fresh, SentOnce
    <3> QED BY <1>6, <3>1, <3>2, PendingRecord DEF PendingIn, FiredIn, Native, Open, Delivered
  <2>2. Stopped(r)' /\ InMemory(r)' /\ MemoryHolds(r)' /\ Imported(r)'
    BY <1>1, <1>4, <1>5, <1>6, <2>1 DEF Sane, Stopped, InMemory, MemoryHolds, Imported
  <2>3. Kept(r)' /\ Timed(r)' /\ Rests(r)' /\ Once(r)'
    BY <1>1, <1>4, <1>5, <1>6, <2>1 DEF Kept, Timed, Rests, Once, Unsent, NoTask
  <2>4. Sane(r)'
    BY <2>2, <2>3 DEF Sane
  <2>5. ASSUME NEW x \in Reminders, x # r
        PROVE  Sane(x)'
    <3>1. x \in accepted' <=> x \in accepted
      BY <1>6, <2>5
    <3> QED BY <1>1, <1>3, <1>6, <2>5, <3>1, Untouched
  <2>6. TypeOK'
    BY <1>1, <1>3, <1>6 DEF CutoverInv, TypeOK
  <2> QED BY <1>1, <2>4, <2>5, <2>6 DEF CutoverInv
<1>7. CASE Ended
  <2>1. file.recs[r] \in Record /\ file.recs[r].status = "pending"
    BY <1>7, Fields DEF PendingIn, CutoverInv
  <2>2. /\ ~PendingIn(file.recs, r)' /\ ~FiredIn(file.recs, r)
        /\ (Fresh(r)' <=> Fresh(r)) /\ (SentOnce(r)' <=> SentOnce(r))
        /\ file'.recs[r] # NoRecord /\ file.recs[r] # NoRecord /\ ~Native(r)
    BY <1>1, <1>4, <1>7, <2>1, RecordKinds DEF PendingIn, FiredIn, Fresh, SentOnce, Sane, Imported
  <2>3. Stopped(r)' /\ InMemory(r)' /\ MemoryHolds(r)' /\ Imported(r)'
    BY <1>1, <1>4, <1>5, <1>7, <2>2 DEF Sane, Stopped, InMemory, MemoryHolds, Imported
  <2>4. Kept(r)' /\ Timed(r)' /\ Rests(r)' /\ Once(r)'
    BY <1>1, <1>4, <1>5, <1>7, <2>2 DEF Sane, Kept, Timed, Rests, Once, Unsent, NoTask
  <2>5. Sane(r)'
    BY <2>3, <2>4 DEF Sane
  <2>6. ASSUME NEW x \in Reminders, x # r
        PROVE  Sane(x)'
    <3>1. x \in cancelled' <=> x \in cancelled
      BY <1>7, <2>6
    <3> QED BY <1>1, <1>3, <1>7, <2>6, <3>1, Untouched
  <2>7. TypeOK'
    BY <1>1, <1>3, <1>7 DEF CutoverInv, TypeOK
  <2> QED BY <1>1, <2>5, <2>6, <2>7 DEF CutoverInv
<1>8. ASSUME NEW c \in Channels, Done(c)
      PROVE  CutoverInv'
  <2>1. file.recs[r] \in Record /\ file.recs[r].status = "pending" /\ r \notin cancelled
    BY <1>4, <1>8, Fields DEF PendingIn, CutoverInv, Sane, Rests
  <2>2. /\ ~PendingIn(file.recs, r)' /\ FiredIn(file.recs, r)'
        /\ file'.recs[r] # NoRecord /\ file.recs[r] # NoRecord /\ ~Native(r)
    BY <1>4, <1>8, <2>1, RecordKinds DEF PendingIn, FiredIn, Sane, Imported
  <2>3. /\ \A x \in Reminders \ {r} : \A d \in Channels : sent'[<<x, d>>] = sent[<<x, d>>]
        /\ \A d \in Channels \ {c} : sent'[<<r, d>>] = sent[<<r, d>>]
        /\ sent'[<<r, c>>] = sent[<<r, c>>] + 1 /\ sent[<<r, c>>] \in Nat
        /\ unheard[<<r, c>>] \in Nat
        /\ \A x \in Reminders \ {r} : x \in excused' <=> x \in excused
        /\ r \notin excused' => r \notin excused /\ ~Delivered(r)
        /\ r \in excused => r \in excused'
    BY <1>8 DEF CutoverInv, TypeOK
  <2>4. r \notin excused' => SentOnce(r)'
    <3>1. r \notin excused' => Fresh(r)
      BY <1>4, <1>8, <2>3 DEF Sane, Once, Unsent
    <3>2. /\ Fresh(r) => SentOnce(r)
          /\ \A d \in Channels : sent[<<r, d>>] \in Nat /\ unheard[<<r, d>>] \in Nat
      BY NothingIsOnce DEF CutoverInv
    <3> QED BY <1>1, <2>3, <3>1, <3>2 DEF Fresh, SentOnce
  <2>5. Stopped(r)' /\ InMemory(r)' /\ MemoryHolds(r)' /\ Imported(r)'
    BY <1>1, <1>4, <1>5, <2>2 DEF Sane, Stopped, InMemory, MemoryHolds, Imported
  <2>6. Kept(r)' /\ Timed(r)' /\ Rests(r)' /\ Once(r)'
    BY <1>1, <1>4, <1>5, <1>8, <2>1, <2>2, <2>4 DEF Kept, Timed, Rests, Once, Unsent, NoTask
  <2>7. Sane(r)'
    BY <2>5, <2>6 DEF Sane
  <2>8. ASSUME NEW x \in Reminders, x # r
        PROVE  Sane(x)'
    BY <1>1, <1>3, <1>8, <2>3, <2>8, Untouched
  <2>9. TypeOK'
    BY <1>1, <1>3, <1>8 DEF CutoverInv, TypeOK
  <2> QED BY <1>1, <2>7, <2>8, <2>9 DEF CutoverInv
<1> HIDE DEF Made, Ended, Done
<1> QED BY <1>3, <1>6, <1>7, <1>8

-----------------------------------------------------------------------------
(* The invariant at the start.                                               *)
LEMMA CutoverStarts ==
  ASSUME CutoverAssumption, Init
  PROVE  CutoverInv
<1>1. file \in Document /\ file.recs \in [Reminders -> Record \cup {NoRecord}]
  BY DEF Init, CutoverAssumption, Document
<1>2. TypeOK
  <2>1. mem \in Store
    BY DEF Init, Store
  <2> QED BY <1>1, <2>1 DEF Init, TypeOK, NoTask
<1>3. ASSUME NEW x \in Reminders
      PROVE  Sane(x)
  <2>1. /\ mem.recs[x] = NoRecord /\ rows[x] = NoRecord /\ Fresh(x) /\ SentOnce(x)
        /\ task[x] = NoTask /\ mode = "down" /\ saving = Unlocked /\ reading = NoRecord
        /\ x \in accepted => file.recs[x] # NoRecord
        /\ x \in cancelled => file.recs[x] # NoRecord /\ file.recs[x].status = "cancelled"
    BY DEF Init, Fresh, SentOnce
  <2>2. ~Saves("create", x) /\ ~Saves("cancel", x) /\ ~Saves("mark", x)
    BY <2>1 DEF Saves, Unlocked
  <2>3. ~Delivered(x) /\ ~Native(x) /\ ~IsPending(x) /\ ~Open(x)
    BY <2>1 DEF Delivered, Native, IsPending, Known, Open
  <2>4. Stopped(x) /\ InMemory(x) /\ MemoryHolds(x) /\ Imported(x) /\ Kept(x)
    BY <2>1, <2>2, <2>3 DEF Stopped, InMemory, MemoryHolds, Imported, Kept
  <2>5. Timed(x) /\ Once(x) /\ Rests(x)
    BY <2>1, <2>2, <2>3 DEF Timed, Once, Unsent, Rests, PendingIn, NoTask
  <2> QED BY <2>4, <2>5 DEF Sane
<1> QED BY <1>2, <1>3 DEF CutoverInv, Init

LEMMA CutoverSteps ==
  ASSUME CutoverAssumption, CutoverInv, [Next]_vars
  PROVE  CutoverInv'
<1>1. CASE UNCHANGED vars
  <2>1. ASSUME NEW x \in Reminders
        PROVE  Sane(x)'
    BY <1>1, Untouched DEF vars
  <2> QED BY <1>1, <2>1 DEF vars, CutoverInv, TypeOK
<1>2. ASSUME NEW r \in Reminders,
             \/ Create(r) \/ CancelPending(r) \/ CancelOther(r)
             \/ Fire(r) \/ TimerBreaks(r) \/ MarkFired(r)
             \/ PlanningCreate(r) \/ PlanningCancel(r) \/ PriorRelease(r)
      PROVE  CutoverInv'
  BY <1>2, CreateKeeps, CancelPendingKeeps, CancelOtherKeeps, FireKeeps, TimerBreaksKeeps,
     MarkFiredKeeps, PlanningCreateKeeps, PlanningCancelKeeps, PriorKeeps
<1>3. ASSUME NEW r \in Reminders, NEW c \in Channels,
             \/ \E took \in BOOLEAN : SendTo(r, c, took)
             \/ PlanningDeliver(r, c) \/ AnswerLost(r, c)
      PROVE  CutoverInv'
  BY <1>3, SendToKeeps, PlanningDeliverKeeps, AnswerLostKeeps
<1>4. ASSUME NEW c \in Channels, Toggle(c) \/ PlanningToggle(c)
      PROVE  CutoverInv'
  BY <1>4, ToggleKeeps, PlanningToggleKeeps
<1>5. CASE \/ SaveSucceeds \/ SaveFails \/ ReadSource \/ Import
           \/ Crash \/ Stop \/ StartLegacy \/ StartPlanning
  BY <1>5, SaveSucceedsKeeps, SaveFailsKeeps, ReadSourceKeeps, ImportKeeps, CrashKeeps,
     StopKeeps, StartLegacyKeeps, StartPlanningKeeps
<1> QED BY <1>1, <1>2, <1>3, <1>4, <1>5 DEF Next

LEMMA CutoverInvariant ==
  ASSUME CutoverAssumption
  PROVE  Spec => []CutoverInv
<1>1. Init => CutoverInv
  BY CutoverStarts
<1>2. CutoverInv /\ [Next]_vars => CutoverInv'
  BY CutoverSteps
<1> QED BY <1>1, <1>2, PTL DEF Spec

-----------------------------------------------------------------------------
(* Every variable keeps its type, whatever the operator runs and whatever    *)
(* fails.                                                                    *)
THEOREM CutoverTypeCorrect ==
  ASSUME CutoverAssumption
  PROVE  Spec => []TypeOK
<1>1. CutoverInv => TypeOK
  BY DEF CutoverInv
<1> QED BY <1>1, CutoverInvariant, PTL

(* No accepted reminder disappears: the store in charge holds it             *)
(* (reminder_store.py create, legacy_import.py require_cutover_ready).       *)
THEOREM AcceptedStays ==
  ASSUME CutoverAssumption
  PROVE  Spec => []AcceptedIsKept
<1>1. CutoverInv => AcceptedIsKept
  <2> SUFFICES ASSUME CutoverInv, NEW r \in accepted
               PROVE  /\ mode = "legacy" => \/ mem.recs[r] # NoRecord
                                            \/ rows[r] # NoRecord /\ rows[r].origin = "native"
                      /\ mode = "planning" => rows[r] # NoRecord
    BY DEF AcceptedIsKept
  <2>1. Sane(r)
    BY DEF CutoverInv, TypeOK
  <2> QED BY <2>1 DEF Sane, Kept, MemoryHolds, Native
<1> QED BY <1>1, CutoverInvariant, PTL

(* Every pending reminder of a running JSON store has a timer, or is one     *)
(* whose timer ended without a delivery (workflows/reminders.py).            *)
THEOREM PendingKeepsTimer ==
  ASSUME CutoverAssumption
  PROVE  Spec => []PendingHasTimer
<1>1. CutoverInv => PendingHasTimer
  <2> SUFFICES ASSUME CutoverInv, Running, NEW r \in Reminders, IsPending(r), r \notin idle
               PROVE  task[r] # NoTask
    BY DEF PendingHasTimer
  <2>1. Sane(r) /\ mode = "legacy" /\ ~Saves("create", r)
    BY DEF CutoverInv, Running, Saves, Unlocked
  <2> QED BY <2>1 DEF Sane, Timed
<1> QED BY <1>1, CutoverInvariant, PTL

(* Beyond the messages whose answer was lost, a channel takes a reminder     *)
(* twice only after a delivery that the program could not record             *)
(* (workflows/reminders.py sends, then marks).                               *)
THEOREM NoUnexcusedRepeat ==
  ASSUME CutoverAssumption
  PROVE  Spec => []RepeatsNeedUnrecorded
<1>1. CutoverInv => RepeatsNeedUnrecorded
  <2> SUFFICES ASSUME CutoverInv, NEW r \in Reminders, NEW c \in Channels,
                      sent[<<r, c>>] > 1 + unheard[<<r, c>>], r \notin excused
               PROVE  FALSE
    BY DEF RepeatsNeedUnrecorded
  <2>1. sent[<<r, c>>] <= 1 + unheard[<<r, c>>]
    BY DEF CutoverInv, Sane, Once, SentOnce
  <2>2. sent[<<r, c>>] \in Nat /\ unheard[<<r, c>>] \in Nat
    BY DEF CutoverInv, TypeOK
  <2> QED BY <2>1, <2>2
<1> QED BY <1>1, CutoverInvariant, PTL

(* A reminder whose cancellation was confirmed stays silent, through timers  *)
(* that were sending, crashes, the import and the release before.            *)
THEOREM CancelledStaysSilent ==
  ASSUME CutoverAssumption
  PROVE  Spec => CancelIsFinal
<1>1. CutoverInv /\ [Next]_vars =>
        [\A r \in cancelled, c \in Channels : sent'[<<r, c>>] = sent[<<r, c>>]]_vars
  <2> SUFFICES ASSUME CutoverInv, Next, NEW r \in cancelled, NEW c \in Channels
               PROVE  sent'[<<r, c>>] = sent[<<r, c>>]
    OBVIOUS
  <2>1. r \in Reminders /\ Sane(r) /\ sent \in [Reminders \X Channels -> Nat]
    BY DEF CutoverInv, TypeOK
  <2>2. task[r] = NoTask /\ ~PendingIn(file.recs, r) /\ (mode = "planning" => ~Open(r))
    BY <2>1 DEF Sane, Rests
  <2>3. ASSUME NEW x \in Reminders, NEW d \in Channels, NEW took \in BOOLEAN, SendTo(x, d, took)
        PROVE  sent'[<<r, c>>] = sent[<<r, c>>]
    <3>1. x # r
      BY <2>2, <2>3 DEF SendTo, NoTask
    <3> QED BY <2>1, <2>3, <3>1 DEF SendTo
  <2>4. ASSUME NEW x \in Reminders, NEW d \in Channels, PlanningDeliver(x, d)
        PROVE  sent'[<<r, c>>] = sent[<<r, c>>]
    <3>1. x # r
      BY <2>2, <2>4 DEF PlanningDeliver
    <3> QED BY <2>1, <2>4, <3>1 DEF PlanningDeliver
  <2>5. ASSUME NEW x \in Reminders, PriorRelease(x)
        PROVE  sent'[<<r, c>>] = sent[<<r, c>>]
    <3>1. CASE sent' = sent
      BY <3>1
    <3>2. CASE /\ file.recs[x] # NoRecord /\ file.recs[x].status = "pending"
               /\ \E d \in Channels : sent' = [sent EXCEPT ![<<x, d>>] = @ + 1]
      <4>1. x # r
        BY <2>2, <3>2 DEF PendingIn
      <4> QED BY <2>1, <3>2, <4>1
    <3> QED BY <2>5, <3>1, <3>2 DEF PriorRelease
  <2>6. ASSUME NEW x \in Reminders,
               \/ Create(x) \/ CancelPending(x) \/ CancelOther(x)
               \/ Fire(x) \/ TimerBreaks(x) \/ MarkFired(x)
               \/ PlanningCreate(x) \/ PlanningCancel(x)
        PROVE  sent' = sent
    BY <2>6 DEF Create, CancelPending, CancelOther, Fire, TimerBreaks, MarkFired,
       PlanningCreate, PlanningCancel, history
  <2>7. ASSUME NEW d \in Channels, Toggle(d) \/ PlanningToggle(d)
        PROVE  sent' = sent
    BY <2>7 DEF Toggle, PlanningToggle, history
  <2>8. CASE \/ SaveSucceeds \/ SaveFails \/ ReadSource \/ Import
             \/ Crash \/ Stop \/ StartLegacy \/ StartPlanning
    BY <2>8 DEF SaveSucceeds, SaveFails, ReadSource, Import, Crash, Stop, StartLegacy,
       StartPlanning, history
  <2>9. ASSUME NEW x \in Reminders, NEW d \in Channels, AnswerLost(x, d)
        PROVE  sent'[<<r, c>>] = sent[<<r, c>>]
    <3>1. x # r
      BY <2>2, <2>9 DEF AnswerLost, Calling, PendingIn, NoTask
    <3> QED BY <2>1, <2>9, <3>1 DEF AnswerLost
  <2> QED BY <2>3, <2>4, <2>5, <2>6, <2>7, <2>8, <2>9 DEF Next
<1> QED BY <1>1, CutoverInvariant, PTL DEF Spec, CancelIsFinal

=============================================================================
