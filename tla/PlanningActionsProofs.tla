-------------------------- MODULE PlanningActionsProofs --------------------------
(* Proofs about PlanningActions: key or token, row and audit row change together  *)
(* or not at all, from the version that was seen, the trail tells every version,  *)
(* and what others see is the store of PlanningStore, for any number of objects,  *)
(* keys, tokens, handlers, requests and faults.                                   *)
(*                                                                                *)
(* The argument: while a transaction is open nobody else changes the tables, so   *)
(* what it sees is the disk and its own statements so far (Transaction).  A key   *)
(* or a token it may use has changed nothing yet (Unused), and the version it     *)
(* names is the one it finds, so the commit adds exactly one change.  A button    *)
(* whose version is still the current one shows the current state (Offered).      *)
EXTENDS PlanningActions, TLAPS

(* Requests as clients make them: a creation names no version, any other one that *)
(* the object has had.                                                            *)
WellFormed(req) ==
  /\ req \in Request
  /\ req.op = "create" => req.version = 0
  /\ req.op # "create" => req.version >= 1 /\ req.object \in Objects
Routed(req) == WellFormed(req) /\ req.op # "retry"

(* What a list offers was possible at the version that it showed. *)
Offered(req) ==
  /\ WellFormed(req) /\ req.op # "create"
  /\ req.version <= disk.rows[req.object].version
  /\ req.op = "retry" /\ req.version = disk.rows[req.object].version
       => disk.rows[req.object].state = "failed"

RowsExist == \A o \in Objects : disk.rows[o].state = "missing" <=> disk.rows[o].version = 0
KeysRouted == \A k \in Keys : disk.keys[k].used => Routed(disk.keys[k].req)
TokensOffered ==
  \A t \in Tokens : disk.tokens[t].status \in {"issued", "consumed"} => Offered(disk.tokens[t].req)

(* What a handler holds from the steps before. *)
Holds(j) ==
  /\ j.pc \in {"begin"} \cup InTransaction => j.by \in Ids /\ j.answer = "none"
  /\ j.pc \in {"begin"} \cup InTransaction /\ j.by \in Keys => Routed(j.req)
  /\ j.by \in Tokens => disk.tokens[j.by].status # "unissued"
  /\ \A req \in j.todo : Offered(req)
  /\ j.by \in Ids /\ j.answer \in {"done", "consumed"} => ChangesOf(disk.trail, j.by) # {}
JobsHold == \A h \in Handlers : Holds(job[h])

(* The open transaction: what it may use has not been used, what it changes it    *)
(* found as it was seen, and it sees the disk and what it has done so far.        *)
Unused(j) ==
  /\ j.by \in Keys => ~disk.keys[j.by].used
  /\ j.by \in Tokens => disk.tokens[j.by].status = "issued" /\ j.req = disk.tokens[j.by].req
Found(j) ==
  /\ j.on \in Objects
  /\ j.req.version = disk.rows[j.on].version
  /\ j.req.op = "create" \/ j.on = j.req.object
Effect(j) == [object |-> j.on, version |-> disk.rows[j.on].version + 1]
Written(j) == {Entry(j.on, disk.rows[j.on].version + 1, action, j.by) :
                 action \in Actions(j.req.op, domain[j.on], j.before)}

RowsSeen(j) ==
  IF j.pc \in {"audit", "seal", "commit"}
  THEN [disk.rows EXCEPT ![j.on] = ChangedRow(j.req.op, domain[j.on], disk.rows[j.on])]
  ELSE disk.rows
TrailSeen(j) == IF j.pc \in {"seal", "commit"} THEN disk.trail \cup Written(j) ELSE disk.trail
KeysSeen(j) ==
  IF j.by \in Keys /\ j.pc # "check"
  THEN [disk.keys EXCEPT ![j.by] = [used |-> TRUE, req |-> j.req,
                                    reply |-> IF j.pc = "commit" THEN {Effect(j)} ELSE {}]]
  ELSE disk.keys
TokensSeen(j) ==
  IF j.by \in Tokens /\ j.pc = "commit"
  THEN [disk.tokens EXCEPT ![j.by].status = "consumed"] ELSE disk.tokens

Sees(j) ==
  /\ j.pc # "check" => WellFormed(j.req) /\ Unused(j)
  /\ j.pc \in {"audit", "seal", "commit"} => Found(j)
  /\ work.rows = RowsSeen(j) /\ work.trail = TrailSeen(j)
  /\ work.keys = KeysSeen(j) /\ work.tokens = TokensSeen(j)
Transaction == \A h \in Handlers : owner = h => Sees(job[h])

StoreInv ==
  /\ TypeOK /\ RowsExist /\ KeysRouted /\ TokensOffered
  /\ SealedTogether /\ ActsOnSeen /\ TrailIsComplete
ActionsInv == StoreInv /\ JobsHold /\ Transaction

----------------------------------------------------------------------------------
(* Shapes. *)
LEMMA RowShapes ==
  /\ Missing \in Row
  /\ \A d \in Domains : NewRow(d) \in Row /\ NewRow(d).version = 1 /\ NewRow(d).state # "missing"
  /\ \A row \in Row, state \in States :
       /\ Moved(row, state) \in Row
       /\ Moved(row, state).version = row.version + 1 /\ Moved(row, state).state = state
BY DEF Missing, Row, States, Domains, NewRow, NewReminder, NewTask, NewEvent, NewProject, Moved

LEMMA ChangedRowIs ==
  ASSUME NEW op \in Ops, NEW d \in Domains, NEW row \in Row,
         op = "create" => row.version = 0,
         op # "create" => row.state # "missing"
  PROVE  /\ ChangedRow(op, d, row) \in Row
         /\ ChangedRow(op, d, row).version = row.version + 1
         /\ ChangedRow(op, d, row).state # "missing"
<1>1. CASE op = "create"
  BY <1>1, RowShapes DEF ChangedRow, Row
<1>2. CASE op # "create"
  <2>1. row.state \in States /\ row.state # "missing"
    BY <1>2 DEF Row
  <2>2. PICK state : /\ ChangedRow(op, d, row) = Moved(row, state)
                     /\ state \in {"queued", "completed", "cancelled", "archived", "deleted", row.state}
    BY <1>2 DEF ChangedRow, RetriedReminder, UpdatedReminder, UpdatedTask, UpdatedEvent,
       DeletedEvent, UpdatedProject, DeletedProject
  <2>3. state \in States /\ state # "missing"
    BY <2>1, <2>2 DEF States
  <2> QED BY <2>2, <2>3, RowShapes
<1> QED BY <1>1, <1>2

LEMMA ActionsAre ==
  ASSUME NEW op \in Ops, NEW d, NEW before
  PROVE  /\ op \in Actions(op, d, before) /\ op \notin JobActions
         /\ Actions(op, d, before) \ {op} \subseteq JobActions
BY DEF Ops, Actions, JobAction, JobActions

LEMMA ChangesAreSteps ==
  ASSUME NEW T \in SUBSET TrailRow, NEW i
  PROVE  ChangesOf(T, i) \in SUBSET Step
BY DEF ChangesOf, TrailRow, Step

(* What one more change leaves in the trail for each name. *)
LEMMA ChangesAfter ==
  ASSUME NEW T, NEW o, NEW v, NEW by, NEW A, NEW a \in A, a \notin JobActions
  PROVE  \A i : ChangesOf(T \cup {Entry(o, v, x, by) : x \in A}, i) =
                  ChangesOf(T, i) \cup (IF i = by THEN {[object |-> o, version |-> v]} ELSE {})
<1> DEFINE W == {Entry(o, v, x, by) : x \in A}
<1> SUFFICES ASSUME NEW i
             PROVE  ChangesOf(T \cup W, i) =
                      ChangesOf(T, i) \cup (IF i = by THEN {[object |-> o, version |-> v]} ELSE {})
  OBVIOUS
<1>1. \A e \in W : e.object = o /\ e.version = v /\ e.by = by
  BY DEF Entry
<1>2. Entry(o, v, a, by) \in W /\ Entry(o, v, a, by).action = a /\ Entry(o, v, a, by).by = by
  BY DEF Entry
<1>3. ChangesOf(T \cup W, i) = ChangesOf(T, i) \cup ChangesOf(W, i)
  BY DEF ChangesOf
<1>4. CASE i = by
  <2>1. ChangesOf(W, i) \subseteq {[object |-> o, version |-> v]}
    BY <1>1 DEF ChangesOf
  <2>2. [object |-> o, version |-> v] \in ChangesOf(W, i)
    BY <1>1, <1>2, <1>4 DEF ChangesOf
  <2> QED BY <1>3, <1>4, <2>1, <2>2
<1>5. CASE i # by
  <2>1. ChangesOf(W, i) = {}
    BY <1>1, <1>5 DEF ChangesOf
  <2> QED BY <1>3, <1>5, <2>1
<1> QED BY <1>4, <1>5

LEMMA KeysAreNotTokens ==
  /\ Ids = Keys \cup Tokens
  /\ \A k \in Keys : k \notin Tokens /\ k \in Ids /\ k # None
  /\ \A t \in Tokens : t \notin Keys /\ t \in Ids /\ t # None
  /\ \A h \in Handlers : h # None
  /\ None \notin Ids
BY NamesAssumption DEF Ids

LEMMA IdleJob ==
  /\ Idle \in JobRow /\ Idle.pc = "idle" /\ Idle.by = None /\ Idle.answer = "none"
  /\ Idle.todo = {}
BY DEF Idle, JobRow, States, Replies, InTransaction

(* The first tables: what an earlier release left, recorded, and no key or token. *)
LEMMA InitHolds == Init => ActionsInv
<1> SUFFICES ASSUME Init PROVE ActionsInv
  OBVIOUS
<1>1. PICK old \in SUBSET Objects :
        /\ disk.rows = [o \in Objects |-> IF o \in old THEN NewRow(domain[o]) ELSE Missing]
        /\ disk.trail = {Entry(o, 1, "create", None) : o \in old}
        /\ disk.keys = [k \in Keys |-> NoClaim]
        /\ disk.tokens = [t \in Tokens |-> Unissued]
        /\ disk = [rows |-> disk.rows, trail |-> disk.trail, keys |-> disk.keys,
                   tokens |-> disk.tokens]
  BY DEF Init
<1>2. domain \in [Objects -> Domains]
  BY PopulationsAssumption DEF Init
<1>3. disk \in Tables
  <2>1. disk.rows \in [Objects -> Row]
    BY <1>1, <1>2, RowShapes
  <2>2. disk.trail \in SUBSET TrailRow
    BY <1>1 DEF Entry, TrailRow, Ops
  <2>3. NoClaim \in KeyRow /\ Unissued \in TokenRow
    BY DEF NoClaim, Unissued, KeyRow, TokenRow
  <2>4. disk.keys \in [Keys -> KeyRow] /\ disk.tokens \in [Tokens -> TokenRow]
    BY <1>1, <2>3
  <2> QED BY <1>1, <2>1, <2>2, <2>4 DEF Tables
<1>4. TypeOK
  BY <1>3, IdleJob, KeysAreNotTokens DEF Init, TypeOK, InTransaction
<1>5. \A i \in Ids : ChangesOf(disk.trail, i) = {}
  BY <1>1, KeysAreNotTokens DEF ChangesOf, Entry
<1>6. SealedTogether /\ ActsOnSeen
  <2>1. ASSUME NEW k \in Keys
        PROVE  disk.keys[k].reply = {} /\ disk.keys[k].used = FALSE /\ ChangesOf(disk.trail, k) = {}
    BY <1>1, <1>5, KeysAreNotTokens DEF NoClaim
  <2>2. ASSUME NEW t \in Tokens
        PROVE  disk.tokens[t].status = "unissued" /\ ChangesOf(disk.trail, t) = {}
    BY <1>1, <1>5, KeysAreNotTokens DEF Unissued
  <2> QED BY <1>5, <2>1, <2>2 DEF SealedTogether, ActsOnSeen
<1>7. RowsExist /\ KeysRouted /\ TokensOffered
  BY <1>1, <1>2, RowShapes DEF RowsExist, KeysRouted, TokensOffered, NoClaim, Unissued, Missing
<1>8. TrailIsComplete
  <2> SUFFICES ASSUME NEW o \in Objects
               PROVE  LET Told == {e \in disk.trail : e.object = o /\ e.action \notin JobActions}
                      IN /\ {e.version : e \in Told} = 1..disk.rows[o].version
                         /\ \A d, e \in Told : d.version = e.version => d = e
    BY DEF TrailIsComplete
  <2> DEFINE Told == {e \in disk.trail : e.object = o /\ e.action \notin JobActions}
  <2>1. Told = IF o \in old THEN {Entry(o, 1, "create", None)} ELSE {}
    BY <1>1 DEF Entry, JobActions
  <2>2. Entry(o, 1, "create", None).version = 1
    BY DEF Entry
  <2>3. disk.rows[o].version = IF o \in old THEN 1 ELSE 0
    BY <1>1, <1>2, RowShapes DEF Missing
  <2> QED BY <2>1, <2>2, <2>3
<1>9. JobsHold /\ Transaction
  BY IdleJob, KeysAreNotTokens DEF Init, JobsHold, Holds, Transaction, InTransaction
<1> QED BY <1>4, <1>6, <1>7, <1>8, <1>9 DEF ActionsInv, StoreInv

----------------------------------------------------------------------------------
(* One more change in the tables, with its audit rows. *)
LEMMA Advance ==
  ASSUME StoreInv, NEW o \in Objects, NEW row \in Row, NEW by, NEW A, NEW a \in A,
         a \notin JobActions, A \ {a} \subseteq JobActions,
         row.version = disk.rows[o].version + 1, row.state # "missing",
         disk'.rows = [disk.rows EXCEPT ![o] = row],
         disk'.trail = disk.trail \cup {Entry(o, row.version, x, by) : x \in A}
  PROVE  /\ TrailIsComplete' /\ RowsExist'
         /\ \A i : ChangesOf(disk'.trail, i) =
              ChangesOf(disk.trail, i) \cup
                (IF i = by THEN {[object |-> o, version |-> row.version]} ELSE {})
         /\ \A req : Offered(req) => Offered(req)'
<1>1. /\ disk.rows \in [Objects -> Row] /\ disk.trail \in SUBSET TrailRow
      /\ \A q \in Objects : disk.rows[q].version \in Nat
  BY DEF StoreInv, TypeOK, Tables, Row
<1>2. RowsExist'
  BY <1>1 DEF RowsExist, StoreInv
<1>3. \A req : Offered(req) => Offered(req)'
  BY <1>1 DEF Offered, WellFormed, Request
<1>4. \A i : ChangesOf(disk'.trail, i) =
        ChangesOf(disk.trail, i) \cup
          (IF i = by THEN {[object |-> o, version |-> row.version]} ELSE {})
  BY ChangesAfter
<1>5. TrailIsComplete'
  <2> DEFINE Told(T, q) == {e \in T : e.object = q /\ e.action \notin JobActions}
             new == Entry(o, row.version, a, by)
  <2>1. new.object = o /\ new.version = row.version /\ new.action = a
    BY DEF Entry
  <2>2. \A q \in Objects : Told(disk'.trail, q) =
          Told(disk.trail, q) \cup (IF q = o THEN {new} ELSE {})
    <3>1. \A x \in A : Entry(o, row.version, x, by).object = o /\ Entry(o, row.version, x, by).action = x
      BY DEF Entry
    <3>2. \A x \in A : x \notin JobActions => x = a
      OBVIOUS
    <3> QED BY <2>1, <3>1, <3>2
  <2>3. \A q \in Objects : {e.version : e \in Told(disk.trail, q)} = 1..disk.rows[q].version
    BY DEF TrailIsComplete, StoreInv
  <2>4. \A q \in Objects : \A d, e \in Told(disk.trail, q) : d.version = e.version => d = e
    BY DEF TrailIsComplete, StoreInv
  <2>5. ASSUME NEW q \in Objects, q # o
        PROVE  /\ {e.version : e \in Told(disk'.trail, q)} = 1..disk'.rows[q].version
               /\ \A d, e \in Told(disk'.trail, q) : d.version = e.version => d = e
    BY <1>1, <2>2, <2>3, <2>4, <2>5
  <2>6. /\ {e.version : e \in Told(disk'.trail, o)} = 1..disk'.rows[o].version
        /\ \A d, e \in Told(disk'.trail, o) : d.version = e.version => d = e
    <3> DEFINE v == disk.rows[o].version
    <3>1. v \in Nat /\ disk'.rows[o].version = v + 1 /\ new.version = v + 1
      BY <1>1, <2>1
    <3>2. Told(disk'.trail, o) = Told(disk.trail, o) \cup {new}
      BY <2>2
    <3>3. {e.version : e \in Told(disk.trail, o)} = 1..v
      BY <2>3
    <3>4. \A e \in Told(disk.trail, o) : e.version \in 1..v
      BY <3>3
    <3> HIDE DEF Told, new, v
    <3>5. {e.version : e \in Told(disk'.trail, o)} = (1..v) \cup {v + 1}
      BY <3>1, <3>2, <3>3
    <3>6. 1..(v + 1) = (1..v) \cup {v + 1}
      BY <3>1
    <3>7. \A d, e \in Told(disk'.trail, o) : d.version = e.version => d = e
      BY <2>4, <3>1, <3>2, <3>4
    <3> QED BY <3>1, <3>5, <3>6, <3>7
  <2> HIDE DEF new
  <2> QED BY <2>5, <2>6 DEF TrailIsComplete
<1> QED BY <1>2, <1>3, <1>4, <1>5

----------------------------------------------------------------------------------
(* Steps that leave the disk alone: of a handler outside the transaction, the end *)
(* of one without a trace, and the steps inside.                                  *)
Books ==
  /\ DOMAIN presses = BOOLEAN /\ heard \in [Ids -> SUBSET (Step \cup {None})]
  /\ now \in Nat /\ requests \in Nat /\ changes \in Nat /\ faults \in Nat

LEMMA DiskKept ==
  ASSUME ActionsInv, UNCHANGED <<domain, disk>>, TypeOK'
  PROVE  StoreInv' /\ \A j : (Holds(j) => Holds(j)')
<1>1. StoreInv'
  BY DEF ActionsInv, StoreInv, RowsExist, KeysRouted, TokensOffered, SealedTogether, ActsOnSeen,
     TrailIsComplete, Offered, Requested
<1>2. \A j : Holds(j) => Holds(j)'
  BY DEF Holds, Offered
<1> QED BY <1>1, <1>2

LEMMA Outside ==
  ASSUME ActionsInv, UNCHANGED <<domain, disk, work, owner>>, Books',
         NEW h \in Handlers, NEW x \in JobRow, job' = [job EXCEPT ![h] = x],
         job[h].pc \notin InTransaction, x.pc \notin InTransaction, Holds(x)
  PROVE  ActionsInv'
<1>1. owner # h
  BY DEF ActionsInv, StoreInv, TypeOK
<1>2. TypeOK'
  BY <1>1 DEF ActionsInv, StoreInv, TypeOK, Books
<1>3. JobsHold'
  BY <1>2, DiskKept DEF ActionsInv, StoreInv, TypeOK, JobsHold
<1>4. Transaction'
  <2> SUFFICES ASSUME NEW g \in Handlers, owner = g PROVE Sees(job[g])'
    BY DEF Transaction
  <2>1. job'[g] = job[g]
    BY <1>1 DEF ActionsInv, StoreInv, TypeOK
  <2>2. Sees(job[g])
    BY DEF ActionsInv, Transaction
  <2>3. \A j : Sees(j) => Sees(j)'
    BY DEF Sees, Unused, Found, RowsSeen, TrailSeen, KeysSeen, TokensSeen, Written, Effect
  <2> QED BY <2>1, <2>2, <2>3
<1> QED BY <1>2, <1>3, <1>4, DiskKept DEF ActionsInv

LEMMA Ends ==
  ASSUME ActionsInv, UNCHANGED <<domain, disk>>, Books', Rollback,
         NEW h \in Handlers, NEW x \in JobRow, job' = [job EXCEPT ![h] = x],
         owner = h, x.pc \notin InTransaction, Holds(x)
  PROVE  ActionsInv'
<1>1. TypeOK'
  BY KeysAreNotTokens DEF ActionsInv, StoreInv, TypeOK, Books, Rollback
<1>2. JobsHold'
  BY <1>1, DiskKept DEF ActionsInv, StoreInv, TypeOK, JobsHold
<1>3. Transaction'
  BY KeysAreNotTokens DEF Transaction, Rollback
<1> QED BY <1>1, <1>2, <1>3, DiskKept DEF ActionsInv

LEMMA Inside ==
  ASSUME ActionsInv, UNCHANGED <<domain, disk>>, Books',
         NEW h \in Handlers, NEW x \in JobRow, job' = [job EXCEPT ![h] = x],
         owner \in {h, None}, owner' = h, work' \in Tables,
         x.pc \in InTransaction, Holds(x), Sees(x)'
  PROVE  ActionsInv'
<1>1. TypeOK'
  BY KeysAreNotTokens DEF ActionsInv, StoreInv, TypeOK, Books
<1>2. JobsHold'
  BY <1>1, DiskKept DEF ActionsInv, StoreInv, TypeOK, JobsHold
<1>3. job'[h] = x
  BY DEF ActionsInv, StoreInv, TypeOK
<1>4. Transaction'
  <2> SUFFICES ASSUME NEW g \in Handlers, owner' = g PROVE Sees(job[g])'
    BY DEF Transaction
  <2> QED BY <1>3
<1> QED BY <1>1, <1>2, <1>4, DiskKept DEF ActionsInv

----------------------------------------------------------------------------------
(* What clients ask, what lists offer, what is answered. *)
LEMMA AskedIsRouted ==
  ASSUME TypeOK, NEW req \in Asked
  PROVE  Routed(req)
<1>1. /\ \A d : RoutesOf(d) \subseteq Ops \ {"retry"}
      /\ \A op, o, v : Req(op, o, v).op = op /\ Req(op, o, v).object = o /\ Req(op, o, v).version = v
      /\ \A op \in Ops, o \in Objects \cup Domains, v \in Nat : Req(op, o, v) \in Request
  BY DEF RoutesOf, ReminderRoutes, TaskRoutes, EventRoutes, Ops, Req, Request
<1>2. CASE \E d \in Domains : req = Req("create", d, 0)
  BY <1>1, <1>2 DEF Routed, WellFormed, Ops
<1>3. CASE \E o \in Objects : \E op \in RoutesOf(domain[o]) \ {"create"}, v \in 1..disk.rows[o].version :
             req = Req(op, o, v)
  <2>0. PICK o \in Objects : \E op \in RoutesOf(domain[o]) \ {"create"},
                                 v \in 1..disk.rows[o].version : req = Req(op, o, v)
    BY <1>3
  <2>1. PICK op \in Ops \ {"create", "retry"}, v \in 1..disk.rows[o].version : req = Req(op, o, v)
    BY <1>1, <2>0
  <2>2. disk.rows[o].version \in Nat
    BY DEF TypeOK, Tables, Row
  <2>3. v \in Nat /\ v >= 1
    BY <2>1, <2>2
  <2> QED BY <1>1, <2>1, <2>3 DEF Routed, WellFormed
<1> QED BY <1>2, <1>3 DEF Asked

LEMMA ListedIsOffered ==
  ASSUME StoreInv, NEW req \in Listed
  PROVE  Offered(req)
<1>1. PICK o \in Objects : req \in Buttons(o)
  BY DEF Listed
<1>2. PICK op \in {"complete", "cancel", "retry"} :
        /\ req = Req(op, o, disk.rows[o].version)
        /\ disk.rows[o].state # "missing"
        /\ op = "retry" => disk.rows[o].state = "failed"
  BY <1>1 DEF Buttons, ReminderButtons, TaskButtons
<1>3. disk.rows[o].version \in Nat /\ disk.rows[o].version # 0
  BY <1>2 DEF StoreInv, TypeOK, Tables, Row, RowsExist
<1> QED BY <1>2, <1>3 DEF Offered, WellFormed, Req, Request, Ops

LEMMA Answering ==
  ASSUME ActionsInv, NEW h \in Handlers, NEW a \in Replies, Answers(h, a),
         a \in {"done", "consumed"} /\ job[h].by \in Ids => ChangesOf(disk.trail, job[h].by) # {}
  PROVE  \E x \in JobRow : job' = [job EXCEPT ![h] = x] /\ x.pc = "answer" /\ Holds(x)
<1> DEFINE x == [Idle EXCEPT !.pc = "answer", !.by = job[h].by, !.answer = a]
<1>1. job[h] \in JobRow /\ Holds(job[h])
  BY DEF ActionsInv, StoreInv, TypeOK, JobsHold
<1>2. /\ x \in JobRow /\ x.pc = "answer" /\ x.by = job[h].by /\ x.answer = a /\ x.todo = {}
  BY <1>1 DEF Idle, JobRow, States
<1>3. job' = [job EXCEPT ![h] = x]
  BY DEF Answers
<1> HIDE DEF x
<1>4. Holds(x)
  BY <1>1, <1>2 DEF Holds, InTransaction
<1> QED BY <1>2, <1>3, <1>4

----------------------------------------------------------------------------------
(* The steps of a handler outside the transaction. *)
LEMMA AskKeeps ==
  ASSUME ActionsInv, NEW h \in Handlers, NEW k \in Keys, Ask(h, k)
  PROVE  ActionsInv'
<1>1. PICK req \in Asked \cup (IF disk.keys[k].used THEN {disk.keys[k].req} ELSE {}) :
        job' = [job EXCEPT ![h] = [Idle EXCEPT !.pc = "begin", !.by = k, !.req = req]]
  BY DEF Ask
<1> DEFINE x == [Idle EXCEPT !.pc = "begin", !.by = k, !.req = req]
<1>2. Routed(req)
  BY <1>1, AskedIsRouted DEF ActionsInv, StoreInv, KeysRouted
<1>3. /\ x \in JobRow /\ x.pc = "begin" /\ x.by = k /\ x.req = req /\ x.answer = "none"
      /\ x.todo = {}
  BY <1>2, KeysAreNotTokens DEF Idle, JobRow, States, Replies, Routed, WellFormed
<1>4. job' = [job EXCEPT ![h] = x]
  BY <1>1
<1> HIDE DEF x
<1>5. Holds(x) /\ x.pc \notin InTransaction
  BY <1>2, <1>3, KeysAreNotTokens DEF Holds, InTransaction
<1>6. Books' /\ job[h].pc \notin InTransaction /\ UNCHANGED <<domain, disk, work, owner>>
  BY DEF Ask, Books, ActionsInv, StoreInv, TypeOK, InTransaction
<1> QED BY <1>3, <1>4, <1>5, <1>6, Outside

LEMMA PressKeeps ==
  ASSUME ActionsInv, NEW h \in Handlers, NEW t \in Tokens, NEW own \in BOOLEAN, Press(h, t, own)
  PROVE  ActionsInv'
<1> DEFINE x == [Idle EXCEPT !.pc = "begin", !.by = t, !.own = own, !.at = now]
           y == [Idle EXCEPT !.pc = "answer", !.answer = "limited"]
<1>1. job' = [job EXCEPT ![h] = x] \/ job' = [job EXCEPT ![h] = y]
  BY DEF Press
<1>2. /\ x \in JobRow /\ x.pc = "begin" /\ x.by = t /\ x.answer = "none" /\ x.todo = {}
      /\ y \in JobRow /\ y.pc = "answer" /\ y.by = None /\ y.answer = "limited" /\ y.todo = {}
  BY KeysAreNotTokens DEF Idle, JobRow, States, Replies, ActionsInv, StoreInv, TypeOK
<1> HIDE DEF x, y
<1>3. disk.tokens[t].status # "unissued"
  BY DEF Press
<1>4. Holds(x) /\ x.pc \notin InTransaction /\ Holds(y) /\ y.pc \notin InTransaction
  BY <1>2, <1>3, KeysAreNotTokens DEF Holds, InTransaction
<1>5. Books' /\ job[h].pc \notin InTransaction /\ UNCHANGED <<domain, disk, work, owner>>
  BY DEF Press, Books, ActionsInv, StoreInv, TypeOK, InTransaction
<1> QED BY <1>1, <1>2, <1>4, <1>5, Outside

LEMMA ListKeeps ==
  ASSUME ActionsInv, NEW h \in Handlers, OpenList(h) \/ ReadList(h)
  PROVE  ActionsInv'
<1>1. job[h] \in JobRow /\ Holds(job[h]) /\ Listed \in SUBSET Request
  BY ListedIsOffered DEF ActionsInv, StoreInv, TypeOK, JobsHold, Offered, WellFormed
<1> DEFINE x == [Idle EXCEPT !.pc = "view", !.todo = Listed, !.answer = "shown"]
           y == [job[h] EXCEPT !.pc = "view", !.todo = Listed]
<1>2. job' = [job EXCEPT ![h] = x] \/ job' = [job EXCEPT ![h] = y]
  BY DEF OpenList, ReadList
<1>3. /\ x \in JobRow /\ x.pc = "view" /\ x.by = None /\ x.todo = Listed
      /\ y \in JobRow /\ y.pc = "view" /\ y.by = job[h].by /\ y.todo = Listed
      /\ y.answer = job[h].answer
  BY <1>1 DEF Idle, JobRow, States, Replies
<1> HIDE DEF x, y
<1>4. Holds(x) /\ x.pc \notin InTransaction /\ Holds(y) /\ y.pc \notin InTransaction
  BY <1>1, <1>3, KeysAreNotTokens, ListedIsOffered DEF Holds, InTransaction, ActionsInv
<1>5. Books' /\ job[h].pc \notin InTransaction /\ UNCHANGED <<domain, disk, work, owner>>
  BY DEF OpenList, ReadList, KeepRest, Books, ActionsInv, StoreInv, TypeOK, InTransaction
<1> QED BY <1>2, <1>3, <1>4, <1>5, Outside

LEMMA ShowListKeeps ==
  ASSUME ActionsInv, NEW h \in Handlers, job[h].pc \in {"list", "view"},
         Answers(h, job[h].answer), UNCHANGED <<domain, disk, work, owner>>, Books'
  PROVE  ActionsInv'
<1>1. job[h] \in JobRow /\ Holds(job[h])
  BY DEF ActionsInv, StoreInv, TypeOK, JobsHold
<1>2. job[h].answer \in Replies
  BY <1>1 DEF JobRow
<1>3. PICK x \in JobRow : job' = [job EXCEPT ![h] = x] /\ x.pc = "answer" /\ Holds(x)
  BY <1>1, <1>2, Answering DEF Holds
<1> QED BY <1>3, Outside DEF InTransaction

LEMMA AnswerKeeps ==
  ASSUME ActionsInv, NEW h \in Handlers, Answer(h) \/ LoseAnswer(h)
  PROVE  ActionsInv'
<1>1. job[h] \in JobRow /\ disk \in Tables
  BY DEF ActionsInv, StoreInv, TypeOK
<1>2. Said(h) \in SUBSET (Step \cup {None}) \/ job[h].by \notin Ids
  BY <1>1, ChangesAreSteps DEF Said, Tables, KeyRow, Ids
<1>3. job[h].by = None \/ job[h].by \in Ids
  BY <1>1 DEF JobRow
<1>4. Books'
  <2>1. heard' \in [Ids -> SUBSET (Step \cup {None})]
    BY <1>2, <1>3, KeysAreNotTokens DEF Answer, LoseAnswer, ActionsInv, StoreInv, TypeOK
  <2> QED BY <2>1 DEF Answer, LoseAnswer, KeepRest, Books, ActionsInv, StoreInv, TypeOK
<1>5. job' = [job EXCEPT ![h] = Idle] /\ Holds(Idle) /\ Idle.pc \notin InTransaction
  BY IdleJob, KeysAreNotTokens DEF Answer, LoseAnswer, Holds, InTransaction
<1>6. job[h].pc \notin InTransaction /\ UNCHANGED <<domain, disk, work, owner>>
  BY DEF Answer, LoseAnswer, KeepRest, InTransaction
<1> QED BY <1>4, <1>5, <1>6, IdleJob, Outside

----------------------------------------------------------------------------------
(* The steps of the transaction. *)
LEMMA BeginKeeps ==
  ASSUME ActionsInv, NEW h \in Handlers, Begin(h)
  PROVE  ActionsInv'
<1>0. PICK x : x = [job[h] EXCEPT !.pc = "check"]
  OBVIOUS
<1>1. job[h] \in JobRow /\ Holds(job[h]) /\ job[h].pc = "begin"
  BY DEF ActionsInv, StoreInv, TypeOK, JobsHold, Begin
<1>2. /\ x \in JobRow /\ x.pc = "check" /\ x.by = job[h].by /\ x.req = job[h].req
      /\ x.answer = job[h].answer /\ x.todo = job[h].todo
  BY <1>0, <1>1 DEF JobRow, InTransaction
<1>3. job' = [job EXCEPT ![h] = x]
  BY <1>0, <1>1 DEF Begin, Goes, ActionsInv, StoreInv, TypeOK, JobRow
<1>4. Holds(x) /\ x.pc \in InTransaction
  BY <1>1, <1>2 DEF Holds, InTransaction
<1>5. /\ owner = None /\ owner' = h /\ work' = disk /\ UNCHANGED <<domain, disk>>
      /\ work' \in Tables /\ Books'
  BY DEF Begin, KeepRest, Books, ActionsInv, StoreInv, TypeOK
<1>6. Sees(x)'
  BY <1>2, <1>5 DEF Sees, RowsSeen, TrailSeen, KeysSeen, TokensSeen
<1> QED BY <1>2, <1>3, <1>4, <1>5, <1>6, Inside

(* A handler's record and its view of the tables, with owner = h. *)
LEMMA Open ==
  ASSUME ActionsInv, NEW h \in Handlers, owner = h
  PROVE  /\ job[h] \in JobRow /\ Holds(job[h]) /\ Sees(job[h])
         /\ job[h].pc \in InTransaction /\ job[h].by \in Ids /\ job[h].answer = "none"
         /\ disk \in Tables /\ work \in Tables
BY DEF ActionsInv, StoreInv, TypeOK, JobsHold, Transaction, Holds

LEMMA CheckKeyKeeps ==
  ASSUME ActionsInv, NEW h \in Handlers, Check(h), CheckKey(h)
  PROVE  ActionsInv'
<1> DEFINE k == job[h].by
<1>1. owner = h /\ job[h].pc = "check" /\ k \in Keys /\ UNCHANGED <<domain, disk>> /\ Books'
  BY DEF Check, CheckKey, KeepRest, Books, ActionsInv, StoreInv, TypeOK
<1>2. /\ job[h] \in JobRow /\ Holds(job[h]) /\ Sees(job[h]) /\ disk \in Tables /\ work \in Tables
      /\ job[h].answer = "none"
  BY <1>1, Open
<1>3. work.rows = disk.rows /\ work.trail = disk.trail /\ work.keys = disk.keys /\ work.tokens = disk.tokens
  BY <1>1, <1>2 DEF Sees, RowsSeen, TrailSeen, KeysSeen, TokensSeen
<1>4. Routed(job[h].req)
  BY <1>1, <1>2 DEF Holds, InTransaction
<1>5. CASE KeyVerdict(work.keys[k], job[h].req) = "go on"
  <2>0. PICK x : x = [job[h] EXCEPT !.pc = "change"]
    OBVIOUS
  <2>1. /\ x \in JobRow /\ x.pc = "change" /\ x.by = k /\ x.req = job[h].req
        /\ x.answer = job[h].answer /\ x.todo = job[h].todo
    BY <1>2, <2>0 DEF JobRow, InTransaction
  <2>2. job' = [job EXCEPT ![h] = x] /\ owner' = h
    BY <1>1, <1>2, <1>5, <2>0 DEF CheckKey, Goes, ActionsInv, StoreInv, TypeOK, JobRow
  <2>3. work' = [work EXCEPT !.keys[k] = Claim(job[h].req)]
    BY <1>5 DEF CheckKey
  <2>4. /\ work'.rows = work.rows /\ work'.trail = work.trail /\ work'.tokens = work.tokens
        /\ work'.keys = [work.keys EXCEPT ![k] = Claim(job[h].req)]
        /\ work' = [rows |-> work'.rows, trail |-> work'.trail, keys |-> work'.keys,
                    tokens |-> work'.tokens]
    BY <1>2, <2>3 DEF Tables
  <2>5. Claim(job[h].req) \in KeyRow
    BY <1>4 DEF Claim, KeyRow, Routed, WellFormed
  <2>6. work' \in Tables
    BY <1>1, <1>2, <2>4, <2>5 DEF Tables
  <2>7. disk.keys[k].used = FALSE
    <3>1. disk.keys[k] \in KeyRow
      BY <1>1, <1>2 DEF Tables
    <3> QED BY <1>3, <1>5, <3>1 DEF KeyVerdict, KeyRow
  <2> HIDE DEF k
  <2>8. Holds(x) /\ x.pc \in InTransaction
    BY <1>2, <1>4, <2>1, <1>1 DEF Holds, InTransaction, k
  <2>9. Sees(x)'
    BY <1>1, <1>3, <1>4, <2>1, <2>4, <2>7, KeysAreNotTokens
       DEF Sees, RowsSeen, TrailSeen, KeysSeen, TokensSeen, Unused, Claim, Routed
  <2> QED BY <1>1, <2>1, <2>2, <2>6, <2>8, <2>9, Inside
<1>6. CASE KeyVerdict(work.keys[k], job[h].req) # "go on"
  <2> DEFINE a == KeyVerdict(work.keys[k], job[h].req)
  <2>1. Rollback /\ Answers(h, a)
    BY <1>6 DEF CheckKey
  <2>2. a \in Replies /\ a # "consumed" /\ (a = "done" => disk.keys[k].reply # {})
    BY <1>3, <1>6 DEF KeyVerdict, Replies
  <2>3. a = "done" => ChangesOf(disk.trail, k) # {}
    BY <1>1, <2>2 DEF ActionsInv, StoreInv, SealedTogether
  <2> HIDE DEF a
  <2>4. PICK x \in JobRow : job' = [job EXCEPT ![h] = x] /\ x.pc = "answer" /\ Holds(x)
    BY <2>1, <2>2, <2>3, Answering
  <2> QED BY <1>1, <2>1, <2>4, Ends DEF InTransaction
<1> QED BY <1>5, <1>6

LEMMA CheckTokenKeeps ==
  ASSUME ActionsInv, NEW h \in Handlers, Check(h), CheckToken(h)
  PROVE  ActionsInv'
<1> DEFINE t == job[h].by
           a == TokenVerdict(work.tokens[t], job[h].own, job[h].at)
<1>1. owner = h /\ job[h].pc = "check" /\ t \in Tokens /\ UNCHANGED <<domain, disk>> /\ Books'
  BY DEF Check, CheckToken, KeepRest, Books, ActionsInv, StoreInv, TypeOK
<1>2. /\ job[h] \in JobRow /\ Holds(job[h]) /\ Sees(job[h]) /\ disk \in Tables /\ work \in Tables
      /\ job[h].answer = "none"
  BY <1>1, Open
<1>3. work.rows = disk.rows /\ work.trail = disk.trail /\ work.keys = disk.keys /\ work.tokens = disk.tokens
  BY <1>1, <1>2 DEF Sees, RowsSeen, TrailSeen, KeysSeen, TokensSeen
<1>4. disk.tokens[t] \in TokenRow /\ disk.tokens[t].status # "unissued"
  BY <1>1, <1>2 DEF Tables, Holds
<1>5. CASE a = "go on"
  <2>0. PICK x : x = [job[h] EXCEPT !.pc = "change", !.req = work.tokens[t].req,
                                    !.own = TRUE, !.at = 0]
    OBVIOUS
  <2>1. disk.tokens[t].status = "issued" /\ Offered(disk.tokens[t].req)
    BY <1>1, <1>3, <1>4, <1>5 DEF TokenVerdict, TokenRow, ActionsInv, StoreInv, TokensOffered
  <2>2. /\ x \in JobRow /\ x.pc = "change" /\ x.by = t /\ x.req = disk.tokens[t].req
        /\ x.answer = job[h].answer /\ x.todo = job[h].todo
    BY <1>2, <1>3, <2>0, <2>1 DEF JobRow, InTransaction, Offered, WellFormed
  <2>3. job' = [job EXCEPT ![h] = x] /\ owner' = h /\ work' = work
    BY <1>1, <1>2, <1>5, <2>0 DEF CheckToken, ActionsInv, StoreInv, TypeOK, JobRow
  <2> HIDE DEF t
  <2>4. Holds(x) /\ x.pc \in InTransaction
    BY <1>1, <1>2, <2>2, KeysAreNotTokens DEF Holds, InTransaction, t
  <2>5. Sees(x)'
    BY <1>1, <1>3, <2>1, <2>2, <2>3, KeysAreNotTokens
       DEF Sees, RowsSeen, TrailSeen, KeysSeen, TokensSeen, Unused, Offered
  <2> QED BY <1>1, <1>2, <2>2, <2>3, <2>4, <2>5, Inside
<1>6. CASE a # "go on"
  <2>1. Rollback /\ Answers(h, a)
    BY <1>6 DEF CheckToken
  <2>2. a \in Replies /\ a # "done" /\ (a = "consumed" => disk.tokens[t].status = "consumed")
    BY <1>3, <1>6 DEF TokenVerdict, Replies
  <2>3. a = "consumed" => ChangesOf(disk.trail, t) # {}
    BY <1>1, <2>2 DEF ActionsInv, StoreInv, SealedTogether
  <2> HIDE DEF a
  <2>4. PICK x \in JobRow : job' = [job EXCEPT ![h] = x] /\ x.pc = "answer" /\ Holds(x)
    BY <2>1, <2>2, <2>3, Answering
  <2> QED BY <1>1, <2>1, <2>4, Ends DEF InTransaction
<1> QED BY <1>5, <1>6

(* What a request may change is there at the version it names, so the change makes *)
(* the next version of a row.                                                     *)
LEMMA FoundRow ==
  ASSUME StoreInv, NEW j, WellFormed(j.req), Found(j)
  PROVE  LET row == ChangedRow(j.req.op, domain[j.on], disk.rows[j.on])
         IN /\ row \in Row /\ row.version = disk.rows[j.on].version + 1
            /\ row.state # "missing"
            /\ disk.rows[j.on] \in Row /\ j.req.op \in Ops /\ domain[j.on] \in Domains
<1>1. /\ disk.rows[j.on] \in Row /\ j.req.op \in Ops /\ domain[j.on] \in Domains
      /\ j.req.version = disk.rows[j.on].version
  BY PopulationsAssumption DEF StoreInv, TypeOK, Tables, WellFormed, Request, Found
<1>2. j.req.op = "create" => disk.rows[j.on].version = 0
  BY <1>1 DEF WellFormed
<1>3. j.req.op # "create" => disk.rows[j.on].state # "missing"
  BY <1>1 DEF WellFormed, RowsExist, StoreInv, Found
<1> QED BY <1>1, <1>2, <1>3, ChangedRowIs

LEMMA AcceptedIsFound ==
  ASSUME ActionsInv, NEW h \in Handlers, owner = h, job[h].pc = "change",
         NEW o \in Targets(job[h].req),
         Accepts(job[h].by, job[h].req, domain[o], work.rows[o])
  PROVE  /\ o \in Objects /\ job[h].req.version = disk.rows[o].version
         /\ job[h].req.op = "create" \/ o = job[h].req.object
         /\ ChangesRow(job[h].req.op, work.rows[o])
<1>1. Holds(job[h]) /\ Sees(job[h]) /\ job[h].by \in Ids
  BY Open
<1>2. WellFormed(job[h].req) /\ Unused(job[h]) /\ work.rows = disk.rows
  BY <1>1 DEF Sees, RowsSeen
<1>3. o \in Objects /\ (job[h].req.op = "create" \/ o = job[h].req.object)
  BY <1>2 DEF Targets, Missings, WellFormed
<1>4. job[h].req.version = disk.rows[o].version
  BY <1>2 DEF Accepts
<1>5. CASE job[h].req.op = "retry"
  <2>1. job[h].by \in Tokens
    BY <1>1, <1>5 DEF Holds, Routed, InTransaction, Ids
  <2>2. Offered(job[h].req)
    BY <1>2, <2>1 DEF Unused, ActionsInv, StoreInv, TokensOffered
  <2> QED BY <1>2, <1>3, <1>4, <1>5, <2>2 DEF Offered, ChangesRow
<1>6. CASE job[h].req.op # "retry"
  BY <1>3, <1>4, <1>6 DEF ChangesRow
<1> QED BY <1>3, <1>4, <1>5, <1>6

LEMMA ChangeKeeps ==
  ASSUME ActionsInv, NEW h \in Handlers, Change(h)
  PROVE  ActionsInv'
<1>1. owner = h /\ job[h].pc = "change" /\ UNCHANGED <<domain, disk>> /\ Books'
  BY DEF Change, KeepRest, Books, ActionsInv, StoreInv, TypeOK
<1>2. /\ job[h] \in JobRow /\ Holds(job[h]) /\ Sees(job[h]) /\ disk \in Tables /\ work \in Tables
      /\ job[h].answer = "none" /\ job[h].by \in Ids
  BY <1>1, Open
<1>3. /\ work.rows = disk.rows /\ work.trail = disk.trail /\ work.tokens = disk.tokens
      /\ work.keys = KeysSeen(job[h]) /\ WellFormed(job[h].req) /\ Unused(job[h])
  BY <1>1, <1>2 DEF Sees, RowsSeen, TrailSeen, TokensSeen
<1>4. PICK o \in Targets(job[h].req) :
        LET req == job[h].req
            row == work.rows[o]
        IN IF ~Accepts(job[h].by, req, domain[o], row)
           THEN Rollback /\ Answers(h, "refused")
           ELSE IF ChangesRow(req.op, row)
           THEN /\ work' = [work EXCEPT !.rows[o] = ChangedRow(req.op, domain[o], row)]
                /\ job' = [job EXCEPT ![h].pc = "audit", ![h].on = o, ![h].before = row.state]
                /\ UNCHANGED owner
           ELSE Goes(h, "seal") /\ UNCHANGED <<owner, work>>
  BY DEF Change
<1>5. CASE ~Accepts(job[h].by, job[h].req, domain[o], work.rows[o])
  <2>1. Rollback /\ Answers(h, "refused")
    BY <1>4, <1>5
  <2>2. PICK x \in JobRow : job' = [job EXCEPT ![h] = x] /\ x.pc = "answer" /\ Holds(x)
    BY <2>1, Answering DEF Replies
  <2> QED BY <1>1, <2>1, <2>2, Ends DEF InTransaction
<1>6. CASE Accepts(job[h].by, job[h].req, domain[o], work.rows[o])
  <2>0. PICK x : x = [job[h] EXCEPT !.pc = "audit", !.on = o, !.before = work.rows[o].state]
    OBVIOUS
  <2>1. /\ o \in Objects /\ job[h].req.version = disk.rows[o].version
        /\ job[h].req.op = "create" \/ o = job[h].req.object
        /\ ChangesRow(job[h].req.op, work.rows[o])
    BY <1>1, <1>6, AcceptedIsFound
  <2>2. disk.rows[o] \in Row /\ disk.rows[o].state \in States
    BY <1>2, <2>1 DEF Tables, Row
  <2>3. /\ x \in JobRow /\ x.pc = "audit" /\ x.by = job[h].by /\ x.req = job[h].req /\ x.on = o
        /\ x.answer = job[h].answer /\ x.todo = job[h].todo
    BY <1>2, <1>3, <2>0, <2>1, <2>2 DEF JobRow, InTransaction
  <2>4. job' = [job EXCEPT ![h] = x] /\ owner' = h
    BY <1>1, <1>2, <1>4, <1>6, <2>0, <2>1 DEF ActionsInv, StoreInv, TypeOK, JobRow
  <2>5. Found(x) /\ WellFormed(x.req) /\ Unused(x)
    BY <1>3, <2>1, <2>3 DEF Found, Unused
  <2> DEFINE row == ChangedRow(x.req.op, domain[o], disk.rows[o])
  <2>6. row \in Row
    BY <2>3, <2>5, FoundRow DEF ActionsInv
  <2>7. work' = [work EXCEPT !.rows[o] = row]
    BY <1>3, <1>4, <1>6, <2>1, <2>3
  <2> HIDE DEF row
  <2>8. /\ work'.rows = [disk.rows EXCEPT ![o] = row] /\ work'.trail = disk.trail
        /\ work'.tokens = disk.tokens /\ work'.keys = work.keys
        /\ work' \in Tables
    BY <1>2, <1>3, <2>6, <2>7 DEF Tables
  <2>9. Holds(x) /\ x.pc \in InTransaction
    BY <1>1, <1>2, <2>3 DEF Holds, InTransaction
  <2>10. work'.keys = KeysSeen(x)'
    BY <1>1, <1>3, <2>3, <2>8 DEF KeysSeen
  <2>11. Sees(x)'
    BY <1>1, <2>3, <2>5, <2>8, <2>10 DEF Sees, RowsSeen, TrailSeen, TokensSeen, Unused, Found, row
  <2> QED BY <1>1, <2>3, <2>4, <2>8, <2>9, <2>11, Inside
<1> QED BY <1>5, <1>6

LEMMA AuditKeeps ==
  ASSUME ActionsInv, NEW h \in Handlers, Audit(h)
  PROVE  ActionsInv'
<1>0. PICK x : x = [job[h] EXCEPT !.pc = "seal"]
  OBVIOUS
<1>1. /\ owner = h /\ job[h].pc = "audit" /\ UNCHANGED <<domain, disk, owner>> /\ Books'
      /\ Goes(h, "seal")
  BY DEF Audit, KeepRest, Books, ActionsInv, StoreInv, TypeOK
<1>2. /\ job[h] \in JobRow /\ Holds(job[h]) /\ Sees(job[h]) /\ disk \in Tables /\ work \in Tables
      /\ job[h].answer = "none" /\ job[h].by \in Ids
  BY <1>1, Open
<1>3. /\ WellFormed(job[h].req) /\ Unused(job[h]) /\ Found(job[h]) /\ work.rows = RowsSeen(job[h])
      /\ work.trail = disk.trail /\ work.tokens = disk.tokens /\ work.keys = KeysSeen(job[h])
  BY <1>1, <1>2 DEF Sees, TrailSeen, TokensSeen
<1>4. /\ x \in JobRow /\ x.pc = "seal" /\ x.by = job[h].by /\ x.req = job[h].req
      /\ x.on = job[h].on /\ x.before = job[h].before
      /\ x.answer = job[h].answer /\ x.todo = job[h].todo
  BY <1>0, <1>2 DEF JobRow, InTransaction
<1>5. job' = [job EXCEPT ![h] = x]
  BY <1>0, <1>1, <1>2 DEF Goes, ActionsInv, StoreInv, TypeOK, JobRow
<1>6. Found(x) /\ WellFormed(x.req) /\ Unused(x) /\ x.on \in Objects
  BY <1>3, <1>4 DEF Found, Unused
<1>7. /\ work.rows = RowsSeen(x) /\ work.keys = KeysSeen(x)
      /\ work.rows[x.on].version = disk.rows[x.on].version + 1
      /\ disk.rows[x.on].version + 1 \in Nat /\ x.req.op \in Ops
  <2>1. work.rows = RowsSeen(x) /\ work.keys = KeysSeen(x)
    BY <1>1, <1>3, <1>4 DEF RowsSeen, KeysSeen
  <2> DEFINE row == ChangedRow(x.req.op, domain[x.on], disk.rows[x.on])
  <2>2. /\ row.version = disk.rows[x.on].version + 1 /\ disk.rows[x.on] \in Row
        /\ x.req.op \in Ops
    BY <1>6, FoundRow DEF ActionsInv
  <2>3. work.rows = [disk.rows EXCEPT ![x.on] = row] /\ x.on \in DOMAIN disk.rows
    BY <1>2, <1>4, <1>6, <2>1 DEF RowsSeen, Tables
  <2> HIDE DEF row
  <2> QED BY <2>1, <2>2, <2>3 DEF Row
<1>8. work' = [work EXCEPT !.trail = disk.trail \cup Written(x)]
  BY <1>3, <1>4, <1>7 DEF Audit, Written
<1>9. Written(x) \in SUBSET TrailRow
  BY <1>2, <1>4, <1>6, <1>7, ActionsAre DEF Written, Entry, TrailRow
<1>10. /\ work'.rows = work.rows /\ work'.keys = work.keys /\ work'.tokens = work.tokens
       /\ work'.trail = disk.trail \cup Written(x) /\ work' \in Tables
  BY <1>2, <1>8, <1>9 DEF Tables
<1>11. Holds(x) /\ x.pc \in InTransaction
  BY <1>1, <1>2, <1>4 DEF Holds, InTransaction
<1>12. /\ work'.rows = RowsSeen(x)' /\ work'.keys = KeysSeen(x)'
       /\ work'.trail = TrailSeen(x)' /\ work'.tokens = TokensSeen(x)'
  BY <1>1, <1>3, <1>4, <1>7, <1>10 DEF RowsSeen, KeysSeen, TrailSeen, TokensSeen, Written
<1>13. Sees(x)'
  BY <1>1, <1>6, <1>12 DEF Sees, Unused, Found
<1> QED BY <1>1, <1>4, <1>5, <1>10, <1>11, <1>13, Inside

(* What the trail that the transaction sees says of its key or token. *)
LEMMA OneEffect ==
  ASSUME StoreInv, NEW j, WellFormed(j.req), Found(j), Unused(j), j.by \in Ids
  PROVE  /\ ChangesOf(disk.trail, j.by) = {}
         /\ ChangesOf(disk.trail \cup Written(j), j.by) = {Effect(j)}
<1>1. ChangesOf(disk.trail, j.by) = {}
  <2>1. CASE j.by \in Keys
    BY <2>1 DEF Unused, StoreInv, SealedTogether
  <2>2. CASE j.by \in Tokens
    BY <2>2 DEF Unused, StoreInv, SealedTogether
  <2> QED BY <2>1, <2>2 DEF Ids
<1> DEFINE op == j.req.op
           A == Actions(op, domain[j.on], j.before)
           v == disk.rows[j.on].version + 1
<1>2. op \in A /\ op \notin JobActions
  BY ActionsAre, FoundRow
<1> HIDE DEF A, v, op
<1>3. ChangesOf(disk.trail \cup {Entry(j.on, v, x, j.by) : x \in A}, j.by) =
        ChangesOf(disk.trail, j.by) \cup {[object |-> j.on, version |-> v]}
  BY <1>2, ChangesAfter
<1> QED BY <1>1, <1>3 DEF Written, Effect, A, v, op

LEMMA SealKeeps ==
  ASSUME ActionsInv, NEW h \in Handlers, Seal(h)
  PROVE  ActionsInv'
<1>0. PICK x : x = [job[h] EXCEPT !.pc = "commit"]
  OBVIOUS
<1>1. /\ owner = h /\ job[h].pc = "seal" /\ UNCHANGED <<domain, disk, owner>> /\ Books'
      /\ Goes(h, "commit")
  BY DEF Seal, KeepRest, Books, ActionsInv, StoreInv, TypeOK
<1>2. /\ job[h] \in JobRow /\ Holds(job[h]) /\ Sees(job[h]) /\ disk \in Tables /\ work \in Tables
      /\ job[h].answer = "none" /\ job[h].by \in Ids
  BY <1>1, Open
<1>3. /\ x \in JobRow /\ x.pc = "commit" /\ x.by = job[h].by /\ x.req = job[h].req
      /\ x.on = job[h].on /\ x.before = job[h].before
      /\ x.answer = job[h].answer /\ x.todo = job[h].todo
  BY <1>0, <1>2 DEF JobRow, InTransaction
<1>4. job' = [job EXCEPT ![h] = x]
  BY <1>0, <1>1, <1>2 DEF Goes, ActionsInv, StoreInv, TypeOK, JobRow
<1>5. /\ WellFormed(x.req) /\ Unused(x) /\ Found(x) /\ work.rows = RowsSeen(x)
      /\ work.trail = disk.trail \cup Written(x) /\ work.trail = TrailSeen(x)
      /\ work.tokens = disk.tokens /\ work.keys = KeysSeen(job[h])
  BY <1>1, <1>2, <1>3 DEF Sees, RowsSeen, TrailSeen, TokensSeen, Written, Unused, Found
<1>6. ChangesOf(work.trail, x.by) = {Effect(x)} /\ {Effect(x)} \in SUBSET Step
  <2>1. ChangesOf(work.trail, x.by) = {Effect(x)}
    BY <1>2, <1>3, <1>5, OneEffect DEF ActionsInv
  <2>2. ChangesOf(work.trail, x.by) \in SUBSET Step
    BY <1>2, ChangesAreSteps DEF Tables
  <2> QED BY <2>1, <2>2
<1>7. work' = Sealed(work, x.by, {Effect(x)})
  BY <1>3, <1>6 DEF Seal
<1>8. CASE x.by \in Keys
  <2>1. work' = [work EXCEPT !.keys[x.by].reply = {Effect(x)}]
    BY <1>7, <1>8 DEF Sealed
  <2>2. work.keys[x.by] \in KeyRow
    BY <1>2, <1>8 DEF Tables
  <2>3. /\ work'.rows = work.rows /\ work'.trail = work.trail /\ work'.tokens = work.tokens
        /\ work'.keys = [work.keys EXCEPT ![x.by].reply = {Effect(x)}]
        /\ work' \in Tables
    BY <1>2, <1>6, <1>8, <2>1, <2>2 DEF Tables, KeyRow
  <2>4. work.keys = [disk.keys EXCEPT ![x.by] = [used |-> TRUE, req |-> x.req, reply |-> {}]]
    BY <1>1, <1>3, <1>5, <1>8 DEF KeysSeen
  <2>5. work'.keys = [disk.keys EXCEPT ![x.by] =
                        [used |-> TRUE, req |-> x.req, reply |-> {Effect(x)}]]
    BY <1>2, <1>8, <2>3, <2>4 DEF Tables
  <2>6. work'.keys = KeysSeen(x)' /\ work'.tokens = TokensSeen(x)'
    BY <1>1, <1>3, <1>5, <1>8, <2>3, <2>5, KeysAreNotTokens DEF KeysSeen, TokensSeen, Effect
  <2>7. work'.rows = RowsSeen(x)' /\ work'.trail = TrailSeen(x)'
    BY <1>1, <1>5, <2>3 DEF RowsSeen, TrailSeen, Written
  <2>8. Sees(x)' /\ Holds(x) /\ x.pc \in InTransaction
    BY <1>1, <1>2, <1>3, <1>5, <2>6, <2>7 DEF Sees, Unused, Found, Holds, InTransaction
  <2> QED BY <1>1, <1>3, <1>4, <2>3, <2>8, Inside
<1>9. CASE x.by \in Tokens
  <2>1. work' = [work EXCEPT !.tokens[x.by].status = "consumed"]
    BY <1>7, <1>9, KeysAreNotTokens DEF Sealed
  <2>2. work.tokens[x.by] \in TokenRow
    BY <1>2, <1>9 DEF Tables
  <2>3. /\ work'.rows = work.rows /\ work'.trail = work.trail /\ work'.keys = work.keys
        /\ work'.tokens = [work.tokens EXCEPT ![x.by].status = "consumed"]
        /\ work' \in Tables
    BY <1>2, <1>9, <2>1, <2>2 DEF Tables, TokenRow
  <2>4. work'.keys = KeysSeen(x)' /\ work'.tokens = TokensSeen(x)'
    BY <1>1, <1>3, <1>5, <1>9, <2>3, KeysAreNotTokens DEF KeysSeen, TokensSeen
  <2>5. work'.rows = RowsSeen(x)' /\ work'.trail = TrailSeen(x)'
    BY <1>1, <1>5, <2>3 DEF RowsSeen, TrailSeen, Written
  <2>6. Sees(x)' /\ Holds(x) /\ x.pc \in InTransaction
    BY <1>1, <1>2, <1>3, <1>5, <2>4, <2>5 DEF Sees, Unused, Found, Holds, InTransaction
  <2> QED BY <1>1, <1>3, <1>4, <2>3, <2>6, Inside
<1> QED BY <1>2, <1>3, <1>8, <1>9 DEF Ids

(* The commit: the disk becomes what the transaction saw. *)
LEMMA CommitIs ==
  ASSUME ActionsInv, NEW h \in Handlers, Commit(h), NEW j, j = job[h]
  PROVE  /\ j \in JobRow /\ Holds(j) /\ j.by \in Ids /\ j.req.op \in Ops
         /\ WellFormed(j.req) /\ Unused(j) /\ Found(j)
         /\ ChangesOf(disk.trail, j.by) = {} /\ ChangesOf(disk'.trail, j.by) = {Effect(j)}
         /\ \A i \in Ids \ {j.by} : ChangesOf(disk'.trail, i) = ChangesOf(disk.trail, i)
         /\ disk'.rows[j.on].version = disk.rows[j.on].version + 1
         /\ \A o \in Objects \ {j.on} : disk'.rows[o].version = disk.rows[o].version
         /\ TrailIsComplete' /\ RowsExist' /\ (\A req : Offered(req) => Offered(req)')
         /\ j.by \in Keys => /\ disk'.tokens = disk.tokens
                             /\ disk'.keys = [disk.keys EXCEPT ![j.by] =
                                  [used |-> TRUE, req |-> j.req, reply |-> {Effect(j)}]]
         /\ j.by \in Tokens => /\ disk'.keys = disk.keys
                               /\ disk'.tokens = [disk.tokens EXCEPT ![j.by].status = "consumed"]
         /\ owner = h /\ j.pc = "commit" /\ disk' = work /\ work \in Tables
<1>1. owner = h /\ j.pc = "commit" /\ disk' = work
  BY DEF Commit
<1>2. j \in JobRow /\ Holds(j) /\ Sees(j) /\ work \in Tables /\ disk \in Tables /\ j.by \in Ids
  BY <1>1, Open
<1>3. WellFormed(j.req) /\ Unused(j) /\ Found(j)
  BY <1>1, <1>2 DEF Sees
<1>4. ChangesOf(disk.trail, j.by) = {}
  BY <1>2, <1>3, OneEffect DEF ActionsInv
<1>5. PICK row : row = ChangedRow(j.req.op, domain[j.on], disk.rows[j.on])
  OBVIOUS
<1>6. PICK A : A = Actions(j.req.op, domain[j.on], j.before)
  OBVIOUS
<1>7. row \in Row /\ row.version = disk.rows[j.on].version + 1 /\ row.state # "missing"
      /\ j.req.op \in Ops
  BY <1>3, <1>5, FoundRow DEF ActionsInv
<1>8. j.req.op \in A /\ j.req.op \notin JobActions /\ A \ {j.req.op} \subseteq JobActions
  BY <1>7, <1>6, ActionsAre
<1>9. /\ disk'.rows = [disk.rows EXCEPT ![j.on] = row]
      /\ disk'.trail = disk.trail \cup {Entry(j.on, row.version, action, j.by) : action \in A}
  BY <1>1, <1>2, <1>7, <1>5, <1>6 DEF Sees, RowsSeen, TrailSeen, Written
<1>10. j.on \in Objects /\ j.on \in DOMAIN disk.rows
  BY <1>2, <1>3 DEF Found, Tables
<1>11. /\ disk'.rows[j.on].version = disk.rows[j.on].version + 1
       /\ \A o \in Objects \ {j.on} : disk'.rows[o].version = disk.rows[o].version
  BY <1>2, <1>7, <1>9, <1>10 DEF Tables
<1>12. /\ TrailIsComplete' /\ RowsExist'
       /\ \A i : ChangesOf(disk'.trail, i) =
            ChangesOf(disk.trail, i) \cup
              (IF i = j.by THEN {[object |-> j.on, version |-> row.version]} ELSE {})
       /\ \A req : Offered(req) => Offered(req)'
  <2>1. PICK a : a = j.req.op
    OBVIOUS
  <2>2. a \in A /\ a \notin JobActions /\ A \ {a} \subseteq JobActions /\ StoreInv
    BY <1>8, <2>1 DEF ActionsInv
  <2>3. PICK by : by = j.by
    OBVIOUS
  <2>4. disk'.trail = disk.trail \cup {Entry(j.on, row.version, action, by) : action \in A}
    BY <1>9, <2>3
  <2>5. /\ TrailIsComplete' /\ RowsExist'
        /\ \A i : ChangesOf(disk'.trail, i) =
             ChangesOf(disk.trail, i) \cup
               (IF i = by THEN {[object |-> j.on, version |-> row.version]} ELSE {})
        /\ \A req : Offered(req) => Offered(req)'
    <3>1. PICK o \in Objects : o = j.on
      BY <1>10
    <3>2. /\ row.version = disk.rows[o].version + 1 /\ row.state # "missing" /\ row \in Row
          /\ disk'.rows = [disk.rows EXCEPT ![o] = row]
          /\ disk'.trail = disk.trail \cup {Entry(o, row.version, x, by) : x \in A}
      BY <1>7, <1>9, <2>4, <3>1
    <3>3. TrailIsComplete' /\ RowsExist'
      BY <2>2, <3>2, Advance
    <3>4. ASSUME NEW i
          PROVE ChangesOf(disk'.trail, i) =
             ChangesOf(disk.trail, i) \cup
               (IF i = by THEN {[object |-> o, version |-> row.version]} ELSE {})
      BY <2>2, <3>2, Advance
    <3>5. ASSUME NEW req, Offered(req) PROVE Offered(req)'
      <4>1. disk.rows \in [Objects -> Row] /\ disk.rows[o].version \in Nat
        BY <1>2 DEF Tables, Row
      <4> QED BY <3>2, <3>5, <4>1 DEF Offered, WellFormed, Request
    <3> QED BY <3>1, <3>3, <3>4, <3>5
  <2> QED BY <2>3, <2>5
<1>13. /\ ChangesOf(disk'.trail, j.by) = {Effect(j)}
       /\ \A i \in Ids \ {j.by} : ChangesOf(disk'.trail, i) = ChangesOf(disk.trail, i)
  <2>1. [object |-> j.on, version |-> row.version] = Effect(j)
    BY <1>7 DEF Effect
  <2>2. \A i : ChangesOf(disk'.trail, i) =
          ChangesOf(disk.trail, i) \cup (IF i = j.by THEN {Effect(j)} ELSE {})
    BY <1>12, <2>1
  <2>3. \A i \in Ids \ {j.by} : ChangesOf(disk'.trail, i) = ChangesOf(disk.trail, i)
    BY <2>2
  <2> QED BY <1>4, <2>2, <2>3
<1>14. j.by \in Keys => /\ disk'.tokens = disk.tokens
                        /\ disk'.keys = [disk.keys EXCEPT ![j.by] =
                             [used |-> TRUE, req |-> j.req, reply |-> {Effect(j)}]]
  BY <1>1, <1>2, KeysAreNotTokens DEF Sees, KeysSeen, TokensSeen
<1>15. j.by \in Tokens => /\ disk'.keys = disk.keys
                          /\ disk'.tokens = [disk.tokens EXCEPT ![j.by].status = "consumed"]
  BY <1>1, <1>2, KeysAreNotTokens DEF Sees, KeysSeen, TokensSeen
<1> QED BY <1>1, <1>2, <1>3, <1>4, <1>7, <1>11, <1>12, <1>13, <1>14, <1>15

LEMMA CommitKeeps ==
  ASSUME ActionsInv, NEW h \in Handlers, Commit(h)
  PROVE  ActionsInv'
<1>0. PICK j : j = job[h]
  OBVIOUS
<1>1. /\ j \in JobRow /\ Holds(j) /\ j.by \in Ids /\ WellFormed(j.req) /\ Unused(j) /\ Found(j)
      /\ owner = h /\ j.pc = "commit" /\ disk' = work /\ work \in Tables
  BY <1>0, CommitIs
<1>2. /\ ChangesOf(disk'.trail, j.by) = {Effect(j)}
      /\ \A i \in Ids \ {j.by} : ChangesOf(disk'.trail, i) = ChangesOf(disk.trail, i)
  <2>1. ChangesOf(disk'.trail, j.by) = {Effect(j)}
    BY <1>0, CommitIs
  <2>2. \A i \in Ids \ {j.by} : ChangesOf(disk'.trail, i) = ChangesOf(disk.trail, i)
    BY <1>0, CommitIs
  <2> QED BY <2>1, <2>2
<1>3. TrailIsComplete' /\ RowsExist' /\ (\A req : Offered(req) => Offered(req)')
  BY <1>0, CommitIs
<1>4. /\ j.by \in Keys => /\ disk'.tokens = disk.tokens
                          /\ disk'.keys = [disk.keys EXCEPT ![j.by] =
                               [used |-> TRUE, req |-> j.req, reply |-> {Effect(j)}]]
      /\ j.by \in Tokens => /\ disk'.keys = disk.keys
                            /\ disk'.tokens = [disk.tokens EXCEPT ![j.by].status = "consumed"]
  BY <1>0, CommitIs
<1>5. disk.keys \in [Keys -> KeyRow] /\ disk.tokens \in [Tokens -> TokenRow] /\ TypeOK
  BY DEF ActionsInv, StoreInv, TypeOK, Tables
<1>6. PICK x : x = [Idle EXCEPT !.pc = IF job[h].by \in Keys THEN "answer" ELSE "list",
                                !.by = job[h].by, !.answer = "done"]
  OBVIOUS
<1>7. /\ x \in JobRow /\ x.pc \in {"answer", "list"} /\ x.by = j.by /\ x.answer = "done"
      /\ x.todo = {} /\ x.pc \notin InTransaction
  <2>1. PICK pc \in {"answer", "list"} : pc = IF job[h].by \in Keys THEN "answer" ELSE "list"
    OBVIOUS
  <2>2. x = [Idle EXCEPT !.pc = pc, !.by = j.by, !.answer = "done"]
    BY <1>0, <1>6, <2>1
  <2> QED BY <1>1, <2>1, <2>2, KeysAreNotTokens DEF Idle, JobRow, States, Replies, InTransaction
<1>8. job' = [job EXCEPT ![h] = x] /\ owner' = None /\ work' = disk' /\ domain' = domain /\ Books'
  BY <1>1, <1>6, <1>5 DEF Commit, KeepRest, Books, TypeOK
<1>9. TypeOK'
  BY <1>1, <1>5, <1>7, <1>8, KeysAreNotTokens DEF TypeOK, Books
<1>10. KeysRouted'
  <2>1. j.by \in Keys => Routed(j.req)
    BY <1>1 DEF Holds, InTransaction
  <2> QED BY <1>1, <1>4, <1>5, <2>1, KeysAreNotTokens DEF KeysRouted, ActionsInv, StoreInv, Ids
<1>11. TokensOffered'
  <2> SUFFICES ASSUME NEW t \in Tokens, disk'.tokens[t].status \in {"issued", "consumed"}
               PROVE  Offered(disk.tokens[t].req)'
    BY DEF TokensOffered
  <2>1. disk'.tokens[t].req = disk.tokens[t].req
    BY <1>1, <1>4, <1>5 DEF Ids, TokenRow
  <2>2. disk.tokens[t].status \in {"issued", "consumed"}
    BY <1>1, <1>4, <1>5 DEF Ids, Unused
  <2>3. PICK r : r = disk.tokens[t].req
    OBVIOUS
  <2>4. Offered(r)
    BY <2>2, <2>3 DEF ActionsInv, StoreInv, TokensOffered
  <2>5. Offered(r)'
    BY <1>3, <2>4
  <2> QED BY <2>1, <2>3, <2>5
<1>12. SealedTogether'
  <2>1. \A k \in Keys : /\ disk'.keys[k].reply = ChangesOf(disk'.trail, k)
                        /\ disk'.keys[k].used <=> disk'.keys[k].reply # {}
    <3> SUFFICES ASSUME NEW k \in Keys
                 PROVE  /\ disk'.keys[k].reply = ChangesOf(disk'.trail, k)
                        /\ disk'.keys[k].used <=> disk'.keys[k].reply # {}
      OBVIOUS
    <3>1. CASE k = j.by
      <4>1. disk'.keys[k] = [used |-> TRUE, req |-> j.req, reply |-> {Effect(j)}]
        BY <1>4, <1>5, <3>1
      <4> QED BY <1>2, <3>1, <4>1
    <3>2. CASE k # j.by
      <4>1. disk'.keys[k] = disk.keys[k]
        BY <1>1, <1>4, <1>5, <3>2 DEF Ids
      <4> QED BY <1>2, <3>2, <4>1 DEF ActionsInv, StoreInv, SealedTogether, Ids
    <3> QED BY <3>1, <3>2
  <2>2. \A t \in Tokens : disk'.tokens[t].status # "gone" =>
          (disk'.tokens[t].status = "consumed" <=> ChangesOf(disk'.trail, t) # {})
    <3> SUFFICES ASSUME NEW t \in Tokens
                 PROVE  disk'.tokens[t].status # "gone" =>
                          (disk'.tokens[t].status = "consumed" <=> ChangesOf(disk'.trail, t) # {})
      OBVIOUS
    <3>1. CASE t = j.by
      <4>1. disk'.tokens[t].status = "consumed"
        BY <1>4, <1>5, <3>1 DEF TokenRow
      <4> QED BY <1>2, <3>1, <4>1
    <3>2. CASE t # j.by
      <4>1. disk'.tokens[t] = disk.tokens[t]
        BY <1>1, <1>4, <1>5, <3>2 DEF Ids
      <4> QED BY <1>2, <3>2, <4>1 DEF ActionsInv, StoreInv, SealedTogether, Ids
    <3> QED BY <3>1, <3>2
  <2> QED BY <2>1, <2>2 DEF SealedTogether
<1>13. ActsOnSeen'
  <2> SUFFICES ASSUME NEW i \in Ids, NEW c \in ChangesOf(disk'.trail, i), Requested(i)' # None
               PROVE  LET req == Requested(i)'
                      IN /\ c.version = req.version + 1
                         /\ c.object \in Objects /\ (req.op = "create" \/ c.object = req.object)
    BY DEF ActsOnSeen
  <2>1. CASE i = j.by
    <3>1. Requested(i)' = j.req
      BY <1>1, <1>4, <1>5, <2>1, KeysAreNotTokens DEF Requested, Unused, Ids, TokenRow
    <3>2. c = Effect(j)
      BY <1>2, <2>1
    <3> QED BY <1>1, <3>1, <3>2 DEF Effect, Found
  <2>2. CASE i # j.by
    <3>1. Requested(i)' = Requested(i)
      BY <1>1, <1>4, <1>5, <2>2, KeysAreNotTokens DEF Requested, Ids
    <3>2. c \in ChangesOf(disk.trail, i)
      BY <1>2, <2>2
    <3> QED BY <3>1, <3>2 DEF ActionsInv, StoreInv, ActsOnSeen
  <2> QED BY <2>1, <2>2
<1>14. JobsHold'
  <2> SUFFICES ASSUME NEW g \in Handlers PROVE Holds(job[g])'
    BY DEF JobsHold
  <2>1. \A t \in Tokens : disk.tokens[t].status # "unissued" => disk'.tokens[t].status # "unissued"
    BY <1>1, <1>4, <1>5, KeysAreNotTokens DEF Ids, TokenRow
  <2>2. \A i \in Ids : ChangesOf(disk.trail, i) # {} => ChangesOf(disk'.trail, i) # {}
    BY <1>2
  <2>3. ASSUME NEW y, Holds(y) PROVE Holds(y)'
    BY <1>3, <2>1, <2>2, <2>3 DEF Holds
  <2>4. CASE g = h
    <3>1. job'[g] = x
      BY <1>8, <1>5, <2>4 DEF TypeOK
    <3>2. Holds(x)'
      <4>1. x.by \in Tokens => disk'.tokens[x.by].status # "unissued"
        BY <1>4, <1>5, <1>7 DEF TokenRow
      <4> QED BY <1>2, <1>7, <4>1 DEF Holds, InTransaction
    <3> QED BY <3>1, <3>2
  <2>5. CASE g # h
    <3>1. PICK y : y = job[g]
      OBVIOUS
    <3>2. Holds(y)'
      BY <2>3, <3>1 DEF ActionsInv, JobsHold
    <3>3. job'[g] = y
      BY <1>8, <1>5, <2>5, <3>1 DEF TypeOK
    <3> QED BY <3>2, <3>3
  <2> QED BY <2>4, <2>5
<1>15. Transaction'
  BY <1>8, KeysAreNotTokens DEF Transaction
<1> QED BY <1>3, <1>9, <1>10, <1>11, <1>12, <1>13, <1>14, <1>15 DEF ActionsInv, StoreInv

----------------------------------------------------------------------------------
(* A list takes tokens that nobody has used, after the expired ones have gone.    *)
LEMMA IssueKeeps ==
  ASSUME ActionsInv, NEW h \in Handlers, Issue(h)
  PROVE  ActionsInv'
<1>1. PICK req \in job[h].todo, t \in Tokens :
        /\ disk.tokens[t] = Unissued
        /\ disk' = [disk EXCEPT !.tokens = [Cleaned(disk.tokens) EXCEPT ![t] =
                      [status |-> "issued", req |-> req, until |-> now + Lifetime]]]
        /\ job' = [job EXCEPT ![h].todo = @ \ {req}]
  BY DEF Issue
<1>2. job[h] \in JobRow /\ Holds(job[h]) /\ disk \in Tables /\ TypeOK /\ now + Lifetime \in Nat
  BY BoundsAssumption DEF ActionsInv, StoreInv, TypeOK, JobsHold
<1>3. Offered(req) /\ req \in Request
  BY <1>1, <1>2 DEF Holds, Offered, WellFormed
<1>4. PICK new : new = [status |-> "issued", req |-> req, until |-> now + Lifetime]
  OBVIOUS
<1>5. /\ new \in TokenRow /\ new.status = "issued" /\ new.req = req
      /\ Gone \in TokenRow /\ Gone.status = "gone" /\ Gone.req = None
  BY <1>2, <1>3, <1>4 DEF TokenRow, Gone
<1>6. /\ disk'.tokens = [Cleaned(disk.tokens) EXCEPT ![t] = new]
      /\ disk'.rows = disk.rows /\ disk'.trail = disk.trail /\ disk'.keys = disk.keys
      /\ disk' = [rows |-> disk'.rows, trail |-> disk'.trail, keys |-> disk'.keys,
                  tokens |-> disk'.tokens]
  BY <1>1, <1>2, <1>4 DEF Tables
<1>7. /\ disk'.tokens \in [Tokens -> TokenRow] /\ disk'.tokens[t] = new
      /\ \A u \in Tokens \ {t} : disk'.tokens[u] \in {disk.tokens[u], Gone}
  <2>1. Cleaned(disk.tokens) \in [Tokens -> TokenRow]
    BY <1>2, <1>5 DEF Cleaned, Tables
  <2>2. \A u \in Tokens : Cleaned(disk.tokens)[u] \in {disk.tokens[u], Gone}
    BY DEF Cleaned
  <2> QED BY <1>5, <1>6, <2>1, <2>2
<1>8. disk' \in Tables
  BY <1>2, <1>6, <1>7 DEF Tables
<1>9. owner = None /\ owner' = None /\ work' = disk' /\ domain' = domain /\ Books'
      /\ job[h].pc = "view"
  BY <1>2 DEF Issue, KeepRest, Books, TypeOK
<1>10. PICK x : x = [job[h] EXCEPT !.todo = @ \ {req}]
  OBVIOUS
<1>11. /\ job' = [job EXCEPT ![h] = x] /\ x \in JobRow /\ x.pc = "view" /\ x.by = job[h].by
       /\ x.req = job[h].req /\ x.answer = job[h].answer /\ x.todo \subseteq job[h].todo
  BY <1>1, <1>2, <1>9, <1>10 DEF JobRow
<1>12. TypeOK'
  BY <1>2, <1>8, <1>9, <1>11 DEF TypeOK, Books, InTransaction
<1>13. \A r : Offered(r) => Offered(r)'
  BY <1>6 DEF Offered
<1>14. RowsExist' /\ TrailIsComplete' /\ KeysRouted'
  BY <1>6 DEF ActionsInv, StoreInv, RowsExist, TrailIsComplete, KeysRouted
<1>15. \A u \in Tokens : \/ disk'.tokens[u] = disk.tokens[u]
                         \/ disk'.tokens[u].status = "gone" /\ disk'.tokens[u].req = None
                         \/ /\ u = t /\ disk'.tokens[u].status = "issued"
                            /\ disk'.tokens[u].req = req
  BY <1>5, <1>7
<1>16. disk.tokens[t].status = "unissued" /\ ChangesOf(disk.trail, t) = {}
  <2>1. disk.tokens[t].status = "unissued"
    BY <1>1 DEF Unissued
  <2> QED BY <2>1 DEF ActionsInv, StoreInv, SealedTogether
<1>17. TokensOffered'
  <2> SUFFICES ASSUME NEW u \in Tokens, disk'.tokens[u].status \in {"issued", "consumed"}
               PROVE  Offered(disk.tokens[u].req)'
    BY DEF TokensOffered
  <2>1. CASE disk'.tokens[u] = disk.tokens[u]
    <3>1. PICK r : r = disk.tokens[u].req
      OBVIOUS
    <3>2. Offered(r)
      BY <2>1, <3>1 DEF ActionsInv, StoreInv, TokensOffered
    <3>3. Offered(r)' /\ disk'.tokens[u].req = r
      BY <1>13, <2>1, <3>1, <3>2
    <3> QED BY <3>3
  <2>2. CASE disk'.tokens[u].req = req
    <3>1. PICK r : r = req
      OBVIOUS
    <3>2. Offered(r)'
      BY <1>3, <1>13, <3>1
    <3> QED BY <2>2, <3>1, <3>2
  <2> QED BY <1>15, <2>1, <2>2
<1>18. SealedTogether'
  <2>1. ASSUME NEW u \in Tokens
        PROVE  disk'.tokens[u].status # "gone" =>
                 (disk'.tokens[u].status = "consumed" <=> ChangesOf(disk'.trail, u) # {})
    BY <1>6, <1>15, <1>16 DEF ActionsInv, StoreInv, SealedTogether
  <2> QED BY <1>6, <2>1 DEF ActionsInv, StoreInv, SealedTogether
<1>19. ActsOnSeen'
  <2> SUFFICES ASSUME NEW i \in Ids, NEW c \in ChangesOf(disk'.trail, i), Requested(i)' # None
               PROVE  LET r == Requested(i)'
                      IN /\ c.version = r.version + 1
                         /\ c.object \in Objects /\ (r.op = "create" \/ c.object = r.object)
    BY DEF ActsOnSeen
  <2>1. c \in ChangesOf(disk.trail, i)
    BY <1>6
  <2>2. Requested(i)' = Requested(i)
    BY <1>6, <1>15, <1>16, <2>1 DEF Requested, Ids
  <2> QED BY <2>1, <2>2 DEF ActionsInv, StoreInv, ActsOnSeen
<1>20. JobsHold'
  <2> SUFFICES ASSUME NEW g \in Handlers PROVE Holds(job[g])'
    BY DEF JobsHold
  <2>1. \A u \in Tokens : disk.tokens[u].status # "unissued" => disk'.tokens[u].status # "unissued"
    BY <1>5, <1>7
  <2>2. ASSUME NEW y, Holds(y) PROVE Holds(y)'
    BY <1>6, <1>13, <2>1, <2>2 DEF Holds
  <2>3. Holds(x)
    BY <1>2, <1>9, <1>11 DEF Holds, InTransaction
  <2>4. PICK y : y = job'[g]
    OBVIOUS
  <2>5. Holds(y)
    BY <1>2, <1>11, <2>3, <2>4 DEF ActionsInv, JobsHold, TypeOK
  <2>6. Holds(y)'
    BY <2>2, <2>5
  <2> QED BY <2>4, <2>6
<1>21. Transaction'
  BY <1>9, KeysAreNotTokens DEF Transaction
<1> QED BY <1>12, <1>14, <1>17, <1>18, <1>19, <1>20, <1>21 DEF ActionsInv, StoreInv

(* What fails leaves no trace. *)
LEMMA RaiseKeeps ==
  ASSUME ActionsInv, NEW h \in Handlers, Raise(h)
  PROVE  ActionsInv'
<1>1. UNCHANGED <<domain, disk>> /\ Books'
  BY DEF Raise, Books, ActionsInv, StoreInv, TypeOK
<1>2. CASE job[h].pc = "begin" /\ Answers(h, "error") /\ UNCHANGED <<owner, work>>
  <2>1. PICK x \in JobRow : job' = [job EXCEPT ![h] = x] /\ x.pc = "answer" /\ Holds(x)
    BY <1>2, Answering DEF Replies
  <2> QED BY <1>1, <1>2, <2>1, Outside DEF InTransaction
<1>3. CASE owner = h /\ Answers(h, "error") /\ Rollback
  <2>1. PICK x \in JobRow : job' = [job EXCEPT ![h] = x] /\ x.pc = "answer" /\ Holds(x)
    BY <1>3, Answering DEF Replies
  <2> QED BY <1>1, <1>3, <2>1, Ends DEF InTransaction
<1>4. CASE job[h].pc \in {"list", "view"} /\ Answers(h, job[h].answer) /\ UNCHANGED <<owner, work>>
  BY <1>1, <1>4, ShowListKeeps
<1> QED BY <1>2, <1>3, <1>4 DEF Raise

LEMMA CrashKeeps == ActionsInv /\ Crash => ActionsInv'
<1> SUFFICES ASSUME ActionsInv, Crash PROVE ActionsInv'
  OBVIOUS
<1>1. TypeOK'
  BY IdleJob, KeysAreNotTokens DEF Crash, Rollback, ActionsInv, StoreInv, TypeOK, InTransaction
<1>2. StoreInv'
  BY <1>1, DiskKept DEF Crash
<1>3. JobsHold'
  BY IdleJob, KeysAreNotTokens DEF Crash, JobsHold, Holds, InTransaction
<1>4. Transaction'
  BY KeysAreNotTokens DEF Crash, Rollback, Transaction
<1> QED BY <1>2, <1>3, <1>4 DEF ActionsInv

LEMMA StillKeeps ==
  ASSUME ActionsInv, UNCHANGED <<domain, disk, work, owner, job>>, Books'
  PROVE  ActionsInv'
<1>1. TypeOK'
  BY DEF ActionsInv, StoreInv, TypeOK, Books
<1>2. JobsHold'
  <2> SUFFICES ASSUME NEW g \in Handlers PROVE Holds(job[g])'
    BY DEF JobsHold
  <2>1. PICK y : y = job[g]
    OBVIOUS
  <2>2. Holds(y)'
    BY <1>1, <2>1, DiskKept DEF ActionsInv, JobsHold
  <2> QED BY <2>1, <2>2
<1>3. Transaction'
  <2> SUFFICES ASSUME NEW g \in Handlers, owner = g PROVE Sees(job[g])'
    BY DEF Transaction
  <2>1. PICK y : y = job[g]
    OBVIOUS
  <2>2. Sees(y)
    BY <2>1 DEF ActionsInv, Transaction
  <2>3. Sees(y)'
    BY <2>2 DEF Sees, RowsSeen, TrailSeen, KeysSeen, TokensSeen, Unused, Found, Written, Effect
  <2> QED BY <2>1, <2>3
<1> QED BY <1>1, <1>2, <1>3, DiskKept DEF ActionsInv

(* Another transaction: the scheduler or the project service changes one row.     *)
LEMMA TransactKeeps ==
  ASSUME ActionsInv, NEW o \in Objects, NEW row \in Row, NEW action, Transact(o, action, row),
         action \in Ops \cup {"queued", "delivered", "failed"},
         row.version = disk.rows[o].version + 1, row.state # "missing"
  PROVE  /\ ActionsInv'
         /\ \A i \in Ids : ChangesOf(disk'.trail, i) = ChangesOf(disk.trail, i)
         /\ disk'.rows = [disk.rows EXCEPT ![o] = row]
<1>1. TypeOK /\ disk \in Tables
  BY DEF ActionsInv, StoreInv, TypeOK
<1>2. /\ disk' = [disk EXCEPT !.rows[o] = row,
                              !.trail = @ \cup {Entry(o, row.version, action, None)}]
      /\ work' = disk' /\ owner = None /\ UNCHANGED <<domain, owner, job>> /\ Books'
  BY <1>1 DEF Transact, Books, TypeOK
<1>3. PICK A : A = {action}
  OBVIOUS
<1>4. /\ disk'.rows = [disk.rows EXCEPT ![o] = row]
      /\ disk'.trail = disk.trail \cup {Entry(o, row.version, x, None) : x \in A}
      /\ disk'.keys = disk.keys /\ disk'.tokens = disk.tokens
  BY <1>1, <1>2, <1>3 DEF Tables
<1>5. action \in A /\ A \ {action} \subseteq JobActions /\ action \notin JobActions
  BY <1>3 DEF Ops, JobActions
<1>6. PICK by, a : by = None /\ a = action
  OBVIOUS
<1>7. /\ StoreInv /\ disk'.rows = [disk.rows EXCEPT ![o] = row] /\ a \in A /\ A \ {a} \subseteq JobActions /\ a \notin JobActions
       /\ row.version = disk.rows[o].version + 1 /\ row.state # "missing"
       /\ disk'.trail = disk.trail \cup {Entry(o, row.version, x, by) : x \in A}
  BY <1>4, <1>5, <1>6 DEF ActionsInv
<1>8. TrailIsComplete' /\ RowsExist'
  BY <1>7, Advance
<1>9. \A i \in Ids : ChangesOf(disk'.trail, i) = ChangesOf(disk.trail, i)
  <2> TAKE i \in Ids
  <2>1. ChangesOf(disk'.trail, i) = ChangesOf(disk.trail, i) \cup
          (IF i = by THEN {[object |-> o, version |-> row.version]} ELSE {})
    BY <1>4, <1>7, Advance
  <2> QED BY <1>6, <2>1, KeysAreNotTokens
<1>10. ASSUME NEW r, Offered(r) PROVE Offered(r)'
  <2>1. disk.rows \in [Objects -> Row] /\ disk.rows[o].version \in Nat
    BY <1>1 DEF Tables, Row
  <2> QED BY <1>4, <1>10, <2>1 DEF Offered, WellFormed, Request
<1>11. TypeOK'
  <2>1. Entry(o, row.version, action, None) \in TrailRow
    BY DEF Entry, TrailRow, Row
  <2>2. disk' \in Tables
    BY <1>1, <1>2, <2>1 DEF Tables
  <2> QED BY <1>1, <1>2, <2>2 DEF TypeOK, Books
<1>12. KeysRouted' /\ SealedTogether' /\ ActsOnSeen'
  BY <1>4, <1>9 DEF ActionsInv, StoreInv, KeysRouted, SealedTogether, ActsOnSeen, Requested, Ids
<1>13. TokensOffered'
  <2> SUFFICES ASSUME NEW t \in Tokens, disk'.tokens[t].status \in {"issued", "consumed"}
               PROVE  Offered(disk.tokens[t].req)'
    BY DEF TokensOffered
  <2>1. PICK r : r = disk.tokens[t].req
    OBVIOUS
  <2>2. Offered(r)
    BY <1>4, <2>1 DEF ActionsInv, StoreInv, TokensOffered
  <2>3. Offered(r)' /\ disk'.tokens[t].req = r
    BY <1>4, <1>10, <2>1, <2>2
  <2> QED BY <2>3
<1>14. JobsHold'
  <2> SUFFICES ASSUME NEW g \in Handlers PROVE Holds(job[g])'
    BY DEF JobsHold
  <2>1. PICK y : y = job[g]
    OBVIOUS
  <2>2. Holds(y)
    BY <2>1 DEF ActionsInv, JobsHold
  <2>3. Holds(y)'
    BY <1>4, <1>9, <1>10, <2>2 DEF Holds
  <2> QED BY <1>2, <2>1, <2>3
<1>15. Transaction'
  BY <1>2, KeysAreNotTokens DEF Transaction
<1> QED BY <1>4, <1>8, <1>9, <1>11, <1>12, <1>13, <1>14, <1>15 DEF ActionsInv, StoreInv

(* Each of those changes makes the next version of the row. *)
LEMMA OthersChange ==
  ASSUME ActionsInv, NEW o \in Objects, Settle(o) \/ ServeProject(o)
  PROVE  /\ ActionsInv'
         /\ \A i \in Ids : ChangesOf(disk'.trail, i) = ChangesOf(disk.trail, i)
         /\ disk'.rows[o].version = disk.rows[o].version + 1
         /\ \A q \in Objects : q # o => disk'.rows[q].version = disk.rows[q].version
         /\ heard' = heard /\ owner = None
<1>1. disk.rows \in [Objects -> Row] /\ disk.rows[o] \in Row
  BY DEF ActionsInv, StoreInv, TypeOK, Tables
<1>2. PICK row \in Row, action \in Ops \cup {"queued", "delivered", "failed"} :
        Transact(o, action, row) /\ row.version = disk.rows[o].version + 1 /\ row.state # "missing"
  <2>1. CASE Settle(o)
    <3>1. PICK state \in {"queued", "delivered", "failed"} :
            Transact(o, state, Moved(disk.rows[o], state))
      BY <2>1 DEF Settle
    <3>2. state \in States /\ state # "missing"
      BY DEF States
    <3> QED BY <1>1, <3>1, <3>2, RowShapes
  <2>2. CASE ServeProject(o)
    <3>1. PICK op \in {"create", "patch", "delete"} :
            /\ (op = "create") = (disk.rows[o].state = "missing")
            /\ Transact(o, op, ChangedRow(op, "project", disk.rows[o]))
      BY <2>2 DEF ServeProject
    <3>2. op \in Ops /\ "project" \in Domains
      BY DEF Ops, Domains
    <3>3. op = "create" => disk.rows[o].version = 0
      BY <3>1 DEF ActionsInv, StoreInv, RowsExist
    <3>4. op # "create" => disk.rows[o].state # "missing"
      BY <3>1
    <3> QED BY <1>1, <3>1, <3>2, <3>3, <3>4, ChangedRowIs
  <2> QED BY <2>1, <2>2
<1>3. /\ ActionsInv' /\ disk'.rows = [disk.rows EXCEPT ![o] = row]
      /\ \A i \in Ids : ChangesOf(disk'.trail, i) = ChangesOf(disk.trail, i)
  BY <1>2, TransactKeeps
<1>4. heard' = heard /\ owner = None
  BY <1>2 DEF Transact
<1> QED BY <1>1, <1>2, <1>3, <1>4

----------------------------------------------------------------------------------
LEMMA ActionsStep == ActionsInv /\ [Next]_vars => ActionsInv'
<1> SUFFICES ASSUME ActionsInv, [Next]_vars PROVE ActionsInv'
  OBVIOUS
<1>1. ASSUME NEW h \in Handlers, Handle(h) PROVE ActionsInv'
  <2>1. CASE Check(h)
    BY <2>1, CheckKeyKeeps, CheckTokenKeeps DEF Check
  <2>2. CASE ShowList(h)
    <3>1. /\ job[h].pc \in {"list", "view"} /\ Answers(h, job[h].answer)
          /\ UNCHANGED <<domain, disk, work, owner>> /\ Books'
      BY <2>2 DEF ShowList, KeepRest, Books, ActionsInv, StoreInv, TypeOK
    <3> QED BY <3>1, ShowListKeeps
  <2> QED BY <1>1, <2>1, <2>2, BeginKeeps, ChangeKeeps, AuditKeeps, SealKeeps, CommitKeeps,
             ListKeeps, IssueKeeps, AnswerKeeps DEF Handle
<1>2. ASSUME NEW h \in Handlers, OpenList(h) \/ LoseAnswer(h) \/ Raise(h) PROVE ActionsInv'
  BY <1>2, ListKeeps, AnswerKeeps, RaiseKeeps
<1>3. CASE Tick
  BY <1>3, StillKeeps DEF Tick, Books, ActionsInv, StoreInv, TypeOK
<1>4. CASE UNCHANGED vars
  BY <1>4, StillKeeps DEF vars, Books, ActionsInv, StoreInv, TypeOK
<1> QED BY <1>1, <1>2, <1>3, <1>4, AskKeeps, PressKeeps, OthersChange, CrashKeeps DEF Next

(* What the disk promises, at every moment, with what the handlers hold: nobody   *)
(* acts on a key or a token that has already changed something.                   *)
THEOREM ActionsInvariant == Spec => []ActionsInv
<1>1. Init => ActionsInv
  BY InitHolds
<1>2. ActionsInv /\ [Next]_vars => ActionsInv'
  BY ActionsStep
<1> QED BY <1>1, <1>2, PTL DEF Spec

(* The tables and the records of the handlers keep their shape; a transaction is  *)
(* open exactly while its handler is in the middle of its work, and without one   *)
(* all that was written is committed (db.py transaction).                         *)
THEOREM ActionsTypeCorrect == Spec => []TypeOK
<1>1. ActionsInv => TypeOK
  BY DEF ActionsInv, StoreInv
<1> QED BY <1>1, ActionsInvariant, PTL

(* A key has an answer, and a token is consumed, exactly when it has changed an   *)
(* object, after any exceptions and crashes (_mutate, consume).                   *)
THEOREM KeysSealedWithRows == Spec => []SealedTogether
<1>1. ActionsInv => SealedTogether
  BY DEF ActionsInv, StoreInv
<1> QED BY <1>1, ActionsInvariant, PTL

(* A request changes only the object it names, from the version that was seen,    *)
(* whatever the other handlers, the scheduler and the project service did since.  *)
THEOREM ChangesFromSeenVersion == Spec => []ActsOnSeen
<1>1. ActionsInv => ActsOnSeen
  BY DEF ActionsInv, StoreInv
<1> QED BY <1>1, ActionsInvariant, PTL

(* The audit trail has exactly one row of change for every version of every       *)
(* object (AuditWriter.record within the transaction of the change).              *)
THEOREM TrailTellsEveryVersion == Spec => []TrailIsComplete
<1>1. ActionsInv => TrailIsComplete
  BY DEF ActionsInv, StoreInv
<1> QED BY <1>1, ActionsInvariant, PTL

----------------------------------------------------------------------------------
(* The refinement: commits carry requests out, answers tell, the scheduler and    *)
(* the project service interfere, and nothing else is seen from outside.          *)
LEMMA StoreVars ==
  ASSUME disk'.rows = disk.rows, disk'.trail = disk.trail, heard' = heard
  PROVE  UNCHANGED Store!vars
BY DEF Store!vars

LEMMA StoreInit == Init => Store!Init
<1> SUFFICES ASSUME Init PROVE Store!Init
  OBVIOUS
<1>1. PICK old \in SUBSET Objects :
        /\ disk.rows = [o \in Objects |-> IF o \in old THEN NewRow(domain[o]) ELSE Missing]
        /\ disk.trail = {Entry(o, 1, "create", None) : o \in old}
  BY DEF Init
<1>2. domain \in [Objects -> Domains]
  BY PopulationsAssumption DEF Init
<1>3. \A o \in Objects : disk.rows[o].version \in {0, 1}
  BY <1>1, <1>2, RowShapes DEF Missing
<1>4. \A i \in Ids : ChangesOf(disk.trail, i) = {}
  BY <1>1, KeysAreNotTokens DEF ChangesOf, Entry
<1> QED BY <1>3, <1>4 DEF Store!Init, Init

LEMMA CommitCarries ==
  ASSUME ActionsInv, NEW h \in Handlers, Commit(h)
  PROVE  Store!Next
<1>1. PICK j : j = job[h]
  OBVIOUS
<1>2. /\ j.by \in Ids /\ Found(j) /\ ChangesOf(disk.trail, j.by) = {}
      /\ ChangesOf(disk'.trail, j.by) = {Effect(j)}
  BY <1>1, CommitIs
<1>3. \A i \in Ids \ {j.by} : ChangesOf(disk'.trail, i) = ChangesOf(disk.trail, i)
  BY <1>1, CommitIs
<1>4. /\ disk'.rows[j.on].version = disk.rows[j.on].version + 1
      /\ \A o \in Objects \ {j.on} : disk'.rows[o].version = disk.rows[o].version
  BY <1>1, CommitIs
<1>5. j.on \in Objects /\ heard' = heard
  BY <1>2 DEF Found, Commit
<1>6. Store!Carry(j.by, j.on)
  BY <1>2, <1>3, <1>4, <1>5 DEF Store!Carry, Effect
<1> QED BY <1>2, <1>5, <1>6 DEF Store!Next

LEMMA OthersInterfere ==
  ASSUME ActionsInv, NEW o \in Objects, Settle(o) \/ ServeProject(o)
  PROVE  Store!Next
<1>1. /\ \A i \in Ids : ChangesOf(disk'.trail, i) = ChangesOf(disk.trail, i)
      /\ disk'.rows[o].version = disk.rows[o].version + 1
      /\ \A q \in Objects : q # o => disk'.rows[q].version = disk.rows[q].version
      /\ heard' = heard
  BY OthersChange
<1>2. Store!Interfere(o)
  BY <1>1 DEF Store!Interfere
<1> QED BY <1>2 DEF Store!Next

LEMMA AnswerTells ==
  ASSUME ActionsInv, NEW h \in Handlers, Answer(h)
  PROVE  Store!Next \/ UNCHANGED Store!vars
<1>1. /\ disk' = disk /\ job[h] \in JobRow /\ Holds(job[h])
      /\ heard \in [Ids -> SUBSET (Step \cup {None})]
      /\ heard' = IF job[h].by = None THEN heard ELSE [heard EXCEPT ![job[h].by] = @ \cup Said(h)]
  BY DEF Answer, ActionsInv, StoreInv, TypeOK, JobsHold
<1>2. CASE job[h].by = None \/ Said(h) = {}
  <2>1. heard' = heard
    BY <1>1, <1>2
  <2> QED BY <1>1, <2>1, StoreVars
<1>3. CASE job[h].by # None /\ Said(h) # {}
  <2>1. PICK i \in Ids : i = job[h].by
    BY <1>1, <1>3 DEF JobRow
  <2>2. job[h].answer \in {"done", "consumed"}
    BY <1>3 DEF Said
  <2>3. ChangesOf(disk.trail, i) # {}
    BY <1>1, <2>1, <2>2 DEF Holds
  <2>4. Said(h) = ChangesOf(disk.trail, i)
    BY <2>1, <2>2, <2>3 DEF Said, ActionsInv, StoreInv, SealedTogether
  <2>5. heard' = [heard EXCEPT ![i] = @ \cup ChangesOf(disk.trail, i)]
    BY <1>1, <1>3, <2>1, <2>4
  <2>6. Store!Tell(i)
    BY <1>1, <2>1, <2>3, <2>5 DEF Store!Tell
  <2> QED BY <2>1, <2>6 DEF Store!Next
<1> QED BY <1>2, <1>3

LEMMA StoreStep == ActionsInv /\ [Next]_vars => [Store!Next]_(Store!vars)
<1> SUFFICES ASSUME ActionsInv, [Next]_vars PROVE Store!Next \/ UNCHANGED Store!vars
  OBVIOUS
<1>1. ASSUME NEW h \in Handlers, Handle(h) PROVE Store!Next \/ UNCHANGED Store!vars
  <2>1. CASE Begin(h) \/ Check(h) \/ Change(h) \/ Audit(h) \/ Seal(h) \/ ReadList(h) \/ ShowList(h)
    <3>1. disk' = disk /\ heard' = heard
      BY <2>1 DEF Begin, Check, Change, Audit, Seal, ReadList, ShowList
    <3> QED BY <3>1, StoreVars
  <2>2. CASE Issue(h)
    <3>1. disk'.rows = disk.rows /\ disk'.trail = disk.trail /\ heard' = heard
      BY <2>2 DEF Issue, ActionsInv, StoreInv, TypeOK, Tables
    <3> QED BY <3>1, StoreVars
  <2> QED BY <1>1, <2>1, <2>2, CommitCarries, AnswerTells DEF Handle
<1>2. ASSUME NEW h \in Handlers,
             \/ \E k \in Keys : Ask(h, k)
             \/ \E t \in Tokens, own \in BOOLEAN : Press(h, t, own)
             \/ OpenList(h) \/ LoseAnswer(h) \/ Raise(h)
      PROVE  UNCHANGED Store!vars
  <2>1. disk' = disk /\ heard' = heard
    BY <1>2 DEF Ask, Press, OpenList, LoseAnswer, Raise
  <2> QED BY <2>1, StoreVars
<1>3. CASE Crash \/ Tick \/ UNCHANGED vars
  <2>1. disk' = disk /\ heard' = heard
    BY <1>3 DEF Crash, Tick, vars
  <2> QED BY <2>1, StoreVars
<1> QED BY <1>1, <1>2, <1>3, OthersInterfere DEF Next

(* Seen from outside the planning database is the store of PlanningStore: a       *)
(* request under a key or a press of a button takes effect at most once, entirely *)
(* or not at all, and who is told that it is done is told its effect.             *)
THEOREM ActionsImplementStore == Spec => KeepsPromise
<1>1. Init => Store!Init
  BY StoreInit
<1>2. ActionsInv /\ [Next]_vars => [Store!Next]_(Store!vars)
  BY StoreStep
<1> QED BY <1>1, <1>2, ActionsInvariant, PTL DEF Spec, KeepsPromise, Store!Spec

=================================================================================
