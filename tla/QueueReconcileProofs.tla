------------------------ MODULE QueueReconcileProofs ------------------------
(***************************************************************************)
(* The inductive invariant of QueueReconcile, and what follows from it:    *)
(* wanted items keep their rows, no click is part of a deadlock, and only  *)
(* a snapshot of several items stops the holder of the reconciliation      *)
(* lock.                                                                   *)
(*                                                                         *)
(* A step is first described by what it leaves alone: a request begins one *)
(* session (Requested), a statement moves one session (Own, StepsOn), and  *)
(* the end of a transaction makes one idle (Over).  Then each kind of step *)
(* is shown to keep each part of the invariant.                            *)
(***************************************************************************)
EXTENDS QueueReconcile, TLAPS

\* What the scripts say, one by one.
LEMMA Scripts ==
    /\ DOMAIN Script = {"save", "recheck", "restore", "sweep", "enable", "disable", "snapshot",
                        "page"}
    /\ Len(Script["save"]) = 2 /\ Script["save"][1] = "lock" /\ Script["save"][2] = "expedite"
    /\ Len(Script["recheck"]) = 3 /\ Script["recheck"][1] = "lock"
    /\ Script["recheck"][2] = "gate" /\ Script["recheck"][3] = "expedite"
    /\ Len(Script["restore"]) = 2 /\ Script["restore"][1] = "lock"
    /\ Script["restore"][2] = "insert"
    /\ Len(Script["sweep"]) = 2 /\ Script["sweep"][1] = "lock" /\ Script["sweep"][2] = "delete"
    /\ Len(Script["enable"]) = 4 /\ Script["enable"][1] = "lock"
    /\ Script["enable"][2] = "revive" /\ Script["enable"][3] = "widen"
    /\ Script["enable"][4] = "delete"
    /\ Len(Script["disable"]) = 2 /\ Script["disable"][1] = "lock"
    /\ Script["disable"][2] = "delete"
    /\ Len(Script["snapshot"]) = 1 /\ Script["snapshot"][1] = "enqueue"
    /\ Len(Script["page"]) = 1 /\ Script["page"][1] = "enqueue"
  BY DEF Script

\* The kinds of transactions.
Kind == {"save", "recheck", "restore", "sweep", "enable", "disable", "snapshot", "page"}

\* Every script has one to four statements.
LEMMA ScriptLength == \A kind \in Kind : Len(Script[kind]) \in 1..4
  BY Scripts DEF Kind

\* Which statements a transaction of a kind may open or be in.
LEMMA Statement ==
    ASSUME NEW kind \in Kind, NEW n \in 1..4, n <= Len(Script[kind])
    PROVE  /\ kind \in Takers => (n = 1 <=> Script[kind][n] = "lock")
           /\ kind \in {"save", "recheck"} /\ Script[kind][n] \in RowOps
                => Script[kind][n] = "expedite" /\ n = Len(Script[kind])
           /\ kind \in {"save", "restore"} => Script[kind][n] \in {"lock", "expedite", "insert"}
           /\ Script[kind][n] = "delete" => kind \in {"sweep", "enable", "disable"}
           /\ Script[kind][n] = "gate" => kind = "recheck"
           /\ Script[kind][n] = "lock" => kind \in Takers
           /\ kind \in Takers /\ Script[kind][n] \in RowOps => Script[kind][n] # "enqueue"
<1>1. CASE kind = "save" BY <1>1, Scripts DEF Takers, RowOps
<1>2. CASE kind = "recheck" BY <1>2, Scripts DEF Takers, RowOps
<1>3. CASE kind = "restore" BY <1>3, Scripts DEF Takers, RowOps
<1>4. CASE kind = "sweep" BY <1>4, Scripts DEF Takers, RowOps
<1>5. CASE kind = "enable" BY <1>5, Scripts DEF Takers, RowOps
<1>6. CASE kind = "disable" BY <1>6, Scripts DEF Takers, RowOps
<1>7. CASE kind = "snapshot" BY <1>7, Scripts DEF Takers, RowOps
<1>8. CASE kind = "page" BY <1>8, Scripts DEF Takers, RowOps
<1> QED BY <1>1, <1>2, <1>3, <1>4, <1>5, <1>6, <1>7, <1>8 DEF Kind

\* A session begins: it gets a kind and what it is about, and nothing else moves.
Started(s) ==
    /\ ~Busy(s) /\ Busy(s)' /\ job'[s] \in Kind
    /\ job'[s] \in {"save", "recheck"} => \E i \in Item : batch'[s] = {i}
    /\ job'[s] = "snapshot" => batch'[s] \subseteq Item
    /\ held'[s] # NULL => job'[s] \in {"disable", "snapshot"}
    /\ \A q \in Session \ {s} :
          job'[q] = job[q] /\ batch'[q] = batch[q] /\ held'[q] = held[q] /\ mode'[q] = mode[q]
    /\ UNCHANGED <<step, todo, chosen, aim>>

\* The part of TypeOK that is about sessions.
SessionTyped ==
    /\ job \in [Session -> {"idle"} \cup DOMAIN Script]
    /\ step \in [Session -> 0..4]
    /\ todo \in [Session -> SUBSET Target] /\ chosen \in [Session -> SUBSET Target]
    /\ aim \in [Session -> Target \cup {NULL}]
    /\ batch \in [Session -> SUBSET Target]
    /\ held \in [Session -> Store \cup {NULL}]
    /\ mode \in [Session -> BOOLEAN]

\* What Begin does, whatever it begins.
LEMMA Beginning ==
    ASSUME TypeOK, NEW s \in Session, NEW kind \in Kind, NEW targets \in SUBSET Target,
           NEW store \in Store \cup {NULL}, NEW setting \in BOOLEAN,
           Begin(s, kind, targets, store, setting),
           kind \in {"save", "recheck"} => \E i \in Item : targets = {i},
           kind = "snapshot" => targets \subseteq Item,
           store # NULL => kind \in {"disable", "snapshot"}
    PROVE  Started(s) /\ SessionTyped' /\ begun' \in 0..MaxTransactions
<1>1. Started(s)
  BY DEF Begin, Started, Busy, TypeOK, Kind
<1>2. SessionTyped'
  BY Scripts DEF Begin, SessionTyped, TypeOK, Kind
<1>3. begun' \in 0..MaxTransactions
  BY ReconcileAssumption DEF Begin, TypeOK
<1> QED BY <1>1, <1>2, <1>3

\* A request: interest and stores may grow, the queue stands, and a session may begin.
Requested(s) ==
    /\ TypeOK' /\ UNCHANGED <<table, history, stock, saved>>
    /\ enabled \subseteq enabled' /\ library \subseteq library'
    /\ Started(s) \/ UNCHANGED session

\* Every request is one of the kind Requested.
LEMMA Requesting ==
    ASSUME TypeOK, NEW s \in Session, Requests(s) PROVE Requested(s)
<1> USE DEF Requested
<1>1. ASSUME NEW i \in Item, BeginSave(s, i) \/ BeginRecheck(s, i) PROVE Requested(s)
  <2>1. PICK kind \in {"save", "recheck"} : Begin(s, kind, {i}, NULL, only)
    BY <1>1 DEF BeginSave, BeginRecheck
  <2>2. Started(s) /\ SessionTyped' /\ begun' \in 0..MaxTransactions
    BY <2>1, Beginning DEF Kind, Target, TypeOK
  <2> QED BY <1>1, <2>2
          DEF BeginSave, BeginRecheck, TypeOK, SessionTyped, table, interest, history
<1>2. ASSUME NEW items \in SUBSET Item, LibraryGrows(s, items) PROVE Requested(s)
  <2>1. CASE only
    <3>1. Started(s) /\ SessionTyped' /\ begun' \in 0..MaxTransactions
      BY <1>2, <2>1, Beginning DEF LibraryGrows, Kind, Target, TypeOK
    <3> QED BY <1>2, <3>1 DEF LibraryGrows, TypeOK, SessionTyped, table, history
  <2>2. CASE ~only
    <3>1. UNCHANGED session /\ begun' \in 0..MaxTransactions
      BY <1>2, <2>2, ReconcileAssumption DEF LibraryGrows, TypeOK
    <3> QED BY <1>2, <3>1 DEF LibraryGrows, TypeOK, table, history, session
  <2> QED BY <2>1, <2>2
<1>3. ASSUME BeginSweep(s) PROVE Requested(s)
  <2>1. Started(s) /\ SessionTyped' /\ begun' \in 0..MaxTransactions
    BY <1>3, Beginning DEF BeginSweep, Kind, TypeOK
  <2> QED BY <1>3, <2>1 DEF BeginSweep, TypeOK, SessionTyped, table, interest, history
<1>4. ASSUME SwitchOn(s) PROVE Requested(s)
  <2>1. Started(s) /\ SessionTyped' /\ begun' \in 0..MaxTransactions
    BY <1>4, Beginning DEF SwitchOn, Kind, TypeOK
  <2> QED BY <1>4, <2>1 DEF SwitchOn, TypeOK, SessionTyped, table, history
<1>5. ASSUME NEW st \in Store \cup {NULL}, BeginEnable(s, st) PROVE Requested(s)
  <2>1. Started(s) /\ SessionTyped' /\ begun' \in 0..MaxTransactions
    BY <1>5, Beginning DEF BeginEnable, Kind, TypeOK
  <2> QED BY <1>5, <2>1 DEF BeginEnable, TypeOK, SessionTyped, table, history
<1>6. ASSUME NEW st \in Store, BeginDisable(s, st) PROVE Requested(s)
  <2>1. Started(s) /\ SessionTyped' /\ begun' \in 0..MaxTransactions
    BY <1>6, Beginning DEF BeginDisable, Kind, TypeOK
  <2> QED BY <1>6, <2>1 DEF BeginDisable, TypeOK, SessionTyped, table, interest, history
<1>7. ASSUME NEW st \in Store, NEW items \in SUBSET Item, BeginSnapshot(s, st, items)
      PROVE  Requested(s)
  <2>1. Started(s) /\ SessionTyped' /\ begun' \in 0..MaxTransactions
    BY <1>7, Beginning DEF BeginSnapshot, Kind, Target, TypeOK
  <2> QED BY <1>7, <2>1 DEF BeginSnapshot, TypeOK, SessionTyped, table, interest, history
<1>8. ASSUME NEW releases \in SUBSET Release, BeginPage(s, releases) PROVE Requested(s)
  <2>1. Started(s) /\ SessionTyped' /\ begun' \in 0..MaxTransactions
    BY <1>8, Beginning DEF BeginPage, Kind, Target, TypeOK
  <2> QED BY <1>8, <2>1 DEF BeginPage, TypeOK, SessionTyped, table, interest, history
<1> QED BY <1>1, <1>2, <1>3, <1>4, <1>5, <1>6, <1>7, <1>8 DEF Requests

\* A session that opens a statement is in a transaction, with nothing to visit.
LEMMA Opened ==
    ASSUME TypeOK, NEW s \in Session, NEW op, Opens(s, op)
    PROVE  /\ job[s] \in Kind /\ step[s] \in Nat /\ step[s] + 1 \in 1..4
           /\ step[s] + 1 <= Len(Script[job[s]]) /\ Script[job[s]][step[s] + 1] = op
           /\ Busy(s) /\ todo[s] = {} /\ aim[s] = NULL
<1>1. job[s] \in Kind /\ step[s] \in 0..4
  BY Scripts DEF Opens, AtRest, Busy, TypeOK, Kind
<1>2. Len(Script[job[s]]) \in 1..4
  BY <1>1, ScriptLength
<1> QED BY <1>1, <1>2 DEF Opens, AtRest

\* A session in a transaction is in a statement of its script.
LEMMA Visiting ==
    ASSUME TypeOK, SessionShape, NEW s \in Session, Busy(s), step[s] > 0
    PROVE  /\ job[s] \in Kind /\ step[s] \in 1..4 /\ step[s] <= Len(Script[job[s]])
           /\ Op(s) = Script[job[s]][step[s]]
<1>1. job[s] \in Kind /\ step[s] \in 0..4
  BY Scripts DEF Busy, TypeOK, Kind
<1> QED BY <1>1 DEF SessionShape, Op

\* What a statement leaves alone, and what it does to its own session.
Own(s) ==
    /\ UNCHANGED <<rows, interest, job, batch, held, mode, promised, begun>>
    /\ \A q \in Session \ {s} :
          step'[q] = step[q] /\ todo'[q] = todo[q] /\ chosen'[q] = chosen[q] /\ aim'[q] = aim[q]

\* Taking the lock moves only its own session.
LEMMA LockType ==
    ASSUME TypeOK, NEW s \in Session, TakeLock(s)
    PROVE  TypeOK' /\ Own(s) /\ step'[s] = step[s] + 1
<1>1. step[s] + 1 \in 0..4
  BY Opened DEF TakeLock
<1> QED BY <1>1 DEF TakeLock, TypeOK, Own, interest, history

\* Passing the gate moves only its own session.
LEMMA GateType ==
    ASSUME TypeOK, NEW s \in Session, PassGate(s)
    PROVE  TypeOK' /\ Own(s) /\ step'[s] = step[s] + 1
<1>1. step[s] + 1 \in 0..4
  BY Opened DEF PassGate
<1> QED BY <1>1 DEF PassGate, TypeOK, Own, table, interest, history

\* What a session sees listed are items.
LEMMA StockedType ==
    ASSUME TypeOK, SessionShape, NEW s \in Session
    PROVE  StockedIn(s) \subseteq Item
  BY DEF StockedIn, Stocked, OwnStock, SessionShape, TypeOK

\* Opening a statement moves only its own session, to candidates of the statement.
LEMMA OpenType ==
    ASSUME TypeOK, SessionShape, NEW s \in Session, OpenStatement(s)
    PROVE  /\ TypeOK' /\ Own(s) /\ step'[s] = step[s] + 1
           /\ \E op \in RowOps : /\ Opens(s, op)
                                 /\ todo'[s] \in Candidates(s)[op] /\ chosen'[s] = todo'[s]
<1>1. PICK op \in RowOps : /\ Opens(s, op)
                           /\ \E targets \in Candidates(s)[op] :
                                 /\ todo' = [todo EXCEPT ![s] = targets]
                                 /\ chosen' = [chosen EXCEPT ![s] = targets]
  BY DEF OpenStatement
<1>2. PICK targets \in Candidates(s)[op] :
         todo' = [todo EXCEPT ![s] = targets] /\ chosen' = [chosen EXCEPT ![s] = targets]
  BY <1>1
<1>3. targets \subseteq Target
  BY <1>1, <1>2 DEF Candidates, RowOps, TypeOK, Target
<1>4. step[s] + 1 \in 0..4
  BY <1>1, Opened
<1>5. TypeOK' /\ Own(s)
  BY <1>2, <1>3, <1>4 DEF OpenStatement, TypeOK, Own, table, interest, history
<1> QED BY <1>1, <1>2, <1>3, <1>5 DEF OpenStatement, TypeOK

\* Touching a row changes that row and its own session.
LEMMA TouchType ==
    ASSUME TypeOK, SessionShape, NEW s \in Session, NEW t \in Target, Touch(s, t)
    PROVE  /\ TypeOK' /\ Own(s) /\ UNCHANGED <<lock, step, chosen>>
           /\ \A u \in Target \ {t} : draft'[u] = draft[u] /\ locked'[u] = locked[u]
           /\ draft'[t] = Written(s, t)
           /\ \/ locked'[t] = s
              \/ /\ locked'[t] = locked[t] /\ draft'[t] = draft[t]
                 /\ Op(s) = "insert" \/ draft[t] = "absent"
           /\ todo'[s] = todo[s] \ {t} /\ aim'[s] = NULL
<1>1. Written(s, t) \in Status
  BY DEF Touch, SessionShape, RowOps, Written, Requeued, TypeOK, Status
<1>2. TypeOK' /\ Own(s)
  BY <1>1 DEF Touch, TypeOK, Own, interest, history
<1> QED BY <1>2 DEF Touch, TypeOK, history

\* Waiting changes only what its own session waits for.
LEMMA WaitType ==
    ASSUME TypeOK, NEW s \in Session, NEW t \in Target, Wait(s, t)
    PROVE  TypeOK' /\ Own(s) /\ UNCHANGED <<table, step, todo, chosen>> /\ aim'[s] = t
  BY DEF Wait, TypeOK, Own, table, interest, history

\* Passing a row by changes only what its own session has to visit.
LEMMA PassType ==
    ASSUME TypeOK, NEW s \in Session, NEW t \in Target, PassBy(s, t)
    PROVE  /\ TypeOK' /\ Own(s) /\ UNCHANGED <<table, step, chosen, aim>>
           /\ todo'[s] = todo[s] \ {t} /\ aim[s] = NULL
  BY DEF PassBy, TypeOK, Own, table, interest, history

\* The end of a transaction: its session is idle, and a row it held is as it wrote it, or
\* as it was.
Over(s) ==
    /\ TypeOK'
    /\ \A t \in Target :
          IF locked[t] = s
          THEN locked'[t] = NULL /\ draft'[t] = rows'[t] /\ rows'[t] \in {rows[t], draft[t]}
          ELSE locked'[t] = locked[t] /\ draft'[t] = draft[t] /\ rows'[t] = rows[t]
    /\ lock' = IF lock = s THEN NULL ELSE lock
    /\ ~Busy(s)' /\ step'[s] = 0 /\ todo'[s] = {} /\ chosen'[s] = {} /\ aim'[s] = NULL
    /\ held'[s] = NULL
    /\ \A q \in Session \ {s} :
          /\ job'[q] = job[q] /\ step'[q] = step[q] /\ todo'[q] = todo[q]
          /\ chosen'[q] = chosen[q] /\ aim'[q] = aim[q] /\ batch'[q] = batch[q]
          /\ held'[q] = held[q] /\ mode'[q] = mode[q]

\* What Ended says of each session and each row.
LEMMA Ending ==
    ASSUME TypeOK, NEW s \in Session, Ended(s)
    PROVE  /\ SessionTyped' /\ locked' \in [Target -> Session \cup {NULL}]
           /\ lock' \in Session \cup {NULL}
           /\ \A t \in Target : locked'[t] = IF locked[t] = s THEN NULL ELSE locked[t]
           /\ ~Busy(s)' /\ step'[s] = 0 /\ todo'[s] = {} /\ chosen'[s] = {} /\ aim'[s] = NULL
           /\ held'[s] = NULL
           /\ \A q \in Session \ {s} :
                 /\ job'[q] = job[q] /\ step'[q] = step[q] /\ todo'[q] = todo[q]
                 /\ chosen'[q] = chosen[q] /\ aim'[q] = aim[q] /\ batch'[q] = batch[q]
                 /\ held'[q] = held[q] /\ mode'[q] = mode[q]
<1>1. SessionTyped' /\ locked' \in [Target -> Session \cup {NULL}]
  BY DEF Ended, SessionTyped, TypeOK
<1> QED BY <1>1 DEF Ended, Busy, TypeOK

\* A rollback ends a transaction, and what is committed stays.
LEMMA RollingBack ==
    ASSUME TypeOK, NEW s \in Session, RolledBack(s)
    PROVE  Over(s) /\ UNCHANGED <<rows, interest, history>>
<1>1. Ended(s) BY DEF RolledBack
<1>2. TypeOK'
  BY <1>1, Ending DEF RolledBack, TypeOK, SessionTyped, interest, history
<1>3. \A t \in Target : draft'[t] = IF locked[t] = s THEN rows[t] ELSE draft[t]
  BY DEF RolledBack
<1>4. ASSUME NEW t \in Target
      PROVE  IF locked[t] = s
             THEN locked'[t] = NULL /\ draft'[t] = rows'[t] /\ rows'[t] \in {rows[t], draft[t]}
             ELSE locked'[t] = locked[t] /\ draft'[t] = draft[t] /\ rows'[t] = rows[t]
  BY <1>1, <1>3, Ending DEF RolledBack
<1>5. lock' = IF lock = s THEN NULL ELSE lock
  BY <1>1 DEF Ended
<1>6. Over(s)
  BY <1>1, <1>2, <1>4, <1>5, Ending DEF Over
<1> QED BY <1>6 DEF RolledBack

\* A commit ends a transaction, and its session's view of the rows is committed.
LEMMA Committing ==
    ASSUME TypeOK, SessionShape, ClickShape, NEW s \in Session, Commit(s)
    PROVE  Over(s) /\ (\A t \in Target : rows'[t] = RowIn(s, t)) /\ UNCHANGED library
<1>1. Ended(s) BY DEF Commit
<1>2. rows' \in [Target -> Status] /\ \A t \in Target : rows'[t] = RowIn(s, t)
  BY DEF Commit, RowIn, TypeOK
<1>3. stock' \subseteq Item /\ enabled' \subseteq Store
  BY DEF Commit, SessionShape, TypeOK
<1>4. saved' \subseteq Item
  BY DEF Commit, SavedIn, ClickShape, TypeOK
<1>5. promised' \subseteq Item
  <2>1. promised' \subseteq stock'
    BY DEF Commit, Kept, Stocked
  <2> QED BY <1>3, <2>1
<1>7. TypeOK'
  BY <1>1, <1>2, <1>3, <1>4, <1>5, Ending DEF Commit, TypeOK, SessionTyped
<1>8. ASSUME NEW t \in Target
      PROVE  IF locked[t] = s
             THEN locked'[t] = NULL /\ draft'[t] = rows'[t] /\ rows'[t] \in {rows[t], draft[t]}
             ELSE locked'[t] = locked[t] /\ draft'[t] = draft[t] /\ rows'[t] = rows[t]
  BY <1>1, <1>2, Ending DEF Commit, RowIn
<1>9. lock' = IF lock = s THEN NULL ELSE lock
  BY <1>1 DEF Ended
<1>10. Over(s)
  BY <1>1, <1>7, <1>8, <1>9, Ending DEF Over
<1> QED BY <1>2, <1>10 DEF Commit
\* A request keeps the invariant: the session it begins has touched nothing.
LEMMA RequestKeeps ==
    ASSUME Inv, NEW s \in Session, Requested(s)
    PROVE  Inv'
<1> USE DEF Requested, table, history
<1>0. TypeOK /\ TypeOK' BY DEF Inv
<1>1. ASSUME NEW q \in Session
      PROVE  /\ step'[q] = step[q] /\ todo'[q] = todo[q] /\ chosen'[q] = chosen[q]
             /\ aim'[q] = aim[q]
             /\ \/ /\ job'[q] = job[q] /\ batch'[q] = batch[q] /\ held'[q] = held[q]
                   /\ mode'[q] = mode[q]
                \/ /\ q = s /\ ~Busy(q) /\ Busy(q)' /\ job'[q] \in Kind
                   /\ job'[q] \in {"save", "recheck"} => \E i \in Item : batch'[q] = {i}
                   /\ job'[q] = "snapshot" => batch'[q] \subseteq Item
                   /\ held'[q] # NULL => job'[q] \in {"disable", "snapshot"}
  BY DEF Started, session
<1>2. ASSUME NEW q \in Session, ~Busy(q)
      PROVE  /\ step[q] = 0 /\ todo[q] = {} /\ chosen[q] = {} /\ aim[q] = NULL
             /\ lock # q /\ \A t \in Target : locked[t] # q
  BY <1>2 DEF Inv, SessionShape
<1>3. SessionShape'
  <2> SUFFICES ASSUME NEW q \in Session
               PROVE  /\ lock' = q => step'[q] > 0
                      /\ Busy(q)' => step'[q] <= Len(Script[job'[q]])
                      /\ todo'[q] # {} => Busy(q)' /\ step'[q] > 0 /\ Op(q)' \in RowOps
                      /\ aim'[q] # NULL => aim'[q] \in todo'[q]
                      /\ held'[q] # NULL => job'[q] \in {"disable", "snapshot"}
                      /\ job'[q] = "snapshot" => batch'[q] \subseteq Item
                      /\ ~Busy(q)' => /\ step'[q] = 0 /\ todo'[q] = {} /\ chosen'[q] = {}
                                      /\ aim'[q] = NULL /\ \A t \in Target : locked'[t] # q
    BY DEF SessionShape
  <2>1. CASE job'[q] = job[q] /\ batch'[q] = batch[q] /\ held'[q] = held[q]
    BY <1>1, <2>1 DEF Inv, SessionShape, Busy, Op
  <2>2. CASE q = s /\ ~Busy(q) /\ Busy(q)' /\ job'[q] \in Kind
    BY <1>1, <1>2, <2>2, ScriptLength DEF Busy
  <2> QED BY <1>1, <2>1, <2>2
<1>4. DraftShape'
  BY DEF Inv, DraftShape
<1>5. LockFirst'
  <2> SUFFICES ASSUME NEW q \in Session, job'[q] \in Takers
               PROVE  /\ step'[q] # 0 => lock' = q
                      /\ step'[q] = 0 => /\ todo'[q] = {} /\ aim'[q] = NULL
                                         /\ \A t \in Target : locked'[t] # q
    BY DEF LockFirst
  <2> QED BY <1>1, <1>2 DEF Inv, LockFirst
<1>6. ClickShape'
  <2> SUFFICES ASSUME NEW q \in Session, job'[q] \in {"save", "recheck"}
               PROVE  /\ \E i \in Item : batch'[q] = {i}
                      /\ todo'[q] \subseteq batch'[q]
                      /\ todo'[q] # {} => step'[q] = Len(Script[job'[q]])
                      /\ (\E t \in Target : locked'[t] = q)
                           => todo'[q] = {} /\ aim'[q] = NULL /\ step'[q] = Len(Script[job'[q]])
    BY DEF ClickShape
  <2>1. CASE job'[q] = job[q] /\ batch'[q] = batch[q]
    BY <1>1, <2>1 DEF Inv, ClickShape
  <2>2. CASE q = s /\ ~Busy(q) /\ Busy(q)' /\ job'[q] \in Kind
    BY <1>1, <1>2, <2>2 DEF Busy
  <2> QED BY <1>1, <2>1, <2>2
<1>7. DeletionShape'
  <2> SUFFICES ASSUME NEW q \in Session, NEW i \in Target, Deletes(q, i)'
               PROVE  /\ Sweeping(q)' /\ i \in Item
                      /\ i \in promised' => job'[q] = "disable" /\ held'[q] = StoreOf[i]
    BY DEF DeletionShape
  <2>1. job'[q] = job[q] /\ held'[q] = held[q]
    BY <1>1, <1>2 DEF Deletes
  <2>2. Deletes(q, i)
    BY <1>1, <2>1 DEF Deletes, Busy, Op
  <2> QED BY <2>1, <2>2 DEF Inv, DeletionShape, Sweeping
<1>8. Placed'
  <2> SUFFICES ASSUME NEW q \in Session, job'[q] \in {"save", "restore"}
               PROVE  /\ \A i \in chosen'[q] \ todo'[q] : RowIn(q, i)' # "absent"
                      /\ chosen'[q] \subseteq Item
                      /\ step'[q] < 2 => chosen'[q] = {}
    BY DEF Placed
  <2>1. CASE job'[q] = job[q]
    BY <1>1, <2>1 DEF Inv, Placed, RowIn
  <2>2. CASE q = s /\ ~Busy(q)
    BY <1>1, <1>2, <2>2
  <2> QED BY <1>1, <2>1, <2>2
<1>9. PromiseShape'
  BY DEF Inv, PromiseShape, Stocked
<1>10. InterestHasRow'
  BY DEF Inv, InterestHasRow
<1> QED BY <1>3, <1>4, <1>5, <1>6, <1>7, <1>8, <1>9, <1>10 DEF Inv

\* A sweep that deletes holds the lock.
LEMMA SweepsHoldLock ==
    ASSUME Inv, NEW q \in Session, NEW i \in Target, Deletes(q, i)
    PROVE  lock = q
<1>1. job[q] \in Takers /\ step[q] # 0
  <2>1. Sweeping(q) BY DEF Inv, DeletionShape
  <2>2. job[q] \in Takers BY <2>1 DEF Sweeping, Takers
  <2>3. step[q] # 0 BY <2>2 DEF Deletes, Inv, LockFirst, TypeOK
  <2> QED BY <2>2, <2>3
<1> QED BY <1>1 DEF Inv, LockFirst

\* An interest path that has chosen its rows holds the lock.
LEMMA PlacersHoldLock ==
    ASSUME Inv, NEW q \in Session, job[q] \in {"save", "restore"}, chosen[q] # {}
    PROVE  lock = q
<1>1. step[q] # 0
  BY DEF Inv, Placed
<1> QED BY <1>1 DEF Inv, LockFirst, Takers

\* The end of a transaction keeps every part that is about sessions and rows.
LEMMA EndKeeps ==
    ASSUME Inv, NEW s \in Session, Over(s)
    PROVE  /\ SessionShape' /\ DraftShape' /\ LockFirst' /\ ClickShape' /\ Placed'
           /\ \A q \in Session, i \in Target : Deletes(q, i)' => q # s /\ Deletes(q, i)
<1>0. TypeOK /\ TypeOK' /\ NULL \notin Session BY ReconcileAssumption DEF Inv, Over
<1>1. ASSUME NEW t \in Target
      PROVE  IF locked[t] = s
             THEN locked'[t] = NULL /\ draft'[t] = rows'[t] /\ rows'[t] \in {rows[t], draft[t]}
             ELSE locked'[t] = locked[t] /\ draft'[t] = draft[t] /\ rows'[t] = rows[t]
  BY DEF Over
<1>2. /\ lock' = (IF lock = s THEN NULL ELSE lock)
      /\ ~Busy(s)' /\ step'[s] = 0 /\ todo'[s] = {} /\ chosen'[s] = {} /\ aim'[s] = NULL
      /\ held'[s] = NULL /\ job'[s] = "idle"
  BY DEF Over, Busy
<1>3. ASSUME NEW q \in Session \ {s}
      PROVE  /\ job'[q] = job[q] /\ step'[q] = step[q] /\ todo'[q] = todo[q]
             /\ chosen'[q] = chosen[q] /\ aim'[q] = aim[q] /\ batch'[q] = batch[q]
             /\ held'[q] = held[q] /\ mode'[q] = mode[q]
  BY DEF Over
<1>4. ASSUME NEW q \in Session, NEW t \in Target
      PROVE  locked'[t] = q => q # s /\ locked[t] = q
  BY <1>0, <1>1
<1>5. SessionShape'
  <2> SUFFICES ASSUME NEW q \in Session
               PROVE  /\ lock' = q => step'[q] > 0
                      /\ Busy(q)' => step'[q] <= Len(Script[job'[q]])
                      /\ todo'[q] # {} => Busy(q)' /\ step'[q] > 0 /\ Op(q)' \in RowOps
                      /\ aim'[q] # NULL => aim'[q] \in todo'[q]
                      /\ held'[q] # NULL => job'[q] \in {"disable", "snapshot"}
                      /\ job'[q] = "snapshot" => batch'[q] \subseteq Item
                      /\ ~Busy(q)' => /\ step'[q] = 0 /\ todo'[q] = {} /\ chosen'[q] = {}
                                      /\ aim'[q] = NULL /\ \A t \in Target : locked'[t] # q
    BY DEF SessionShape
  <2>1. CASE q = s
    BY <1>0, <1>2, <1>4, <2>1
  <2>2. CASE q # s
    BY <1>0, <1>2, <1>3, <1>4, <2>2 DEF Inv, SessionShape, Busy, Op
  <2> QED BY <2>1, <2>2
<1>6. DraftShape'
  BY <1>0, <1>1 DEF Inv, DraftShape
<1>7. LockFirst'
  <2> SUFFICES ASSUME NEW q \in Session, job'[q] \in Takers
               PROVE  /\ step'[q] # 0 => lock' = q
                      /\ step'[q] = 0 => /\ todo'[q] = {} /\ aim'[q] = NULL
                                         /\ \A t \in Target : locked'[t] # q
    BY DEF LockFirst
  <2>1. q # s BY <1>2 DEF Takers
  <2> QED BY <1>2, <1>3, <1>4, <2>1 DEF Inv, LockFirst
<1>8. ClickShape'
  <2> SUFFICES ASSUME NEW q \in Session, job'[q] \in {"save", "recheck"}
               PROVE  /\ \E i \in Item : batch'[q] = {i}
                      /\ todo'[q] \subseteq batch'[q]
                      /\ todo'[q] # {} => step'[q] = Len(Script[job'[q]])
                      /\ (\E t \in Target : locked'[t] = q)
                           => todo'[q] = {} /\ aim'[q] = NULL /\ step'[q] = Len(Script[job'[q]])
    BY DEF ClickShape
  <2>1. q # s BY <1>2
  <2> QED BY <1>3, <1>4, <2>1 DEF Inv, ClickShape
<1>9. ASSUME NEW q \in Session, NEW i \in Target, Deletes(q, i)'
      PROVE  q # s /\ Deletes(q, i)
  <2>1. q # s BY <1>2, <1>4, <1>9 DEF Deletes
  <2>2. CASE locked'[i] = q /\ draft'[i] = "absent" /\ rows'[i] # "absent"
    BY <1>1, <1>4, <2>1, <2>2 DEF Deletes
  <2>3. CASE Busy(q)' /\ step'[q] > 0 /\ Op(q)' = "delete" /\ i \in todo'[q]
    BY <1>3, <2>1, <2>3 DEF Deletes, Busy, Op
  <2> QED BY <1>9, <2>1, <2>2, <2>3 DEF Deletes
<1>10. Placed'
  <2> SUFFICES ASSUME NEW q \in Session, job'[q] \in {"save", "restore"}
               PROVE  /\ \A i \in chosen'[q] \ todo'[q] : RowIn(q, i)' # "absent"
                      /\ chosen'[q] \subseteq Item
                      /\ step'[q] < 2 => chosen'[q] = {}
    BY DEF Placed
  <2>1. q # s BY <1>2
  <2>2. ASSUME NEW i \in chosen[q] \ todo[q] PROVE RowIn(q, i)' # "absent"
    <3>1. i \in Target /\ RowIn(q, i) # "absent" /\ job[q] \in {"save", "restore"}
      BY <1>0, <1>3, <2>1, <2>2 DEF Inv, Placed, TypeOK
    <3>2. CASE locked[i] = q
      BY <1>1, <2>1, <3>1, <3>2 DEF RowIn
    <3>3. CASE locked[i] # q /\ locked[i] # s
      BY <1>1, <2>1, <3>1, <3>3 DEF RowIn
    <3>4. CASE locked[i] = s
      <4>1. rows[i] # "absent" BY <2>1, <3>1, <3>4 DEF RowIn
      <4>2. draft[i] # "absent"
        <5>1. SUFFICES ASSUME draft[i] = "absent" PROVE FALSE
          OBVIOUS
        <5>2. Deletes(s, i) BY <3>4, <4>1, <5>1 DEF Deletes
        <5> QED BY <2>1, <2>2, <3>1, <5>2, SweepsHoldLock, PlacersHoldLock
      <4> QED BY <1>0, <1>1, <3>1, <3>4, <4>1, <4>2 DEF RowIn
    <3> QED BY <3>2, <3>3, <3>4
  <2> QED BY <1>3, <2>1, <2>2 DEF Inv, Placed
<1> QED BY <1>5, <1>6, <1>7, <1>8, <1>9, <1>10

\* A rollback keeps the invariant.
LEMMA RollBackKeeps ==
    ASSUME Inv, NEW s \in Session, RolledBack(s)
    PROVE  Inv'
<1>1. Over(s) /\ UNCHANGED <<rows, interest, history>>
  BY RollingBack DEF Inv
<1>2. DeletionShape'
  <2> SUFFICES ASSUME NEW q \in Session, NEW i \in Target, Deletes(q, i)'
               PROVE  /\ Sweeping(q)' /\ i \in Item
                      /\ i \in promised' => job'[q] = "disable" /\ held'[q] = StoreOf[i]
    BY DEF DeletionShape
  <2>1. q # s /\ Deletes(q, i)
    BY <1>1, EndKeeps
  <2> QED BY <1>1, <2>1 DEF Inv, DeletionShape, Sweeping, Over, history
<1>3. PromiseShape' /\ InterestHasRow'
  BY <1>1 DEF Inv, PromiseShape, InterestHasRow, Stocked, interest, history
<1> QED BY <1>1, <1>2, <1>3, EndKeeps DEF Inv, Over

\* A commit keeps the invariant: what it deletes was not promised, or is not listed
\* any more, and what it promises has its row.
LEMMA CommitKeeps ==
    ASSUME Inv, NEW s \in Session, Commit(s)
    PROVE  Inv'
<1>1. Over(s) /\ (\A t \in Target : rows'[t] = RowIn(s, t)) /\ UNCHANGED library
  BY Committing DEF Inv
<1>2. promised' = (promised \cup IF job[s] \in {"save", "restore"} THEN chosen[s] ELSE {})
                     \cap Stocked' \cap (saved' \cup library')
  BY DEF Commit, Kept
<1>3. AtRest(s) /\ step[s] = Len(Script[job[s]])
  BY DEF Commit
<1>4. DeletionShape'
  <2> SUFFICES ASSUME NEW q \in Session, NEW i \in Target, Deletes(q, i)'
               PROVE  /\ Sweeping(q)' /\ i \in Item
                      /\ i \in promised' => job'[q] = "disable" /\ held'[q] = StoreOf[i]
    BY DEF DeletionShape
  <2>1. q # s /\ Deletes(q, i)
    BY <1>1, EndKeeps
  <2>2. i \in promised' => i \in promised
    BY <1>2, <2>1, SweepsHoldLock, PlacersHoldLock
  <2> QED BY <1>1, <2>1, <2>2 DEF Inv, DeletionShape, Sweeping, Over
<1>5. PromiseShape'
  BY <1>2 DEF PromiseShape
<1>6. InterestHasRow'
  <2> SUFFICES ASSUME NEW i \in promised' PROVE rows'[i] # "absent"
    BY DEF InterestHasRow
  <2>1. i \in Target
    BY <1>1 DEF Over, TypeOK, Target
  <2>2. CASE i \in promised
    <3>1. rows[i] # "absent" BY <2>2 DEF Inv, InterestHasRow
    <3>2. SUFFICES ASSUME rows'[i] = "absent" PROVE FALSE
      OBVIOUS
    <3>3. Deletes(s, i)
      BY <1>1, <2>1, <3>1, <3>2 DEF Deletes, RowIn
    <3>4. job[s] = "disable" /\ held[s] = StoreOf[i]
      BY <2>1, <2>2, <3>3 DEF Inv, DeletionShape
    <3>5. enabled' = enabled \ {StoreOf[i]}
      BY <3>4 DEF Commit
    <3> QED BY <1>2, <3>5 DEF Stocked
  <2>3. CASE i \notin promised
    <3>1. job[s] \in {"save", "restore"} /\ i \in chosen[s] /\ todo[s] = {}
      BY <1>2, <1>3, <2>3 DEF AtRest
    <3> QED BY <1>1, <2>1, <3>1 DEF Inv, Placed
  <2> QED BY <2>2, <2>3
<1> QED BY <1>1, <1>4, <1>5, <1>6, EndKeeps DEF Inv, Over

\* A statement is opened, the lock taken or a gate passed: no row changes.
StepsOn(s, op) ==
    /\ Opens(s, op) /\ TypeOK' /\ Own(s) /\ step'[s] = step[s] + 1
    /\ UNCHANGED <<rows, draft, locked>>
    /\ lock' = IF op = "lock" THEN s ELSE lock
    /\ op = "lock" => lock = NULL
    /\ aim' = aim
    /\ todo'[s] # {} => op \in RowOps /\ todo'[s] \in Candidates(s)[op]
    /\ op \in RowOps => todo'[s] \in Candidates(s)[op] /\ chosen'[s] = todo'[s]
    /\ op \notin RowOps => todo' = todo /\ chosen' = chosen

\* Taking the lock, opening a statement and passing the gate are such steps.
LEMMA SteppingOn ==
    ASSUME Inv, NEW s \in Session, TakeLock(s) \/ OpenStatement(s) \/ PassGate(s)
    PROVE  \E op \in RowOps \cup {"lock", "gate"} : StepsOn(s, op)
<1>1. CASE TakeLock(s)
  <2>1. TypeOK' /\ Own(s) /\ step'[s] = step[s] + 1
    BY <1>1, LockType DEF Inv
  <2>2. Opens(s, "lock") /\ todo[s] = {}
    BY <1>1 DEF TakeLock, Opens, AtRest
  <2>3. StepsOn(s, "lock")
    BY <1>1, <2>1, <2>2 DEF StepsOn, TakeLock, RowOps
  <2> QED BY <2>3
<1>2. CASE OpenStatement(s)
  <2>1. PICK op \in RowOps : /\ Opens(s, op)
                             /\ todo'[s] \in Candidates(s)[op] /\ chosen'[s] = todo'[s]
    BY <1>2, OpenType DEF Inv
  <2>2. TypeOK' /\ Own(s) /\ step'[s] = step[s] + 1
    BY <1>2, OpenType DEF Inv
  <2>3. op # "lock" BY <2>1 DEF RowOps
  <2>4. StepsOn(s, op)
    BY <1>2, <2>1, <2>2, <2>3 DEF StepsOn, OpenStatement, table
  <2> QED BY <2>4
<1>3. CASE PassGate(s)
  <2>1. TypeOK' /\ Own(s) /\ step'[s] = step[s] + 1
    BY <1>3, GateType DEF Inv
  <2>2. Opens(s, "gate") /\ todo[s] = {}
    BY <1>3 DEF PassGate, Opens, AtRest
  <2>3. StepsOn(s, "gate")
    BY <1>3, <2>1, <2>2 DEF StepsOn, PassGate, RowOps, table
  <2> QED BY <2>3
<1> QED BY <1>1, <1>2, <1>3

\* Such a step keeps the invariant.  What a sweep chooses to delete was not promised: a
\* promise is about an item that is listed and wanted, and the sweep sees that.
LEMMA StepKeeps ==
    ASSUME Inv, NEW s \in Session, NEW op \in RowOps \cup {"lock", "gate"}, StepsOn(s, op)
    PROVE  Inv'
<1>0. TypeOK /\ TypeOK' /\ NULL \notin Session /\ SessionShape
  BY ReconcileAssumption DEF Inv, StepsOn
<1>1. /\ job[s] \in Kind /\ step[s] \in Nat /\ step[s] + 1 \in 1..4
      /\ step[s] + 1 <= Len(Script[job[s]]) /\ Script[job[s]][step[s] + 1] = op
      /\ Busy(s) /\ todo[s] = {} /\ aim[s] = NULL
  BY <1>0, Opened DEF StepsOn
<1>2. /\ job' = job /\ batch' = batch /\ held' = held /\ mode' = mode /\ rows' = rows
      /\ promised' = promised /\ draft' = draft /\ locked' = locked /\ aim' = aim
      /\ stock' = stock /\ enabled' = enabled /\ saved' = saved /\ library' = library
      /\ step'[s] = step[s] + 1
  BY DEF StepsOn, Own, interest
<1>3. ASSUME NEW q \in Session \ {s}
      PROVE  step'[q] = step[q] /\ todo'[q] = todo[q] /\ chosen'[q] = chosen[q]
  BY DEF StepsOn, Own
<1>4. /\ job[s] \in Takers => (step[s] = 0 <=> op = "lock")
      /\ job[s] \in {"save", "recheck"} /\ op \in RowOps
           => op = "expedite" /\ step[s] + 1 = Len(Script[job[s]])
      /\ job[s] \in {"save", "restore"} => op \in {"lock", "expedite", "insert"}
      /\ op = "delete" => job[s] \in {"sweep", "enable", "disable"}
      /\ op = "lock" => job[s] \in Takers
  <2>1. PICK n \in 1..4 : n = step[s] + 1 /\ n <= Len(Script[job[s]]) /\ Script[job[s]][n] = op
    BY <1>1
  <2>2. n = 1 <=> step[s] = 0
    BY <1>1, <2>1
  <2>3. PICK kind \in Kind : kind = job[s]
    BY <1>1
  <2>4. n <= Len(Script[kind]) /\ Script[kind][n] = op
    BY <2>1, <2>3
  <2>5. /\ kind \in Takers => (n = 1 <=> op = "lock")
        /\ kind \in {"save", "recheck"} /\ op \in RowOps
             => op = "expedite" /\ n = Len(Script[kind])
        /\ kind \in {"save", "restore"} => op \in {"lock", "expedite", "insert"}
        /\ op = "delete" => kind \in {"sweep", "enable", "disable"}
        /\ op = "lock" => kind \in Takers
    BY <2>4, Statement
  <2> QED BY <2>1, <2>2, <2>3, <2>5
<1>5. /\ lock' = (IF op = "lock" THEN s ELSE lock)
      /\ op = "lock" => lock = NULL
      /\ todo'[s] # {} => op \in RowOps
      /\ op \in RowOps => todo'[s] \in Candidates(s)[op] /\ chosen'[s] = todo'[s]
      /\ op \notin RowOps => todo' = todo /\ chosen' = chosen
  BY DEF StepsOn
<1>6. Op(s)' = op
  BY <1>1, <1>2 DEF Op
<1>7. SessionShape'
  <2> SUFFICES ASSUME NEW q \in Session
               PROVE  /\ lock' = q => step'[q] > 0
                      /\ Busy(q)' => step'[q] <= Len(Script[job'[q]])
                      /\ todo'[q] # {} => Busy(q)' /\ step'[q] > 0 /\ Op(q)' \in RowOps
                      /\ aim'[q] # NULL => aim'[q] \in todo'[q]
                      /\ held'[q] # NULL => job'[q] \in {"disable", "snapshot"}
                      /\ job'[q] = "snapshot" => batch'[q] \subseteq Item
                      /\ ~Busy(q)' => /\ step'[q] = 0 /\ todo'[q] = {} /\ chosen'[q] = {}
                                      /\ aim'[q] = NULL /\ \A t \in Target : locked'[t] # q
    BY DEF SessionShape
  <2>1. CASE q = s
    BY <1>0, <1>1, <1>2, <1>5, <1>6, <2>1 DEF SessionShape, Busy
  <2>2. CASE q # s
    BY <1>0, <1>2, <1>3, <1>5, <2>2 DEF SessionShape, Busy, Op
  <2> QED BY <2>1, <2>2
<1>8. DraftShape'
  BY <1>2 DEF Inv, DraftShape
<1>9. LockFirst'
  <2> SUFFICES ASSUME NEW q \in Session, job[q] \in Takers
               PROVE  /\ step'[q] # 0 => lock' = q
                      /\ step'[q] = 0 => /\ todo'[q] = {} /\ aim[q] = NULL
                                         /\ \A t \in Target : locked[t] # q
    BY <1>2 DEF LockFirst
  <2>1. CASE q = s
    BY <1>1, <1>2, <1>4, <1>5, <2>1 DEF Inv, LockFirst
  <2>2. CASE q # s
    BY <1>0, <1>3, <1>5, <2>2 DEF Inv, LockFirst
  <2> QED BY <2>1, <2>2
<1>10. ClickShape'
  <2> SUFFICES ASSUME NEW q \in Session, job[q] \in {"save", "recheck"}
               PROVE  /\ \E i \in Item : batch[q] = {i}
                      /\ todo'[q] \subseteq batch[q]
                      /\ todo'[q] # {} => step'[q] = Len(Script[job[q]])
                      /\ (\E t \in Target : locked[t] = q)
                           => todo'[q] = {} /\ aim[q] = NULL /\ step'[q] = Len(Script[job[q]])
    BY <1>2 DEF ClickShape
  <2>1. CASE q = s
    <3>1. \A t \in Target : locked[t] # s
      BY <1>1, <2>1 DEF Inv, ClickShape
    <3>2. op \in RowOps => todo'[s] \subseteq batch[s]
      BY <1>4, <1>5, <2>1 DEF Candidates
    <3> QED BY <1>1, <1>2, <1>4, <1>5, <2>1, <3>1, <3>2 DEF Inv, ClickShape
  <2>2. CASE q # s
    BY <1>3, <2>2 DEF Inv, ClickShape
  <2> QED BY <2>1, <2>2
<1>11. DeletionShape'
  <2> SUFFICES ASSUME NEW q \in Session, NEW i \in Target, Deletes(q, i)'
               PROVE  /\ Sweeping(q) /\ i \in Item
                      /\ i \in promised => job[q] = "disable" /\ held[q] = StoreOf[i]
    BY <1>2 DEF DeletionShape, Sweeping
  <2>1. CASE Deletes(q, i)
    BY <2>1 DEF Inv, DeletionShape
  <2>2. CASE ~Deletes(q, i)
    <3>1. q = s /\ op = "delete" /\ i \in todo'[s]
      <4>1. Busy(q)' /\ step'[q] > 0 /\ Op(q)' = "delete" /\ i \in todo'[q]
        BY <1>2, <2>2 DEF Deletes
      <4>2. q = s
        BY <1>2, <1>3, <2>2, <4>1 DEF Deletes, Busy, Op
      <4> QED BY <1>6, <4>1, <4>2
    <3>2. i \in Item /\ i \notin CrawlableIn(s)
      BY <1>5, <3>1 DEF Candidates, RowOps
    <3>3. Sweeping(s)
      BY <1>4, <3>1 DEF Sweeping
    <3>4. ASSUME i \in promised PROVE job[s] = "disable" /\ held[s] = StoreOf[i]
      <4>1. i \in Stocked /\ i \in saved \cup library
        BY <3>4 DEF Inv, PromiseShape
      <4>2. i \notin StockedIn(s)
        BY <3>2, <4>1 DEF CrawlableIn, SavedIn
      <4>3. held[s] # NULL /\ StoreOf[i] = held[s]
        BY <4>1, <4>2 DEF StockedIn
      <4> QED BY <1>0, <3>3, <4>3 DEF SessionShape, Sweeping
    <3> QED BY <3>1, <3>2, <3>3, <3>4
  <2> QED BY <2>1, <2>2
<1>12. Placed'
  <2> SUFFICES ASSUME NEW q \in Session, job[q] \in {"save", "restore"}
               PROVE  /\ \A i \in chosen'[q] \ todo'[q] : RowIn(q, i) # "absent"
                      /\ chosen'[q] \subseteq Item
                      /\ step'[q] < 2 => chosen'[q] = {}
    BY <1>2 DEF Placed, RowIn
  <2>1. CASE q = s /\ op \in RowOps
    <3>1. chosen'[s] \subseteq StockedIn(s) /\ chosen'[s] = todo'[s]
      BY <1>4, <1>5, <2>1 DEF Candidates, RowOps
    <3>2. step'[s] >= 2
      BY <1>1, <1>2, <1>4, <2>1 DEF Takers, RowOps
    <3> QED BY <1>0, <1>1, <1>2, <2>1, <3>1, <3>2, StockedType
  <2>2. CASE q = s /\ op \notin RowOps
    <3>1. op = "lock" /\ step[s] = 0
      BY <1>4, <2>2 DEF RowOps, Takers
    <3>2. chosen[s] = {}
      BY <2>2, <3>1 DEF Inv, Placed
    <3> QED BY <1>5, <2>2, <3>2
  <2>3. CASE q # s
    BY <1>3, <2>3 DEF Inv, Placed
  <2> QED BY <2>1, <2>2, <2>3
<1>13. PromiseShape' /\ InterestHasRow'
  BY <1>2 DEF Inv, PromiseShape, InterestHasRow, Stocked
<1> QED BY <1>0, <1>7, <1>8, <1>9, <1>10, <1>11, <1>12, <1>13 DEF Inv

\* Which statement a session with rows to visit is in.
LEMMA Working ==
    ASSUME Inv, NEW s \in Session, todo[s] # {}
    PROVE  /\ Busy(s) /\ step[s] > 0 /\ Op(s) \in RowOps
           /\ job[s] \in {"save", "restore"} => Op(s) \in {"expedite", "insert"}
           /\ Op(s) = "delete" => Sweeping(s)
<1>1. Busy(s) /\ step[s] > 0 /\ Op(s) \in RowOps /\ TypeOK /\ SessionShape
  BY DEF Inv, SessionShape
<1>2. job[s] \in Kind /\ step[s] \in 1..4
  BY <1>1, Visiting
<1>3. PICK kind \in Kind : kind = job[s]
  BY <1>2
<1>4. PICK n \in 1..4 : n = step[s] /\ n <= Len(Script[kind]) /\ Script[kind][n] = Op(s)
  BY <1>1, <1>2, <1>3, Visiting
<1>5. /\ kind \in {"save", "restore"} => Op(s) \in {"lock", "expedite", "insert"}
      /\ Op(s) = "delete" => kind \in {"sweep", "enable", "disable"}
  BY <1>4, Statement
<1> QED BY <1>1, <1>3, <1>5 DEF Sweeping, RowOps

\* Touching a row keeps the invariant.
LEMMA TouchKeeps ==
    ASSUME Inv, NEW s \in Session, NEW t \in Target, Touch(s, t)
    PROVE  Inv'
<1>0. /\ TypeOK /\ SessionShape /\ DraftShape /\ NULL \notin Session /\ NULL \notin Target
  BY ReconcileAssumption DEF Inv
<1>1. /\ TypeOK' /\ Own(s) /\ UNCHANGED <<lock, step, chosen>>
      /\ \A u \in Target \ {t} : draft'[u] = draft[u] /\ locked'[u] = locked[u]
      /\ draft'[t] = Written(s, t)
      /\ \/ locked'[t] = s
         \/ /\ locked'[t] = locked[t] /\ draft'[t] = draft[t]
            /\ Op(s) = "insert" \/ draft[t] = "absent"
      /\ todo'[s] = todo[s] \ {t} /\ aim'[s] = NULL
  BY <1>0, TouchType
<1>2. Busy(s) /\ t \in todo[s] /\ ~Blocked(s, t)
  BY DEF Touch
<1>3. step[s] > 0 /\ Op(s) \in RowOps
  BY <1>2, Working
<1>4. /\ job[s] \in {"save", "restore"} => Op(s) \in {"expedite", "insert"}
      /\ Op(s) = "delete" => Sweeping(s)
  BY <1>2, Working
<1>5. /\ rows' = rows /\ job' = job /\ batch' = batch /\ held' = held /\ promised' = promised
      /\ stock' = stock /\ enabled' = enabled /\ saved' = saved /\ library' = library
      /\ step' = step /\ chosen' = chosen /\ lock' = lock
  BY <1>1 DEF Own, interest
<1>6. ASSUME NEW q \in Session \ {s} PROVE todo'[q] = todo[q] /\ aim'[q] = aim[q]
  BY <1>1 DEF Own
<1>7. ASSUME NEW q \in Session \ {s}, NEW u \in Target, locked'[u] = q
      PROVE  locked[u] = q /\ draft'[u] = draft[u]
  BY <1>1, <1>7
<1>8. ASSUME NEW u \in Target, u # t PROVE locked'[u] = locked[u] /\ draft'[u] = draft[u]
  BY <1>1, <1>8
<1>9. ASSUME NEW q \in Session PROVE (Op(q))' = Op(q)
  BY <1>5 DEF Op
<1>10. SessionShape'
  <2> SUFFICES ASSUME NEW q \in Session
               PROVE  /\ lock = q => step[q] > 0
                      /\ Busy(q) => step[q] <= Len(Script[job[q]])
                      /\ todo'[q] # {} => Busy(q) /\ step[q] > 0 /\ Op(q) \in RowOps
                      /\ aim'[q] # NULL => aim'[q] \in todo'[q]
                      /\ held[q] # NULL => job[q] \in {"disable", "snapshot"}
                      /\ job[q] = "snapshot" => batch[q] \subseteq Item
                      /\ ~Busy(q) => /\ step[q] = 0 /\ todo'[q] = {} /\ chosen[q] = {}
                                     /\ aim'[q] = NULL /\ \A u \in Target : locked'[u] # q
    BY <1>5, <1>9 DEF SessionShape, Busy, Op
  <2>1. CASE q = s
    BY <1>0, <1>1, <1>2, <1>3, <2>1 DEF SessionShape
  <2>2. CASE q # s
    BY <1>0, <1>6, <1>7, <2>2 DEF SessionShape
  <2> QED BY <2>1, <2>2
<1>11. DraftShape'
  <2> SUFFICES ASSUME NEW u \in Target, locked'[u] = NULL PROVE draft'[u] = rows[u]
    BY <1>5 DEF DraftShape
  <2> QED BY <1>0, <1>1, <1>8 DEF DraftShape
<1>12. LockFirst'
  <2> SUFFICES ASSUME NEW q \in Session, job[q] \in Takers
               PROVE  /\ step[q] # 0 => lock = q
                      /\ step[q] = 0 => /\ todo'[q] = {} /\ aim'[q] = NULL
                                        /\ \A u \in Target : locked'[u] # q
    BY <1>5 DEF LockFirst
  <2>1. CASE q = s
    BY <1>3, <2>1 DEF Inv, LockFirst
  <2>2. CASE q # s
    BY <1>6, <1>7, <2>2 DEF Inv, LockFirst
  <2> QED BY <2>1, <2>2
<1>13. ClickShape'
  <2> SUFFICES ASSUME NEW q \in Session, job[q] \in {"save", "recheck"}
               PROVE  /\ \E i \in Item : batch[q] = {i}
                      /\ todo'[q] \subseteq batch[q]
                      /\ todo'[q] # {} => step[q] = Len(Script[job[q]])
                      /\ (\E u \in Target : locked'[u] = q)
                           => todo'[q] = {} /\ aim'[q] = NULL /\ step[q] = Len(Script[job[q]])
    BY <1>5 DEF ClickShape
  <2>1. CASE q = s
    <3>1. PICK i \in Item : batch[s] = {i}
      BY <2>1 DEF Inv, ClickShape
    <3>2. todo[s] \subseteq {i} /\ step[s] = Len(Script[job[s]])
      BY <1>2, <2>1, <3>1 DEF Inv, ClickShape
    <3> QED BY <1>1, <1>2, <2>1, <3>1, <3>2
  <2>2. CASE q # s
    BY <1>6, <1>7, <2>2 DEF Inv, ClickShape
  <2> QED BY <2>1, <2>2
<1>14. ASSUME locked[t] # s, draft[t] # rows[t] PROVE FALSE
  BY <1>0, <1>2, <1>14 DEF Blocked, Taken, DraftShape
<1>15. DeletionShape'
  <2> SUFFICES ASSUME NEW q \in Session, NEW i \in Target, Deletes(q, i)'
               PROVE  Deletes(q, i)
    BY <1>5 DEF Inv, DeletionShape, Sweeping
  <2>1. CASE locked'[i] = q /\ draft'[i] = "absent" /\ rows[i] # "absent"
    <3>1. CASE i # t
      BY <1>8, <2>1, <3>1 DEF Deletes
    <3>2. CASE q # s
      BY <1>7, <2>1, <3>2 DEF Deletes
    <3>3. CASE i = t /\ q = s
      <4>1. Op(s) = "delete" \/ draft[t] = "absent"
        BY <1>1, <1>3, <2>1, <3>3 DEF Written, Requeued, RowOps
      <4>2. CASE Op(s) = "delete"
        BY <1>2, <1>3, <3>3, <4>2 DEF Deletes
      <4>3. CASE draft[t] = "absent"
        BY <1>14, <2>1, <3>3, <4>3 DEF Deletes
      <4> QED BY <4>1, <4>2, <4>3
    <3> QED BY <3>1, <3>2, <3>3
  <2>2. CASE Busy(q)' /\ step[q] > 0 /\ Op(q)' = "delete" /\ i \in todo'[q]
    <3>1. i \in todo[q]
      BY <1>1, <1>6, <2>2
    <3> QED BY <1>5, <1>9, <2>2, <3>1 DEF Deletes, Busy
  <2> QED BY <1>5, <2>1, <2>2 DEF Deletes
<1>16. Placed'
  <2> SUFFICES ASSUME NEW q \in Session, job[q] \in {"save", "restore"},
                      NEW i \in chosen[q] \ todo'[q]
               PROVE  RowIn(q, i)' # "absent"
    BY <1>5 DEF Inv, Placed
  <2>1. i \in Target
    BY <1>0 DEF TypeOK
  <2>2. CASE i # t
    <3>1. i \notin todo[q] /\ RowIn(q, i)' = RowIn(q, i)
      BY <1>1, <1>5, <1>6, <1>8, <2>1, <2>2 DEF RowIn
    <3> QED BY <3>1 DEF Inv, Placed
  <2>3. CASE i = t /\ q # s
    <3>1. RowIn(q, t) # "absent"
      BY <1>6, <2>3 DEF Inv, Placed
    <3>2. CASE locked'[t] = q
      BY <1>7, <2>3, <3>1, <3>2 DEF RowIn
    <3>3. CASE locked'[t] # q
      BY <1>5, <1>14, <2>3, <3>1, <3>3 DEF RowIn
    <3> QED BY <3>2, <3>3
  <2>4. CASE i = t /\ q = s
    <3>1. Op(s) \in {"expedite", "insert"}
      BY <1>4, <2>4
    <3>2. draft'[t] # "absent"
      BY <1>1, <3>1 DEF Written, Requeued
    <3>3. CASE locked'[t] = s
      BY <2>4, <3>2, <3>3 DEF RowIn
    <3>4. CASE locked'[t] # s
      BY <1>1, <1>5, <1>14, <2>4, <3>2, <3>4 DEF RowIn
    <3> QED BY <3>3, <3>4
  <2> QED BY <2>2, <2>3, <2>4
<1>17. PromiseShape' /\ InterestHasRow'
  BY <1>5 DEF Inv, PromiseShape, InterestHasRow, Stocked
<1> QED BY <1>1, <1>10, <1>11, <1>12, <1>13, <1>15, <1>16, <1>17 DEF Inv

\* Waiting keeps the invariant: a click that waits holds no row.
LEMMA WaitKeeps ==
    ASSUME Inv, NEW s \in Session, NEW t \in Target, Wait(s, t)
    PROVE  Inv'
<1>1. TypeOK' /\ Own(s) /\ UNCHANGED <<table, step, todo, chosen>> /\ aim'[s] = t
  BY WaitType DEF Inv
<1>2. t \in todo[s]
  BY DEF Wait
<1>3. Busy(s) /\ step[s] > 0
  BY <1>2, Working
<1>4. /\ rows' = rows /\ draft' = draft /\ locked' = locked /\ lock' = lock /\ job' = job
      /\ step' = step /\ todo' = todo /\ chosen' = chosen /\ batch' = batch /\ held' = held
      /\ promised' = promised /\ stock' = stock /\ enabled' = enabled /\ saved' = saved
      /\ library' = library
      /\ \A q \in Session \ {s} : aim'[q] = aim[q]
  BY <1>1 DEF Own, table, interest
<1>5. SessionShape' /\ DraftShape'
  BY <1>1, <1>2, <1>3, <1>4 DEF Inv, SessionShape, DraftShape, Busy, Op
<1>6. LockFirst'
  BY <1>1, <1>3, <1>4 DEF Inv, LockFirst
<1>7. ClickShape'
  BY <1>1, <1>2, <1>4 DEF Inv, ClickShape
<1>8. DeletionShape'
  BY <1>4 DEF Inv, DeletionShape, Deletes, Sweeping, Busy, Op
<1>9. Placed'
  BY <1>4 DEF Inv, Placed, RowIn
<1>10. PromiseShape' /\ InterestHasRow'
  BY <1>4 DEF Inv, PromiseShape, InterestHasRow, Stocked
<1> QED BY <1>1, <1>5, <1>6, <1>7, <1>8, <1>9, <1>10 DEF Inv

\* Passing a row by keeps the invariant: no interest path does it.
LEMMA PassKeeps ==
    ASSUME Inv, NEW s \in Session, NEW t \in Target, PassBy(s, t)
    PROVE  Inv'
<1>1. /\ TypeOK' /\ Own(s) /\ UNCHANGED <<table, step, chosen, aim>>
      /\ todo'[s] = todo[s] \ {t} /\ aim[s] = NULL
  BY PassType DEF Inv
<1>2. t \in todo[s] /\ Op(s) \in {"revive", "widen", "enqueue"}
  BY DEF PassBy, Skips, Gated
<1>3. job[s] \notin {"save", "restore"}
  BY <1>2, Working
<1>4. /\ rows' = rows /\ draft' = draft /\ locked' = locked /\ lock' = lock /\ job' = job
      /\ step' = step /\ aim' = aim /\ chosen' = chosen /\ batch' = batch /\ held' = held
      /\ promised' = promised /\ stock' = stock /\ enabled' = enabled /\ saved' = saved
      /\ library' = library
      /\ \A q \in Session \ {s} : todo'[q] = todo[q]
  BY <1>1 DEF Own, table, interest
<1>5. ASSUME NEW q \in Session
      PROVE  /\ todo'[q] \subseteq todo[q]
             /\ aim[q] # NULL => todo'[q] = todo[q]
             /\ job[q] \in {"save", "restore"} => todo'[q] = todo[q]
  BY <1>1, <1>3, <1>4
<1>6. SessionShape'
  <2> SUFFICES ASSUME NEW q \in Session
               PROVE  /\ lock = q => step[q] > 0
                      /\ Busy(q) => step[q] <= Len(Script[job[q]])
                      /\ todo'[q] # {} => Busy(q) /\ step[q] > 0 /\ Op(q) \in RowOps
                      /\ aim[q] # NULL => aim[q] \in todo'[q]
                      /\ held[q] # NULL => job[q] \in {"disable", "snapshot"}
                      /\ job[q] = "snapshot" => batch[q] \subseteq Item
                      /\ ~Busy(q) => /\ step[q] = 0 /\ todo'[q] = {} /\ chosen[q] = {}
                                     /\ aim[q] = NULL /\ \A u \in Target : locked[u] # q
    BY <1>4 DEF SessionShape, Busy, Op
  <2> QED BY <1>5 DEF Inv, SessionShape
<1>7. DraftShape'
  BY <1>4 DEF Inv, DraftShape
<1>8. LockFirst'
  BY <1>4, <1>5 DEF Inv, LockFirst
<1>9. ClickShape'
  <2> SUFFICES ASSUME NEW q \in Session, job[q] \in {"save", "recheck"}
               PROVE  /\ \E i \in Item : batch[q] = {i}
                      /\ todo'[q] \subseteq batch[q]
                      /\ todo'[q] # {} => step[q] = Len(Script[job[q]])
                      /\ (\E u \in Target : locked[u] = q)
                           => todo'[q] = {} /\ aim[q] = NULL /\ step[q] = Len(Script[job[q]])
    BY <1>4 DEF ClickShape
  <2> QED BY <1>5 DEF Inv, ClickShape
<1>10. DeletionShape'
  <2> SUFFICES ASSUME NEW q \in Session, NEW i \in Target, Deletes(q, i)'
               PROVE  Deletes(q, i)
    BY <1>4 DEF Inv, DeletionShape, Sweeping
  <2> QED BY <1>4, <1>5 DEF Deletes, Busy, Op
<1>11. Placed'
  BY <1>4, <1>5 DEF Inv, Placed, RowIn
<1>12. PromiseShape' /\ InterestHasRow'
  BY <1>4 DEF Inv, PromiseShape, InterestHasRow, Stocked
<1> QED BY <1>1, <1>6, <1>7, <1>8, <1>9, <1>10, <1>11, <1>12 DEF Inv

\* The workers keep the invariant: they only change rows that nobody holds.
LEMMA MoveKeeps ==
    ASSUME Inv, NEW t \in Target, NEW status \in Status \ {"absent"}, RowMoves(t, status)
    PROVE  Inv'
<1>0. TypeOK /\ NULL \notin Session
  BY ReconcileAssumption DEF Inv
<1>1. /\ locked[t] = NULL /\ locked' = locked /\ lock' = lock /\ job' = job /\ step' = step
      /\ todo' = todo /\ chosen' = chosen /\ aim' = aim /\ batch' = batch /\ held' = held
      /\ mode' = mode /\ promised' = promised /\ begun' = begun
      /\ stock' = stock /\ enabled' = enabled /\ saved' = saved /\ library' = library
      /\ only' = only
  BY DEF RowMoves, interest, session
<1>2. /\ \A u \in Target \ {t} : rows'[u] = rows[u] /\ draft'[u] = draft[u]
      /\ rows'[t] = status /\ draft'[t] = status
  BY <1>0 DEF RowMoves, TypeOK
<1>3. TypeOK'
  BY <1>0, <1>1 DEF RowMoves, TypeOK
<1>4. SessionShape'
  BY <1>1 DEF Inv, SessionShape, Busy, Op
<1>5. DraftShape'
  BY <1>1, <1>2 DEF Inv, DraftShape
<1>6. LockFirst' /\ ClickShape'
  BY <1>1 DEF Inv, LockFirst, ClickShape
<1>7. DeletionShape'
  <2> SUFFICES ASSUME NEW q \in Session, NEW i \in Target, Deletes(q, i)'
               PROVE  Deletes(q, i)
    BY <1>1 DEF Inv, DeletionShape, Sweeping
  <2> QED BY <1>0, <1>1, <1>2 DEF Deletes, Busy, Op
<1>8. Placed'
  <2> SUFFICES ASSUME NEW q \in Session, job[q] \in {"save", "restore"},
                      NEW i \in chosen[q] \ todo[q]
               PROVE  RowIn(q, i)' # "absent"
    BY <1>1 DEF Inv, Placed
  <2>1. i \in Target /\ RowIn(q, i) # "absent"
    BY <1>0 DEF Inv, Placed, TypeOK
  <2> QED BY <1>0, <1>1, <1>2, <2>1 DEF RowIn
<1>9. PromiseShape'
  BY <1>1 DEF Inv, PromiseShape, Stocked
<1>10. InterestHasRow'
  BY <1>0, <1>1, <1>2 DEF Inv, InterestHasRow, TypeOK, Target
<1> QED BY <1>3, <1>4, <1>5, <1>6, <1>7, <1>8, <1>9, <1>10 DEF Inv

\* An item is unsaved, or the setting switched off.
LEMMA BesideKeeps ==
    ASSUME Inv, SwitchOff \/ \E i \in Item : Unsave(i)
    PROVE  Inv'
<1>1. /\ rows' = rows /\ draft' = draft /\ locked' = locked /\ lock' = lock /\ job' = job
      /\ step' = step /\ todo' = todo /\ chosen' = chosen /\ aim' = aim /\ batch' = batch
      /\ held' = held /\ mode' = mode /\ promised' \subseteq promised
      /\ stock' = stock /\ enabled' = enabled /\ library' = library /\ saved' \subseteq saved
      /\ only' \in BOOLEAN /\ begun' \in 0..MaxTransactions
      /\ promised' \subseteq saved' \cup library
  <2>1. CASE SwitchOff
    <3>1. begun' \in 0..MaxTransactions
      BY <2>1, ReconcileAssumption DEF SwitchOff, Inv, TypeOK
    <3>2. promised \subseteq saved \cup library
      BY DEF Inv, PromiseShape
    <3> QED BY <2>1, <3>1, <3>2 DEF SwitchOff, table, session, history
  <2>2. ASSUME NEW i \in Item, Unsave(i)
        PROVE  /\ promised' \subseteq promised /\ saved' \subseteq saved
               /\ promised' \subseteq saved' \cup library
    BY <2>2 DEF Unsave, Inv, PromiseShape
  <2>3. ASSUME NEW i \in Item, Unsave(i) PROVE UNCHANGED <<table, session, begun,
                                                           stock, enabled, library, only>>
    BY <2>3 DEF Unsave
  <2> QED BY <2>1, <2>2, <2>3 DEF Inv, TypeOK, table, session
<1>2. TypeOK'
  BY <1>1 DEF Inv, TypeOK
<1>3. SessionShape' /\ DraftShape'
  BY <1>1 DEF Inv, SessionShape, DraftShape, Busy, Op
<1>4. LockFirst' /\ ClickShape'
  BY <1>1 DEF Inv, LockFirst, ClickShape
<1>5. DeletionShape'
  <2> SUFFICES ASSUME NEW q \in Session, NEW i \in Target, Deletes(q, i)'
               PROVE  Deletes(q, i)
    BY <1>1 DEF Inv, DeletionShape, Sweeping
  <2> QED BY <1>1 DEF Deletes, Busy, Op
<1>6. Placed'
  BY <1>1 DEF Inv, Placed, RowIn
<1>7. PromiseShape' /\ InterestHasRow'
  BY <1>1 DEF Inv, PromiseShape, InterestHasRow, Stocked
<1> QED BY <1>2, <1>3, <1>4, <1>5, <1>6, <1>7 DEF Inv

\* The invariant holds at first.
LEMMA InitInv == Init => Inv
<1> SUFFICES ASSUME Init PROVE Inv
  OBVIOUS
<1>1. TypeOK
  BY ReconcileAssumption DEF Init, TypeOK, Status
<1>2. SessionShape /\ DraftShape
  BY ReconcileAssumption DEF Init, SessionShape, DraftShape, Busy
<1>3. LockFirst /\ ClickShape /\ Placed
  BY DEF Init, LockFirst, ClickShape, Placed, Takers
<1>4. DeletionShape
  BY ReconcileAssumption DEF Init, DeletionShape, Deletes, Busy
<1>5. PromiseShape /\ InterestHasRow
  BY DEF Init, PromiseShape, InterestHasRow
<1> QED BY <1>1, <1>2, <1>3, <1>4, <1>5 DEF Inv

\* Every step keeps the invariant.
LEMMA NextInv == Inv /\ [Next]_vars => Inv'
<1> SUFFICES ASSUME Inv, [Next]_vars PROVE Inv'
  OBVIOUS
<1>1. ASSUME NEW s \in Session, Requests(s) PROVE Inv'
  BY <1>1, Requesting, RequestKeeps DEF Inv
<1>2. ASSUME NEW s \in Session, Statements(s) PROVE Inv'
  <2>1. CASE TakeLock(s) \/ OpenStatement(s) \/ PassGate(s)
    BY <2>1, SteppingOn, StepKeeps
  <2>2. CASE RefuseGate(s) \/ RollBack(s)
    BY <2>2, RollBackKeeps DEF RefuseGate, RollBack
  <2>3. ASSUME NEW t \in Target, Touch(s, t) PROVE Inv'
    BY <2>3, TouchKeeps
  <2>4. ASSUME NEW t \in Target, Wait(s, t) PROVE Inv'
    BY <2>4, WaitKeeps
  <2>5. ASSUME NEW t \in Target, PassBy(s, t) PROVE Inv'
    BY <2>5, PassKeeps
  <2>6. CASE Commit(s)
    BY <2>6, CommitKeeps
  <2> QED BY <1>2, <2>1, <2>2, <2>3, <2>4, <2>5, <2>6 DEF Statements
<1>3. CASE SwitchOff \/ \E i \in Item : Unsave(i)
  BY <1>3, BesideKeeps
<1>4. ASSUME NEW t \in Target, ClaimRow(t) \/ ResolveRow(t) PROVE Inv'
  <2>1. PICK status \in Status \ {"absent"} : RowMoves(t, status)
    BY <1>4 DEF ClaimRow, ResolveRow, Status
  <2> QED BY <2>1, MoveKeeps
<1>5. CASE UNCHANGED vars
  BY <1>5 DEF vars, table, interest, session, history, Inv, TypeOK, SessionShape, DraftShape,
              LockFirst, ClickShape, DeletionShape, Placed, PromiseShape, InterestHasRow,
              Busy, Op, Deletes, Sweeping, RowIn, Stocked
<1> QED BY <1>1, <1>2, <1>3, <1>4, <1>5 DEF Next

\* The inductive invariant: every transaction that takes the reconciliation lock does so
\* before its first row, a sweep never has its eye on a promised row of a listed item, and
\* an interest path has placed what it is done with.
THEOREM ReconcileInvariant == Spec => []Inv
  BY InitInv, NextInv, PTL DEF Spec

\* What a save or the restore after a library sync found listed has a row for as long as it
\* is listed and wanted, however the sweeps and the other transactions interleave.
THEOREM InterestIsServed == Spec => []InterestHasRow
<1>1. Inv => InterestHasRow BY DEF Inv
<1> QED BY <1>1, ReconcileInvariant, PTL

\* A session that is waited for by somebody, and waits itself, is no click: a click that
\* holds a row is over, and one that waits for a row or for the lock holds nothing but the
\* lock, which only a session without rows waits for.
LEMMA ClicksStandApart ==
    ASSUME Inv, NEW c \in SUBSET Session, Cycle(c), NEW s \in c
    PROVE  job[s] \notin {"save", "recheck"}
<1> SUFFICES ASSUME job[s] \in {"save", "recheck"} PROVE FALSE
  OBVIOUS
<1>0. TypeOK /\ SessionShape /\ NULL \notin Session
  BY ReconcileAssumption DEF Inv
<1>1. PICK q \in c : Waits(q, s) BY DEF Cycle
<1>2. PICK r \in c : Waits(s, r) BY DEF Cycle
<1>3. ASSUME aim[q] # NULL, locked[aim[q]] = s PROVE FALSE
  <2>1. aim[q] \in Target BY <1>0, <1>3 DEF TypeOK
  <2>2. todo[s] = {} /\ aim[s] = NULL /\ step[s] = Len(Script[job[s]])
    BY <1>3, <2>1 DEF Inv, ClickShape
  <2>3. ~Opens(s, "lock")
    BY <1>0, <2>2, Opened
  <2> QED BY <1>2, <2>2, <2>3 DEF Waits
<1>4. ASSUME Opens(q, "lock"), lock = s PROVE FALSE
  <2>1. job[q] \in Takers /\ step[q] = 0
    <3>1. PICK kind \in Kind : kind = job[q]
      BY <1>0, <1>4, Opened
    <3>2. PICK n \in 1..4 : n = step[q] + 1 /\ n <= Len(Script[kind]) /\ Script[kind][n] = "lock"
      BY <1>0, <1>4, <3>1, Opened
    <3>3. kind \in Takers /\ n = 1
      BY <3>2, Statement
    <3> QED BY <1>0, <3>1, <3>2, <3>3 DEF TypeOK
  <2>2. PICK p \in c : Waits(p, q) BY DEF Cycle
  <2>3. \A t \in Target : locked[t] # q
    BY <2>1 DEF Inv, LockFirst
  <2>4. CASE aim[p] # NULL /\ locked[aim[p]] = q
    BY <1>0, <2>3, <2>4 DEF TypeOK
  <2>5. CASE lock = q
    BY <1>0, <2>1, <2>5 DEF SessionShape
  <2> QED BY <2>2, <2>4, <2>5 DEF Waits
<1> QED BY <1>1, <1>3, <1>4 DEF Waits

\* No save and no re-check is ever part of a deadlock.
THEOREM ClicksSurvive == Spec => []ClicksAreNoVictims
<1>1. Inv => ClicksAreNoVictims
  BY ClicksStandApart DEF ClicksAreNoVictims
<1> QED BY <1>1, ReconcileInvariant, PTL

-----------------------------------------------------------------------------
(* What stops the holder of the reconciliation lock. *)

\* What a session keeps to: it waits for no row in a backfill and for none of its own, the
\* other statements under the reconciliation lock are about items, a page is about releases,
\* a snapshot about the items of its store, and neither comes back to a row it holds.
Footprint(s) ==
    /\ aim[s] # NULL => Op(s) \notin {"revive", "widen"} /\ locked[aim[s]] # s
    /\ todo[s] # {} /\ Op(s) \in {"expedite", "insert", "delete"} => todo[s] \subseteq Item
    /\ job[s] \in {"page", "snapshot"} =>
          /\ todo[s] \subseteq batch[s]
          /\ \A t \in Target : locked[t] = s => t \in batch[s] \ todo[s] /\ step[s] > 0
    /\ job[s] = "page" => batch[s] \subseteq Release
    /\ job[s] = "snapshot" => \A i \in batch[s] : StoreOf[i] = held[s]
    /\ lock = s => job[s] \in Takers

Footprints == \A s \in Session : Footprint(s)

\* A page is begun on releases, a snapshot on items of the store it holds.
LEMMA Batching ==
    ASSUME TypeOK, NEW s \in Session, Requests(s)
    PROVE  \/ UNCHANGED session
           \/ /\ job'[s] = "page" => batch'[s] \subseteq Release
              /\ job'[s] = "snapshot" => \A i \in batch'[s] : StoreOf[i] = held'[s]
<1> DEFINE G == \/ UNCHANGED session
                \/ /\ job'[s] = "page" => batch'[s] \subseteq Release
                   /\ job'[s] = "snapshot" => \A i \in batch'[s] : StoreOf[i] = held'[s]
<1>1. ASSUME NEW kind, NEW targets, NEW store, NEW setting,
             Begin(s, kind, targets, store, setting)
      PROVE  job'[s] = kind /\ batch'[s] = targets /\ held'[s] = store
  BY <1>1 DEF Begin, TypeOK
<1>2. ASSUME NEW i \in Item, BeginSave(s, i) \/ BeginRecheck(s, i) PROVE G
  <2>1. PICK kind \in {"save", "recheck"} : Begin(s, kind, {i}, NULL, only)
    BY <1>2 DEF BeginSave, BeginRecheck
  <2> QED BY <1>1, <2>1
<1>3. ASSUME NEW items \in SUBSET Item, LibraryGrows(s, items) PROVE G
  BY <1>1, <1>3 DEF LibraryGrows
<1>4. ASSUME BeginSweep(s) \/ SwitchOn(s) PROVE G
  BY <1>1, <1>4 DEF BeginSweep, SwitchOn
<1>5. ASSUME NEW st \in Store \cup {NULL}, BeginEnable(s, st) PROVE G
  BY <1>1, <1>5 DEF BeginEnable
<1>6. ASSUME NEW st \in Store, BeginDisable(s, st) PROVE G
  BY <1>1, <1>6 DEF BeginDisable
<1>7. ASSUME NEW st \in Store, NEW items \in SUBSET Item, BeginSnapshot(s, st, items) PROVE G
  <2>1. Begin(s, "snapshot", items, st, only) /\ \A i \in items : StoreOf[i] = st
    BY <1>7 DEF BeginSnapshot
  <2>2. job'[s] = "snapshot" /\ batch'[s] = items /\ held'[s] = st
    BY <1>1, <2>1
  <2> QED BY <2>1, <2>2
<1>8. ASSUME NEW releases \in SUBSET Release, BeginPage(s, releases) PROVE G
  <2>1. Begin(s, "page", releases, NULL, only)
    BY <1>8 DEF BeginPage
  <2>2. job'[s] = "page" /\ batch'[s] = releases
    BY <1>1, <2>1
  <2> QED BY <2>2
<1> HIDE DEF G
<1>9. G BY <1>2, <1>3, <1>4, <1>5, <1>6, <1>7, <1>8 DEF Requests
<1> QED BY <1>9 DEF G

\* A session that begins has no row and nothing to visit.
LEMMA RequestFootprint ==
    ASSUME Inv, Footprints, NEW s \in Session, Requests(s)
    PROVE  Footprints'
<1>1. Requested(s) BY Requesting DEF Inv
<1>2. UNCHANGED <<locked, lock>> BY <1>1 DEF Requested, table
<1>3. ASSUME NEW q \in Session
      PROVE  /\ step'[q] = step[q] /\ todo'[q] = todo[q] /\ aim'[q] = aim[q]
             /\ \/ job'[q] = job[q] /\ batch'[q] = batch[q] /\ held'[q] = held[q]
                \/ /\ ~Busy(q)
                   /\ job'[q] = "page" => batch'[q] \subseteq Release
                   /\ job'[q] = "snapshot" => \A i \in batch'[q] : StoreOf[i] = held'[q]
  <2>1. CASE UNCHANGED session
    BY <2>1 DEF session
  <2>2. CASE Started(s)
    BY <2>2, Batching DEF Started, session, Inv
  <2> QED BY <1>1, <2>1, <2>2 DEF Requested
<1>4. SUFFICES ASSUME NEW q \in Session PROVE Footprint(q)'
  BY DEF Footprints
<1>5. CASE job'[q] = job[q] /\ batch'[q] = batch[q] /\ held'[q] = held[q]
  BY <1>2, <1>3, <1>5 DEF Footprints, Footprint, Op
<1>6. CASE /\ ~Busy(q)
           /\ job'[q] = "page" => batch'[q] \subseteq Release
           /\ job'[q] = "snapshot" => \A i \in batch'[q] : StoreOf[i] = held'[q]
  <2>1. /\ step[q] = 0 /\ todo[q] = {} /\ aim[q] = NULL /\ lock # q
        /\ \A t \in Target : locked[t] # q
    BY <1>6 DEF Inv, SessionShape
  <2> QED BY <1>2, <1>3, <1>6, <2>1 DEF Footprint
<1> QED BY <1>3, <1>5, <1>6

\* A session that takes the lock is a taker, and one that opens a statement opens it on rows
\* it keeps to.
LEMMA StepFootprint ==
    ASSUME Inv, Footprints, NEW s \in Session,
           TakeLock(s) \/ OpenStatement(s) \/ PassGate(s)
    PROVE  Footprints'
<1>0. TypeOK /\ SessionShape BY DEF Inv
<1>1. Own(s) /\ locked' = locked /\ aim' = aim /\ step'[s] = step[s] + 1
  BY <1>0, LockType, GateType, OpenType DEF TakeLock, OpenStatement, PassGate, table
<1>2. job' = job /\ batch' = batch /\ held' = held
  BY <1>1 DEF Own
<1>3. ASSUME NEW q \in Session \ {s} PROVE Footprint(q)'
  <2>1. step'[q] = step[q] /\ todo'[q] = todo[q] /\ aim'[q] = aim[q] /\ (lock' = q => lock = q)
    BY <1>1 DEF Own, TakeLock, OpenStatement, PassGate, table
  <2> QED BY <1>1, <1>2, <2>1 DEF Footprints, Footprint, Op
<1>4. PICK op \in RowOps \cup {"lock", "gate"} :
         /\ Opens(s, op)
         /\ op \in RowOps => todo'[s] \in Candidates(s)[op] /\ lock' = lock
         /\ op = "gate" => todo'[s] = todo[s] /\ lock' = lock
         /\ op = "lock" => todo'[s] = todo[s]
  <2>1. CASE TakeLock(s)
    BY <2>1 DEF TakeLock, RowOps
  <2>2. CASE PassGate(s)
    BY <2>2 DEF PassGate, RowOps, table
  <2>3. CASE OpenStatement(s)
    <3>1. PICK op \in RowOps : Opens(s, op) /\ todo'[s] \in Candidates(s)[op]
      BY <1>0, <2>3, OpenType
    <3>2. lock' = lock
      BY <2>3 DEF OpenStatement, table
    <3> QED BY <3>1, <3>2 DEF RowOps
  <2> QED BY <2>1, <2>2, <2>3
<1>5. /\ job[s] \in Kind /\ step[s] \in Nat /\ step[s] + 1 \in 1..4
      /\ step[s] + 1 <= Len(Script[job[s]]) /\ Script[job[s]][step[s] + 1] = op
      /\ todo[s] = {} /\ aim[s] = NULL
  BY <1>0, <1>4, Opened
<1>6. Op(s)' = op
  BY <1>1, <1>2, <1>5 DEF Op
<1>7. PICK kind \in Kind : kind = job[s]
  BY <1>5
<1>8. PICK n \in 1..4 : n = step[s] + 1 /\ n <= Len(Script[kind]) /\ Script[kind][n] = op
  BY <1>5, <1>7
<1>9. op = "lock" => job[s] \in Takers
  BY <1>7, <1>8, Statement
<1>10. job[s] \in {"page", "snapshot"} => op = "enqueue" /\ step[s] = 0
  BY <1>5, Scripts
<1>11. job[s] \in {"page", "snapshot"} => \A t \in Target : locked[t] # s
  BY <1>10 DEF Footprints, Footprint
<1>12. /\ op \in {"expedite", "insert", "delete"} => todo'[s] \subseteq Item
       /\ op = "enqueue" => todo'[s] = batch[s]
  BY <1>0, <1>4, StockedType DEF Candidates, RowOps
<1>13. lock' = s => job[s] \in Takers
  BY <1>4, <1>9 DEF Footprints, Footprint
<1>14. job[s] = "page" => batch[s] \subseteq Release
  BY DEF Footprints, Footprint
<1>15. job[s] = "snapshot" => \A i \in batch[s] : StoreOf[i] = held[s]
  BY DEF Footprints, Footprint
<1>16. Footprint(s)'
  BY <1>1, <1>2, <1>5, <1>6, <1>10, <1>11, <1>12, <1>13, <1>14, <1>15 DEF Footprint
<1> QED BY <1>3, <1>16 DEF Footprints

\* A row that is touched is nobody else's, and is no longer to visit.
LEMMA TouchFootprint ==
    ASSUME Inv, Footprints, NEW s \in Session, NEW t \in Target, Touch(s, t)
    PROVE  Footprints'
<1>0. TypeOK /\ SessionShape /\ NULL \notin Session BY ReconcileAssumption DEF Inv
<1>1. /\ Own(s) /\ UNCHANGED <<lock, step, chosen>>
      /\ \A u \in Target \ {t} : locked'[u] = locked[u]
      /\ locked'[t] = s \/ locked'[t] = locked[t]
      /\ todo'[s] = todo[s] \ {t} /\ aim'[s] = NULL
  BY <1>0, TouchType
<1>2. job' = job /\ batch' = batch /\ held' = held /\ t \in todo[s] /\ step[s] > 0
  BY <1>0, <1>1 DEF Own, Touch, SessionShape
<1>3. ASSUME NEW q \in Session, NEW u \in Target, locked'[u] = q
      PROVE  locked[u] = q \/ (u = t /\ q = s)
  BY <1>1, <1>3
<1>4. ASSUME NEW q \in Session \ {s} PROVE Footprint(q)'
  <2>1. step'[q] = step[q] /\ todo'[q] = todo[q] /\ aim'[q] = aim[q] /\ lock' = lock
    BY <1>1 DEF Own
  <2>2. \A u \in Target : locked'[u] = q => locked[u] = q
    BY <1>3
  <2>3. aim[q] # NULL => aim[q] \in Target
    BY <1>0 DEF TypeOK
  <2> QED BY <1>2, <2>1, <2>2, <2>3 DEF Footprints, Footprint, Op
<1>5. Footprint(s)'
  <2>1. \A u \in Target : locked'[u] = s => locked[u] = s \/ u = t
    BY <1>3
  <2>2. Op(s)' = Op(s) /\ lock' = lock /\ step' = step
    BY <1>1, <1>2 DEF Op
  <2>3. todo'[s] # {} /\ Op(s) \in {"expedite", "insert", "delete"} => todo'[s] \subseteq Item
    BY <1>1 DEF Footprints, Footprint
  <2>4. ASSUME job[s] \in {"page", "snapshot"}
        PROVE  /\ todo'[s] \subseteq batch[s]
               /\ \A u \in Target : locked'[u] = s => u \in batch[s] \ todo'[s] /\ step[s] > 0
    BY <1>1, <1>2, <2>1, <2>4 DEF Footprints, Footprint
  <2>5. /\ job[s] = "page" => batch[s] \subseteq Release
        /\ job[s] = "snapshot" => \A i \in batch[s] : StoreOf[i] = held[s]
        /\ lock = s => job[s] \in Takers
    BY DEF Footprints, Footprint
  <2> QED BY <1>1, <1>2, <2>2, <2>3, <2>4, <2>5 DEF Footprint
<1> QED BY <1>4, <1>5 DEF Footprints

\* A session waits for what another holds, and never in a backfill.
LEMMA WaitFootprint ==
    ASSUME Inv, Footprints, NEW s \in Session, NEW t \in Target, Wait(s, t)
    PROVE  Footprints'
<1>1. Own(s) /\ UNCHANGED <<table, step, todo, chosen>> /\ aim'[s] = t
  BY WaitType DEF Inv
<1>2. /\ job' = job /\ batch' = batch /\ held' = held /\ step' = step /\ todo' = todo
      /\ locked' = locked /\ lock' = lock /\ \A q \in Session \ {s} : aim'[q] = aim[q]
  BY <1>1 DEF Own, table
<1>3. Op(s) \notin {"revive", "widen"} /\ locked[t] # s
  BY DEF Wait, Blocked, Skips, Taken
<1>4. SUFFICES ASSUME NEW q \in Session PROVE Footprint(q)'
  BY DEF Footprints
<1>5. CASE q = s
  BY <1>1, <1>2, <1>3, <1>5 DEF Footprints, Footprint, Op
<1>6. CASE q # s
  BY <1>2, <1>6 DEF Footprints, Footprint, Op
<1> QED BY <1>5, <1>6

\* Passing a row by leaves one less to visit.
LEMMA PassFootprint ==
    ASSUME Inv, Footprints, NEW s \in Session, NEW t \in Target, PassBy(s, t)
    PROVE  Footprints'
<1>1. Own(s) /\ UNCHANGED <<table, step, chosen, aim>> /\ todo'[s] = todo[s] \ {t}
  BY PassType DEF Inv
<1>2. /\ job' = job /\ batch' = batch /\ held' = held /\ step' = step /\ aim' = aim
      /\ locked' = locked /\ lock' = lock /\ \A q \in Session \ {s} : todo'[q] = todo[q]
  BY <1>1 DEF Own, table
<1>3. SUFFICES ASSUME NEW q \in Session PROVE Footprint(q)'
  BY DEF Footprints
<1>4. CASE q = s
  BY <1>1, <1>2, <1>4 DEF Footprints, Footprint, Op
<1>5. CASE q # s
  BY <1>2, <1>5 DEF Footprints, Footprint, Op
<1> QED BY <1>4, <1>5

\* A session whose transaction is over has no row, no lock and nothing to visit.
LEMMA OverFootprint ==
    ASSUME Inv, Footprints, NEW s \in Session, Over(s)
    PROVE  Footprints'
<1>0. TypeOK /\ NULL \notin Session BY ReconcileAssumption DEF Inv
<1>1. ASSUME NEW q \in Session \ {s} PROVE Footprint(q)'
  <2>1. /\ job'[q] = job[q] /\ step'[q] = step[q] /\ todo'[q] = todo[q]
        /\ aim'[q] = aim[q] /\ batch'[q] = batch[q] /\ held'[q] = held[q]
        /\ lock' = q => lock = q
    BY <1>0 DEF Over
  <2>2. \A u \in Target : locked'[u] = q => locked[u] = q
    BY <1>0 DEF Over
  <2>3. aim[q] # NULL => aim[q] \in Target
    BY <1>0 DEF TypeOK
  <2> QED BY <2>1, <2>2, <2>3 DEF Footprints, Footprint, Op
<1>2. Footprint(s)'
  <2>1. /\ job'[s] = "idle" /\ todo'[s] = {} /\ aim'[s] = NULL /\ lock' # s
    BY <1>0 DEF Over, Busy
  <2> QED BY <2>1 DEF Footprint
<1> QED BY <1>1, <1>2 DEF Footprints

\* What goes on beside the sessions moves no lock.
LEMMA BesideFootprint ==
    ASSUME Footprints, UNCHANGED <<locked, lock, session>>
    PROVE  Footprints'
  BY DEF Footprints, Footprint, Op, session

\* Every step keeps what the sessions keep to.
LEMMA NextFootprints == Inv /\ Footprints /\ [Next]_vars => Footprints'
<1> SUFFICES ASSUME Inv, Footprints, [Next]_vars PROVE Footprints'
  OBVIOUS
<1>1. ASSUME NEW s \in Session, Requests(s) PROVE Footprints'
  BY <1>1, RequestFootprint
<1>2. ASSUME NEW s \in Session, Statements(s) PROVE Footprints'
  <2>1. CASE TakeLock(s) \/ OpenStatement(s) \/ PassGate(s)
    BY <2>1, StepFootprint
  <2>2. CASE RefuseGate(s) \/ RollBack(s)
    <3>1. Over(s) BY <2>2, RollingBack DEF RefuseGate, RollBack, Inv
    <3> QED BY <3>1, OverFootprint
  <2>3. ASSUME NEW t \in Target, Touch(s, t) PROVE Footprints'
    BY <2>3, TouchFootprint
  <2>4. ASSUME NEW t \in Target, Wait(s, t) PROVE Footprints'
    BY <2>4, WaitFootprint
  <2>5. ASSUME NEW t \in Target, PassBy(s, t) PROVE Footprints'
    BY <2>5, PassFootprint
  <2>6. CASE Commit(s)
    <3>1. Over(s) BY <2>6, Committing DEF Inv
    <3> QED BY <3>1, OverFootprint
  <2> QED BY <1>2, <2>1, <2>2, <2>3, <2>4, <2>5, <2>6 DEF Statements
<1>3. CASE SwitchOff \/ \E i \in Item : Unsave(i)
  <2>1. UNCHANGED <<locked, lock, session>>
    BY <1>3 DEF SwitchOff, Unsave, table
  <2> QED BY <2>1, BesideFootprint
<1>4. ASSUME NEW t \in Target, ClaimRow(t) \/ ResolveRow(t) PROVE Footprints'
  <2>1. UNCHANGED <<locked, lock, session>>
    BY <1>4 DEF ClaimRow, ResolveRow, RowMoves
  <2> QED BY <2>1, BesideFootprint
<1>5. CASE UNCHANGED vars
  <2>1. UNCHANGED <<locked, lock, session>>
    BY <1>5 DEF vars, table
  <2> QED BY <2>1, BesideFootprint
<1> QED BY <1>1, <1>2, <1>3, <1>4, <1>5 DEF Next

\* At first no session has anything.
LEMMA InitFootprints == Init => Footprints
  BY ReconcileAssumption DEF Init, Footprints, Footprint

\* Whoever holds up the holder of the reconciliation lock, in a cycle with it, straddles: it
\* holds a row, so it is no other taker, and an item's row, so it is no page.
LEMMA HoldersAreHeldUp ==
    ASSUME Inv, Footprints, NEW c \in SUBSET Session, Cycle(c), lock \in c
    PROVE  \E s \in c : Straddles(s)
<1>0. TypeOK /\ SessionShape /\ NULL \notin Session
  BY ReconcileAssumption DEF Inv
<1>1. PICK h \in c : h = lock
  OBVIOUS
<1>2. h \in Session /\ step[h] > 0 /\ job[h] \in Takers
  BY <1>0, <1>1 DEF SessionShape, Footprints, Footprint
<1>3. ~Opens(h, "lock")
  <2> SUFFICES ASSUME Opens(h, "lock") PROVE FALSE
    OBVIOUS
  <2>1. PICK kind \in Kind : kind = job[h]
    BY <1>0, <1>2, Opened
  <2>2. PICK n \in 1..4 : n = step[h] + 1 /\ n <= Len(Script[kind]) /\ Script[kind][n] = "lock"
    BY <1>0, <1>2, <2>1, Opened
  <2>3. n = 1
    BY <1>2, <2>1, <2>2, Statement
  <2>4. step[h] \in 0..4
    BY <1>0, <1>2 DEF TypeOK
  <2> QED BY <1>2, <2>2, <2>3, <2>4
<1>4. PICK q \in c : aim[h] # NULL /\ locked[aim[h]] = q
  BY <1>1, <1>3 DEF Cycle, Waits
<1>5. /\ aim[h] \in todo[h] /\ aim[h] \in Target /\ q # h
      /\ Op(h) \notin {"revive", "widen"}
  BY <1>0, <1>2, <1>4 DEF SessionShape, TypeOK, Footprints, Footprint
<1>6. aim[h] \in Item
  <2>1. Op(h) \in RowOps /\ Busy(h)
    BY <1>0, <1>2, <1>5 DEF SessionShape
  <2>2. Op(h) # "enqueue"
    <3>1. PICK kind \in Kind : kind = job[h]
      BY <1>0, <1>2, <2>1, Visiting
    <3>2. PICK n \in 1..4 : n = step[h] /\ n <= Len(Script[kind]) /\ Script[kind][n] = Op(h)
      BY <1>0, <1>2, <2>1, <3>1, Visiting
    <3> QED BY <1>2, <2>1, <3>1, <3>2, Statement
  <2>3. Op(h) \in {"expedite", "insert", "delete"}
    BY <1>5, <2>1, <2>2 DEF RowOps
  <2> QED BY <1>2, <1>5, <2>3 DEF Footprints, Footprint
<1>7. job[q] \notin Takers
  <2> SUFFICES ASSUME job[q] \in Takers PROVE FALSE
    OBVIOUS
  <2>1. step[q] # 0
    BY <1>4, <1>5 DEF Inv, LockFirst
  <2> QED BY <1>1, <1>5, <2>1 DEF Inv, LockFirst
<1>8. Busy(q)
  BY <1>0, <1>4, <1>5 DEF SessionShape
<1>9. job[q] \in {"page", "snapshot"}
  BY <1>0, <1>7, <1>8, Scripts DEF TypeOK, Busy, Takers
<1>10. aim[h] \in batch[q] \ todo[q] /\ step[q] > 0
  BY <1>4, <1>5, <1>9 DEF Footprints, Footprint
<1>11. job[q] = "snapshot"
  BY <1>6, <1>9, <1>10, ReconcileAssumption DEF Footprints, Footprint
<1>12. aim[q] # NULL
  <2>1. PICK r \in c : Waits(q, r)
    BY DEF Cycle
  <2>2. ~Opens(q, "lock")
    <3>1. step[q] \in 0..4 /\ Len(Script[job[q]]) = 1
      BY <1>0, <1>11, Scripts DEF TypeOK
    <3> QED BY <1>10, <3>1 DEF Opens
  <2> QED BY <2>1, <2>2 DEF Waits
<1>13. aim[q] \in todo[q]
  BY <1>0, <1>12 DEF SessionShape
<1>14. aim[h] \in batch[q] /\ aim[h] # aim[q] /\ locked[aim[h]] = q
  BY <1>4, <1>10, <1>13
<1> QED BY <1>11, <1>12, <1>14 DEF Straddles

\* The holder of the reconciliation lock is in a wait-for cycle only with a snapshot that
\* enqueues several rows of one store outside the lock: the one gap in the protocol.
THEOREM OnlySnapshotsStopTheHolder == Spec => []HolderMovesOn
<1>1. Inv /\ Footprints => HolderMovesOn
  BY HoldersAreHeldUp DEF HolderMovesOn
<1>2. Init => Footprints BY InitFootprints
<1>3. Inv /\ Footprints /\ [Next]_vars => Footprints' BY NextFootprints
<1> QED BY <1>1, <1>2, <1>3, ReconcileInvariant, PTL DEF Spec
=============================================================================
