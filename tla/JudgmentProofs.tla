--------------------------- MODULE JudgmentProofs ---------------------------
(*****************************************************************************)
(* The proofs about JudgmentRun, for every set of Machines, items, records   *)
(* and stocks, and every bound.                                              *)
(*                                                                           *)
(* Inv is inductive.  A worker's step is summed up by Moves (what it does to *)
(* the row and to the other runs) and by Wrote (what it may leave among the  *)
(* verdicts); the conjuncts of Inv follow from these, with one lemma for     *)
(* what the step does to its own run.                                        *)
(*****************************************************************************)
EXTENDS JudgmentRun, TLAPS

\* A step of the worker of r, answered or failing.
WorkerStep(r) == Works(r) \/ StepFails(r) \/ Cancelled(r) \/ CloseUnanswered(r)

\* What the row may hold.
Row == [status : Status, token : 0..MaxRuns, stale : BOOLEAN, stop : BOOLEAN]

\* What every step of the worker of r does: it moves no other run, and touches the row as
\* the holder, as Beat does, or not at all.
Moves(r) ==
    /\ Working(r) /\ UNCHANGED <<process, granted, filed, cleared, syncing>>
    /\ \A q \in Run : q # r => /\ pc'[q] = pc[q] /\ todo'[q] = todo[q]
                               /\ batch'[q] = batch[q] /\ late'[q] = late[q]
    /\ run' \in Row /\ run'.token = run.token /\ run'.stop = run.stop
    /\ \/ UNCHANGED run
       \/ Holds(r) /\ ~run'.stale
    /\ \/ UNCHANGED writer
       \/ writer' = r /\ Holds(r) /\ Holds(r)'

\* A close ends the run of its worker or leaves the row: the fence of
\* finish_stock_judgment_run.
LEMMA Closes ==
    ASSUME TypeOK, NEW r \in Run, NEW outcome \in {"none", "complete", "stopped", "error"},
           Closed(r, outcome)
    PROVE  /\ run' \in Row
           /\ run'.token = run.token /\ run'.stop = run.stop
           /\ \/ UNCHANGED run
              \/ Holds(r) /\ ~run'.stale /\ run'.status = outcome
           /\ UNCHANGED <<granted, writer, tables>>
  BY DEF Closed, Beat, Holds, Running, TypeOK, Row, Status, row, tables

\* Every worker step moves its own run and writes the row only as the holder.
LEMMA Moving ==
    ASSUME TypeOK, NEW r \in Run, WorkerStep(r) PROVE Moves(r)
<1>1. ASSUME CannotJudge(r) PROVE Moves(r)
  BY <1>1 DEF CannotJudge, At, Closing, Go, row, tables, Moves, Working, TypeOK, Row, Status
<1>2. ASSUME SweepKeys(r) PROVE Moves(r)
  BY <1>2 DEF SweepKeys, At, Go, row, Moves, Working, TypeOK, Row, Status
<1>3. ASSUME TakenOver(r) PROVE Moves(r)
  BY <1>3 DEF TakenOver, GivesUp, Go, row, tables, Moves, Working, TypeOK, Row, Status
<1>4. ASSUME Inherit(r) PROVE Moves(r)
  BY <1>4 DEF Inherit, InheritCommitted, At, Beat, Go, Holds, Running, Moves, Working, TypeOK,
      Row, Status
<1>5. ASSUME Select(r) PROVE Moves(r)
  <2>1. PICK picks \in Selections :
            IF picks = {} THEN Closing(r, "complete")
            ELSE todo' = [todo EXCEPT ![r] = picks] /\ Go(r, "selected")
    BY <1>5 DEF Select
  <2>2. \A q \in Run : q # r => pc'[q] = pc[q] /\ todo'[q] = todo[q]
    BY <2>1 DEF Closing, Go, TypeOK
  <2> QED BY <1>5, <2>2 DEF Select, At, row, tables, process, Moves, Working, TypeOK, Row, Status
<1>6. ASSUME Preflight(r) PROVE Moves(r)
  BY <1>6 DEF Preflight, At, Beat, Onward, Closing, Go, tables, Holds, Running, Moves, Working,
      TypeOK, Row, Status
<1>7. ASSUME NEW p \in todo[r], SendBatch(r, p) PROVE Moves(r)
  BY <1>7 DEF SendBatch, At, Go, row, tables, Moves, Working, TypeOK, Row, Status
<1>8. ASSUME CommitBatch(r) PROVE Moves(r)
  BY <1>8 DEF CommitBatch, BatchCommitted, At, Beat, Onward, Closing, Go, Holds, Running, Moves,
      Working, TypeOK, Row, Status
<1>9. ASSUME CloseRun(r) PROVE Moves(r)
  <2>1. intended[r] \in {"none", "complete", "stopped", "error"} /\ Closed(r, intended[r])
    BY <1>9 DEF CloseRun, TypeOK
  <2>2. /\ run' \in Row /\ run'.token = run.token /\ run'.stop = run.stop
        /\ UNCHANGED <<granted, writer, tables>>
    BY Closes, <2>1
  <2>3. UNCHANGED run \/ (Holds(r) /\ ~run'.stale)
    BY <1>9, Closes, <2>1 DEF CloseRun
  <2> QED BY <1>9, <2>2, <2>3 DEF CloseRun, At, Go, tables, process, Moves, Working, TypeOK, Row,
      Status
<1>10. ASSUME Backstop(r) PROVE Moves(r)
  BY Closes, <1>10 DEF Backstop, At, Go, tables, Moves, Working, TypeOK, Row, Status
<1>11. ASSUME StepFails(r) PROVE Moves(r)
  <2>1. Working(r) /\ UNCHANGED <<process, granted, filed, cleared, syncing>>
    BY <1>11 DEF StepFails, InheritCommitted, BatchCommitted, Beat, row, tables, Working,
        Underway
  <2>2. \A q \in Run : q # r => /\ pc'[q] = pc[q] /\ todo'[q] = todo[q]
                                /\ batch'[q] = batch[q] /\ late'[q] = late[q]
    BY <1>11 DEF StepFails, Closing, Go
  <2>3. CASE InheritCommitted(r) \/ BatchCommitted(r)
    BY <2>1, <2>2, <2>3 DEF InheritCommitted, BatchCommitted, Beat, Holds, Running, Moves,
        TypeOK, Row, Status
  <2>4. CASE UNCHANGED <<row, tables>>
    BY <2>1, <2>2, <2>4 DEF row, Moves, TypeOK, Row, Status
  <2> QED BY <1>11, <2>3, <2>4 DEF StepFails
<1>12. ASSUME Cancelled(r) PROVE Moves(r)
  BY <1>12 DEF Cancelled, GivesUp, Go, row, tables, Moves, Working, Underway, TypeOK, Row, Status
<1>13. ASSUME CloseUnanswered(r) PROVE Moves(r)
  <2>1. Working(r) /\ UNCHANGED process
    BY <1>13 DEF CloseUnanswered, At, Working
  <2>2. \A q \in Run : q # r => /\ pc'[q] = pc[q] /\ todo'[q] = todo[q]
                                /\ batch'[q] = batch[q] /\ late'[q] = late[q]
    BY <1>13 DEF CloseUnanswered, Go, TypeOK
  <2>3. CASE Closed(r, IF At(r, "closing") THEN intended[r] ELSE "error")
    BY Closes, <1>13, <2>1, <2>2, <2>3 DEF At, tables, Moves, TypeOK, Row, Status
  <2>4. CASE UNCHANGED <<row, tables>>
    BY <2>1, <2>2, <2>4 DEF row, tables, Moves, TypeOK, Row, Status
  <2> QED BY <1>13, <2>3, <2>4 DEF CloseUnanswered
<1> QED BY <1>1, <1>2, <1>3, <1>4, <1>5, <1>6, <1>7, <1>8, <1>9, <1>10, <1>11, <1>12, <1>13
    DEF WorkerStep, Works

-----------------------------------------------------------------------------
(* What a run may write among the verdicts. *)

\* What a run r makes of the verdicts v: each is kept, or is the run's and copies what the
\* model said of some record, for a listing of that record.
Copies(v, w, r) ==
    \A k \in Item :
        \/ w[k] = v[k]
        \/ /\ w[k].by = r
           /\ \E j \in Item : /\ v[j] # NULL /\ w[k].of = v[j].of
                              /\ v[j].about \in {NULL, w[k].about}

\* The fan-out copies: propagate_stock_judgments.
LEMMA Propagating ==
    ASSUME NEW v \in [Item -> Verdict \cup {NULL}], identity \in [Item -> Record \cup {NULL}],
           NEW r \in Run, NEW w \in Propagations(v, r)
    PROVE  w \in [Item -> Verdict \cup {NULL}] /\ Copies(v, w, r)
<1>1. PICK source \in [Heirs(v) -> Item] :
        /\ \A k \in Heirs(v) : source[k] \in Sources(v, identity[k])
        /\ w = [k \in Item |-> IF k \in Heirs(v) THEN Inherited(v, k, source[k], r) ELSE v[k]]
  BY DEF Propagations
<1>2. ASSUME NEW k \in Heirs(v)
      PROVE  /\ k \in Item /\ w[k] = Inherited(v, k, source[k], r) /\ identity[k] \in Record
             /\ source[k] \in Item /\ v[source[k]] \in Verdict /\ v[source[k]] # NULL
             /\ v[source[k]].about \in {NULL, identity[k]}
  <2>1. k \in Item /\ source[k] \in Sources(v, identity[k])
    BY <1>1 DEF Heirs
  <2>2. identity[k] \in Record
    BY <2>1 DEF Heirs
  <2>3. /\ source[k] \in Item /\ v[source[k]] # NULL
        /\ v[source[k]].about \in {NULL, identity[k]}
    BY <2>1 DEF Sources, AboutRecord
  <2> QED BY <1>1, <2>1, <2>2, <2>3
<1>3. w \in [Item -> Verdict \cup {NULL}]
  <2>1. ASSUME NEW k \in Heirs(v) PROVE Inherited(v, k, source[k], r) \in Verdict
    <3>1. v[source[k]].of \in Record \cup {NULL} /\ r \in 0..MaxRuns
      BY <2>1, <1>2 DEF Verdict, Run
    <3> QED BY <2>1, <1>2, <3>1 DEF Inherited, Verdict
  <2>2. ASSUME NEW k \in Item
        PROVE  (IF k \in Heirs(v) THEN Inherited(v, k, source[k], r) ELSE v[k])
                  \in Verdict \cup {NULL}
    BY <2>1, <2>2
  <2> QED BY <1>1, <2>2
<1>4. ASSUME NEW k \in Item, k \notin Heirs(v) PROVE w[k] = v[k]
  BY <1>1, <1>4
<1>5. ASSUME NEW k \in Heirs(v)
      PROVE  /\ w[k].by = r
             /\ \E j \in Item : /\ v[j] # NULL /\ w[k].of = v[j].of
                                /\ v[j].about \in {NULL, w[k].about}
  <2>1. w[k] = [of |-> v[source[k]].of, about |-> identity[k], by |-> r]
    BY <1>2, <1>5 DEF Inherited
  <2>2. w[k].by = r /\ w[k].of = v[source[k]].of /\ w[k].about = identity[k]
    BY <2>1
  <2> QED BY <1>2, <1>5, <2>2
<1> QED BY <1>3, <1>4, <1>5 DEF Copies

\* With no verdict of a file among v, a verdict names the record it is stored for.
Sound(v) == \A k \in Item : v[k] # NULL => v[k].of = v[k].about /\ v[k].of # NULL

\* What a run may write among the verdicts: they are kept, or are its own; with no verdict
\* of a file among them a new one is about a record that has one, or that was sent last.
Wrote(r) ==
    /\ verdicts' \in [Item -> Verdict \cup {NULL}]
    /\ verdicts' # verdicts => Holds(r)
    /\ \A k \in Item :
          \/ verdicts'[k] = verdicts[k]
          \/ /\ verdicts'[k].by = r
             /\ ~filed =>
                   /\ verdicts'[k].of = verdicts'[k].about /\ verdicts'[k].of # NULL
                   /\ \/ \E j \in Item : verdicts[j] # NULL /\ verdicts'[k].of = verdicts[j].of
                      \/ At(r, "judging") /\ verdicts'[k].of = batch[r].record

\* Copies of sound verdicts are sound.
LEMMA Copying ==
    ASSUME NEW v, NEW w, NEW r, Copies(v, w, r), Sound(v), NEW k \in Item, w[k] # v[k]
    PROVE  /\ w[k].by = r /\ w[k].of = w[k].about /\ w[k].of # NULL
           /\ \E j \in Item : v[j] # NULL /\ w[k].of = v[j].of
<1>1. PICK j \in Item : v[j] # NULL /\ w[k].of = v[j].of /\ v[j].about \in {NULL, w[k].about}
  BY DEF Copies
<1>2. v[j].of = v[j].about /\ v[j].of # NULL
  BY <1>1 DEF Sound
<1> QED BY <1>1, <1>2 DEF Copies

\* The verdicts of the first transaction: InheritCommitted.
LEMMA Inheriting == ASSUME Inv, NEW r \in Run, InheritCommitted(r) PROVE Wrote(r)
<1>1. verdicts' \in Propagations(verdicts, r) /\ Holds(r)
  BY DEF InheritCommitted
<1>2. verdicts' \in [Item -> Verdict \cup {NULL}] /\ Copies(verdicts, verdicts', r)
  BY <1>1, Propagating DEF Inv, TypeOK
<1>3. ~filed => Sound(verdicts)
  BY DEF Inv, SelectionShape, VerdictsKeepTheirRecord, Sound
<1> SUFFICES ASSUME NEW k \in Item, verdicts'[k] # verdicts[k]
             PROVE  /\ verdicts'[k].by = r
                    /\ ~filed =>
                         /\ verdicts'[k].of = verdicts'[k].about /\ verdicts'[k].of # NULL
                         /\ \E j \in Item : verdicts[j] # NULL /\ verdicts'[k].of = verdicts[j].of
  BY <1>1, <1>2 DEF Wrote
<1>4. verdicts'[k].by = r
  BY <1>2 DEF Copies
<1> QED BY <1>2, <1>3, <1>4, Copying

\* The verdicts of a batch, written and fanned out, or dropped: BatchCommitted.
LEMMA Answering == ASSUME Inv, NEW r \in Run, BatchCommitted(r) PROVE Wrote(r)
<1> DEFINE p == batch[r]
           told == [of |-> p.record, about |-> Attribution(p), by |-> r]
<1>1. At(r, "judging") /\ Holds(r) /\ p \in Pick
  BY DEF BatchCommitted, At, Inv, SelectionShape, TypeOK
<1>2. p.item \in Item /\ p.record \in Record /\ p.record # NULL
  BY <1>1, JudgmentAssumption DEF Pick
<1>3. CASE verdicts' = verdicts
  BY <1>1, <1>3 DEF Wrote, Inv, TypeOK
<1>4. CASE verdicts' # verdicts
  <2>1. PICK v \in Upserted(p, r) : v # verdicts /\ verdicts' \in Propagations(v, r)
    BY <1>4 DEF BatchCommitted
  <2>2. v = [verdicts EXCEPT ![p.item] = told]
    BY <2>1 DEF Upserted
  <2>3. told \in Verdict
    BY <1>2 DEF Attribution, Verdict, Run
  <2>4. /\ v \in [Item -> Verdict \cup {NULL}] /\ v[p.item] = told
        /\ \A k \in Item : k # p.item => v[k] = verdicts[k]
    BY <1>2, <2>2, <2>3 DEF Inv, TypeOK
  <2>5. verdicts' \in [Item -> Verdict \cup {NULL}] /\ Copies(v, verdicts', r)
    BY <2>1, <2>4, Propagating DEF Inv, TypeOK
  <2>6. told.of = p.record /\ told.by = r /\ told.about = Attribution(p)
    OBVIOUS
  <2>7. ~filed => told.about = p.record
    <3> SUFFICES ASSUME ~filed, verdicts[p.item] # NULL, verdicts[p.item].about = p.record
                 PROVE  FALSE
      BY <2>6 DEF Attribution
    <3>1. verdicts[p.item].of = p.record
      BY <1>2 DEF Inv, VerdictsKeepTheirRecord
    <3>2. verdicts[p.item].of # p.record
      BY <1>1, <1>2 DEF Inv, SelectionShape, At
    <3> QED BY <3>1, <3>2
  <2>8. ~filed => Sound(v)
    BY <1>2, <2>4, <2>6, <2>7 DEF Inv, SelectionShape, VerdictsKeepTheirRecord, Sound
  <2>9. ASSUME NEW j \in Item, v[j] # NULL
        PROVE  v[j].of = p.record \/ (verdicts[j] # NULL /\ v[j].of = verdicts[j].of)
    BY <2>4, <2>6, <2>9
  <2>10. ASSUME NEW k \in Item, verdicts'[k] # verdicts[k]
         PROVE  /\ verdicts'[k].by = r
                /\ ~filed =>
                     /\ verdicts'[k].of = verdicts'[k].about /\ verdicts'[k].of # NULL
                     /\ \/ \E j \in Item : verdicts[j] # NULL /\ verdicts'[k].of = verdicts[j].of
                        \/ verdicts'[k].of = p.record
    <3>1. CASE verdicts'[k] = v[k]
      BY <1>2, <2>4, <2>6, <2>7, <2>10, <3>1
    <3>2. CASE verdicts'[k] # v[k]
      <4>1. verdicts'[k].by = r
        BY <2>5, <3>2 DEF Copies
      <4>2. ASSUME ~filed
            PROVE  /\ verdicts'[k].of = verdicts'[k].about /\ verdicts'[k].of # NULL
                   /\ \E j \in Item : v[j] # NULL /\ verdicts'[k].of = v[j].of
        BY <2>5, <2>8, <3>2, <4>2, Copying
      <4> QED BY <2>9, <4>1, <4>2
    <3> QED BY <3>1, <3>2
  <2> QED BY <1>1, <2>5, <2>10 DEF Wrote
<1> QED BY <1>3, <1>4

\* No other step of a worker writes a verdict.
LEMMA WorkersWrite ==
    ASSUME Inv, NEW r \in Run, WorkerStep(r) PROVE Wrote(r)
<1>1. UNCHANGED verdicts => Wrote(r)
  BY DEF Wrote, Inv, TypeOK
<1>2. ASSUME CannotJudge(r) \/ SweepKeys(r) \/ TakenOver(r) \/ Select(r) \/ Preflight(r)
             \/ (\E p \in todo[r] : SendBatch(r, p)) \/ CloseRun(r) \/ Backstop(r)
      PROVE UNCHANGED verdicts
  BY <1>2 DEF CannotJudge, SweepKeys, TakenOver, Select, Preflight, SendBatch, CloseRun, Backstop,
      Closed, tables
<1>3. ASSUME Cancelled(r) \/ CloseUnanswered(r) PROVE UNCHANGED verdicts
  BY <1>3 DEF Cancelled, CloseUnanswered, Closed, tables
<1>4. ASSUME StepFails(r)
      PROVE  UNCHANGED verdicts \/ InheritCommitted(r) \/ BatchCommitted(r)
  BY <1>4 DEF StepFails, tables
<1>5. Inherit(r) => InheritCommitted(r)
  BY DEF Inherit
<1>6. CommitBatch(r) => BatchCommitted(r)
  BY DEF CommitBatch
<1> QED BY <1>1, <1>2, <1>3, <1>4, <1>5, <1>6, Inheriting, Answering DEF WorkerStep, Works

-----------------------------------------------------------------------------
(* What a worker's step does to its own run. *)

\* The types of what workers write beside the row and the verdicts.
LocalOK ==
    /\ stock \subseteq Listing /\ identity \in [Item -> Record \cup {NULL}]
    /\ pc \in [Run -> Underway \cup {"unborn", "closing", "backstop", "done"}]
    /\ todo \in [Run -> SUBSET Pick]
    /\ batch \in [Run -> Pick \cup {NULL}]
    /\ intended \in [Run -> {"none", "complete", "stopped", "error"}]
    /\ late \in [Run -> Nat]
    /\ changes \in 0..MaxChanges /\ stalls \in 0..MaxStalls /\ faults \in 0..MaxFaults

\* backfill_stock_keys keeps the types of what it rewrites.
LEMMA Sweeping ==
    ASSUME TypeOK, Swept
    PROVE  stock' \subseteq Listing /\ identity' \in [Item -> Record \cup {NULL}]
<1>1. \A s \in Listing : [s EXCEPT !.keyed = TRUE] \in Listing
  BY DEF Listing
<1>2. stock' \subseteq Listing
  BY <1>1 DEF Swept, TypeOK
<1> QED BY <1>2 DEF Swept

\* What may be selected is an item and a record.
LEMMA Selecting ==
    ASSUME TypeOK, NEW picks \in Selections
    PROVE  /\ picks \subseteq Pick
           /\ \A p, q \in picks : p.record = q.record => p = q
           /\ \A p \in picks : Sources(verdicts, p.record) = {}
<1>1. picks \subseteq Representatives
  BY DEF Selections
<1>2. ASSUME NEW p \in Representatives
      PROVE  \E s \in Billable : /\ p = [item |-> s.item, record |-> s.record]
                                 /\ \A u \in Billable : u.record = s.record => s.item <= u.item
  BY DEF Representatives
<1>3. ASSUME NEW s \in Billable
      PROVE  s.item \in Item /\ s.record \in Record /\ Sources(verdicts, s.record) = {}
  BY DEF Billable, TypeOK, Listing
<1>4. ASSUME NEW p \in picks PROVE p \in Pick /\ Sources(verdicts, p.record) = {}
  BY <1>1, <1>2, <1>3 DEF Pick
<1>5. ASSUME NEW p \in picks, NEW q \in picks, p.record = q.record PROVE p = q
  <2>1. PICK s \in Billable : /\ p = [item |-> s.item, record |-> s.record]
                              /\ \A u \in Billable : u.record = s.record => s.item <= u.item
    BY <1>1, <1>2
  <2>2. PICK t \in Billable : /\ q = [item |-> t.item, record |-> t.record]
                              /\ \A u \in Billable : u.record = t.record => t.item <= u.item
    BY <1>1, <1>2
  <2>3. s.record = t.record /\ s.item \in Nat /\ t.item \in Nat
    BY <1>3, <1>5, <2>1, <2>2, JudgmentAssumption
  <2>4. s.item <= t.item /\ t.item <= s.item
    BY <2>1, <2>2, <2>3
  <2> QED BY <2>1, <2>2, <2>3, <2>4
<1> QED BY <1>4, <1>5

\* Every worker step keeps those types.
LEMMA LocalSteps == ASSUME TypeOK, NEW r \in Run, WorkerStep(r) PROVE LocalOK'
<1>1. ASSUME CannotJudge(r) PROVE LocalOK'
  BY <1>1 DEF CannotJudge, Closing, Go, tables, bounds, TypeOK, LocalOK, Pick
<1>2. ASSUME SweepKeys(r) PROVE LocalOK'
  BY <1>2, Sweeping DEF SweepKeys, Go, bounds, TypeOK, LocalOK, Pick, Underway
<1>3. ASSUME TakenOver(r) \/ Cancelled(r) PROVE LocalOK'
  BY <1>3, JudgmentAssumption DEF TakenOver, Cancelled, GivesUp, Go, tables, bounds, Fault,
      TypeOK,
      LocalOK, Pick
<1>4. ASSUME Inherit(r) PROVE LocalOK'
  BY <1>4 DEF Inherit, InheritCommitted, Go, bounds, TypeOK, LocalOK, Pick, Underway
<1>5. ASSUME Select(r) PROVE LocalOK'
  <2>1. PICK picks \in Selections :
            IF picks = {} THEN Closing(r, "complete")
            ELSE todo' = [todo EXCEPT ![r] = picks] /\ Go(r, "selected") /\ UNCHANGED intended
    BY <1>5 DEF Select
  <2>2. picks \subseteq Pick
    BY Selecting
  <2>3. /\ pc' \in [Run -> Underway \cup {"unborn", "closing", "backstop", "done"}]
        /\ todo' \in [Run -> SUBSET Pick]
        /\ intended' \in [Run -> {"none", "complete", "stopped", "error"}]
    BY <2>1, <2>2 DEF Closing, Go, TypeOK, Underway
  <2> QED BY <1>5, <2>3 DEF Select, tables, bounds, TypeOK, LocalOK
<1>6. ASSUME Preflight(r) PROVE LocalOK'
  BY <1>6 DEF Preflight, Onward, Closing, Go, tables, bounds, TypeOK, LocalOK, Underway
<1>7. ASSUME NEW p \in todo[r], SendBatch(r, p) PROVE LocalOK'
  <2>1. p \in Pick /\ todo' \in [Run -> SUBSET Pick] /\ late' \in [Run -> Nat]
    BY <1>7 DEF SendBatch, TypeOK
  <2> QED BY <1>7, <2>1 DEF SendBatch, Go, tables, bounds, TypeOK, LocalOK, Underway
<1>8. ASSUME CommitBatch(r) PROVE LocalOK'
  BY <1>8 DEF CommitBatch, BatchCommitted, Onward, Closing, Go, bounds, TypeOK, LocalOK, Underway
<1>9. ASSUME CloseRun(r) PROVE LocalOK'
  BY <1>9 DEF CloseRun, Closed, Go, tables, bounds, TypeOK, LocalOK
<1>10. ASSUME Backstop(r) PROVE LocalOK'
  BY <1>10 DEF Backstop, Closed, Go, tables, bounds, TypeOK, LocalOK
<1>11. ASSUME StepFails(r) PROVE LocalOK'
  <2>1. UNCHANGED <<stock, identity>>
    BY <1>11 DEF StepFails, InheritCommitted, BatchCommitted, tables
  <2> QED BY <1>11, <2>1, JudgmentAssumption DEF StepFails, Closing, Go, Fault, TypeOK, LocalOK
<1>12. ASSUME CloseUnanswered(r) PROVE LocalOK'
  <2>1. UNCHANGED <<stock, identity>>
    BY <1>12 DEF CloseUnanswered, Closed, tables
  <2> QED BY <1>12, <2>1, JudgmentAssumption DEF CloseUnanswered, Go, Fault, TypeOK, LocalOK
<1> QED BY <1>1, <1>2, <1>3, <1>4, <1>5, <1>6, <1>7, <1>8, <1>9, <1>10, <1>11, <1>12
    DEF WorkerStep, Works

\* Every worker step keeps the types of the variables.
LEMMA TypeSteps == ASSUME Inv, NEW r \in Run, WorkerStep(r) PROVE TypeOK'
<1>1. Moves(r) /\ Wrote(r) /\ LocalOK'
  BY Moving, WorkersWrite, LocalSteps DEF Inv
<1> QED BY <1>1 DEF Inv, Moves, Wrote, LocalOK, TypeOK, Row, process, Run

\* A run sends nothing late but its last batch, and the invariants that say so.
LateOf(r) ==
    /\ late[r] <= 1
    /\ pc[r] \in (Underway \ {"judging"}) \cup {"unborn"} => late[r] = 0
    /\ pc[r] = "judging" /\ late[r] = 1 => ~Holds(r) \/ run.stop

\* What a run has selected: one item per record, and not what it sent last.
ChosenOf(r) ==
    /\ pc[r] \in {"unborn", "starting", "inheriting", "selecting"} => todo[r] = {}
    /\ \A p, q \in todo[r] : p.record = q.record => p = q
    /\ pc[r] = "judging" => batch[r] # NULL /\ \A p \in todo[r] : p.record # batch[r].record

\* No verdict is about what a run that holds its claim has still to send, or has sent.
Unjudged(rec) == \A k \in Item : verdicts[k] # NULL => verdicts[k].of # rec
PaidOf(r) ==
    ~filed /\ Holds(r) =>
        /\ \A p \in todo[r] : Unjudged(p.record)
        /\ pc[r] = "judging" => Unjudged(batch[r].record)

\* The invariants, run by run.
LEMMA RunByRun ==
    /\ OverspendIsBounded /\ LateShape <=> \A r \in Run : LateOf(r)
    /\ PaidOnce /\ SelectionShape <=>
          /\ \A r \in Run : ChosenOf(r) /\ PaidOf(r)
          /\ ~filed => \A k \in Item : verdicts[k] # NULL => verdicts[k].of # NULL
<1> DEFINE Sent(r) == pc[r] = "judging" /\ Holds(r) /\ ~filed => Unjudged(batch[r].record)
           Left(r) == ~filed /\ Holds(r) => \A p \in todo[r] : Unjudged(p.record)
           Named == ~filed => \A k \in Item : verdicts[k] # NULL => verdicts[k].of # NULL
<1>1. OverspendIsBounded /\ LateShape <=> \A r \in Run : LateOf(r)
  BY DEF OverspendIsBounded, LateShape, LateOf
<1>2. PaidOnce <=> \A r \in Run : Left(r)
  BY Zenon DEF PaidOnce, Unjudged
<1>3. SelectionShape <=> (\A r \in Run : ChosenOf(r) /\ Sent(r)) /\ Named
  BY DEF SelectionShape, ChosenOf, Unjudged
<1>4. ASSUME NEW r \in Run PROVE PaidOf(r) <=> Left(r) /\ Sent(r)
  BY DEF PaidOf
<1> QED BY <1>1, <1>2, <1>3, <1>4

\* The same of the next state.
LEMMA PrimedRuns ==
    ASSUME \A r \in Run : LateOf(r)' /\ ChosenOf(r)' /\ PaidOf(r)',
           ~filed' => \A k \in Item : verdicts'[k] # NULL => verdicts'[k].of # NULL
    PROVE  OverspendIsBounded' /\ LateShape' /\ SelectionShape' /\ PaidOnce'
<1>1. OverspendIsBounded' /\ LateShape'
  BY DEF OverspendIsBounded, LateShape, LateOf
<1>2. PaidOnce'
  BY DEF PaidOnce, PaidOf, Unjudged
<1>3. SelectionShape'
  BY DEF SelectionShape, ChosenOf, PaidOf, Unjudged
<1> QED BY <1>1, <1>2, <1>3

\* A worker that is asked to stop, or lost its claim, sends no second batch: the stop flag
\* and the fence at each checkpoint.
LEMMA LateSteps == ASSUME Inv, NEW r \in Run, WorkerStep(r) PROVE LateOf(r)'
<1>1. /\ LateOf(r) /\ late[r] \in Nat
      /\ pc[r] \in Underway \cup {"unborn", "closing", "backstop", "done"}
  BY RunByRun DEF Inv, TypeOK
<1>2. ASSUME late'[r] = late[r], pc'[r] \in {"closing", "backstop", "done"} PROVE LateOf(r)'
  BY <1>1, <1>2 DEF LateOf, Underway
<1>3. ASSUME late'[r] = late[r], pc[r] \in Underway \ {"judging"},
             pc'[r] \in Underway \ {"judging"}
      PROVE  LateOf(r)'
  BY <1>1, <1>3 DEF LateOf, Underway
<1>4. ASSUME CannotJudge(r) \/ TakenOver(r) \/ CloseRun(r) \/ Backstop(r) \/ StepFails(r)
             \/ Cancelled(r) \/ CloseUnanswered(r)
      PROVE  late'[r] = late[r] /\ pc'[r] \in {"closing", "backstop", "done"}
  BY <1>4 DEF CannotJudge, TakenOver, CloseRun, Backstop, StepFails, Cancelled, CloseUnanswered,
      Closing, GivesUp, Go, Inv, TypeOK
<1>5. ASSUME SweepKeys(r) \/ Inherit(r)
      PROVE  /\ late'[r] = late[r] /\ pc[r] \in Underway \ {"judging"}
             /\ pc'[r] \in Underway \ {"judging"}
  BY <1>5 DEF SweepKeys, Inherit, InheritCommitted, At, Go, Inv, TypeOK, Underway
<1>6. ASSUME Select(r)
      PROVE  /\ late'[r] = late[r] /\ pc[r] \in Underway \ {"judging"}
             /\ pc'[r] \in (Underway \ {"judging"}) \cup {"closing"}
  BY <1>6 DEF Select, At, Closing, Go, Inv, TypeOK, Underway
<1>7. ASSUME Preflight(r)
      PROVE  /\ late'[r] = late[r] /\ pc[r] \in Underway \ {"judging"}
             /\ pc'[r] \in (Underway \ {"judging"}) \cup {"closing"}
  BY <1>7 DEF Preflight, At, Onward, Closing, Go, Inv, TypeOK, Underway
<1>8. ASSUME NEW p \in todo[r], SendBatch(r, p) PROVE LateOf(r)'
  <2>1. late[r] = 0 /\ pc'[r] = "judging" /\ UNCHANGED run
        /\ late'[r] = IF ~Holds(r) \/ run.stop THEN late[r] + 1 ELSE late[r]
    BY <1>1, <1>8 DEF SendBatch, At, Go, row, LateOf, Inv, TypeOK, Underway
  <2> QED BY <2>1 DEF LateOf, Holds, Running, Underway
<1>9. ASSUME CommitBatch(r) PROVE LateOf(r)'
  <2>1. /\ pc[r] = "judging" /\ Holds(r) /\ late'[r] = late[r]
        /\ \/ pc'[r] = "closing"
           \/ pc'[r] = "sending" /\ ~run.stop
    BY <1>9 DEF CommitBatch, BatchCommitted, At, Onward, Closing, Go, Inv, TypeOK
  <2>2. ~run.stop => late[r] = 0
    BY <1>1, <2>1 DEF LateOf
  <2> QED BY <1>1, <2>1, <2>2 DEF LateOf, Underway
<1> QED BY <1>2, <1>3, <1>4, <1>5, <1>6, <1>7, <1>8, <1>9 DEF WorkerStep, Works

\* Every worker step leaves its own run a selection of one item per record.
LEMMA ChosenSteps == ASSUME Inv, NEW r \in Run, WorkerStep(r) PROVE ChosenOf(r)'
<1>1. ChosenOf(r)
  BY RunByRun DEF Inv
<1>2. ASSUME todo'[r] \subseteq todo[r],
             pc'[r] \in {"selected", "sending", "closing", "backstop", "done"}
      PROVE  ChosenOf(r)'
  BY <1>1, <1>2 DEF ChosenOf
<1>3. ASSUME CannotJudge(r) \/ TakenOver(r) \/ CloseRun(r) \/ Backstop(r) \/ StepFails(r)
             \/ Cancelled(r) \/ CloseUnanswered(r)
      PROVE  todo'[r] \subseteq todo[r] /\ pc'[r] \in {"closing", "backstop", "done"}
  BY <1>3 DEF CannotJudge, TakenOver, CloseRun, Backstop, StepFails, Cancelled, CloseUnanswered,
      Closing, GivesUp, Go, Inv, TypeOK
<1>4. ASSUME SweepKeys(r) \/ Inherit(r)
      PROVE  ChosenOf(r)'
  <2>1. /\ todo' = todo /\ pc'[r] \in {"inheriting", "selecting"}
        /\ pc[r] \in {"starting", "inheriting"}
    BY <1>4 DEF SweepKeys, Inherit, InheritCommitted, At, Go, Inv, TypeOK
  <2> QED BY <1>1, <2>1 DEF ChosenOf
<1>5. ASSUME Select(r) PROVE ChosenOf(r)'
  <2>1. PICK picks \in Selections :
            IF picks = {} THEN Closing(r, "complete")
            ELSE todo' = [todo EXCEPT ![r] = picks] /\ Go(r, "selected")
    BY <1>5 DEF Select
  <2>2. todo'[r] = picks /\ pc'[r] \in {"closing", "selected"}
    BY <2>1 DEF Closing, Go, Inv, TypeOK
  <2> QED BY <2>2, Selecting DEF Inv, ChosenOf
<1>6. ASSUME Preflight(r) \/ CommitBatch(r)
      PROVE  todo'[r] \subseteq todo[r] /\ pc'[r] \in {"closing", "sending"}
  BY <1>6 DEF Preflight, CommitBatch, Onward, Closing, Go, Inv, TypeOK
<1>7. ASSUME NEW p \in todo[r], SendBatch(r, p) PROVE ChosenOf(r)'
  <2>1. /\ todo'[r] = todo[r] \ {p} /\ pc'[r] = "judging" /\ batch'[r] = p
    BY <1>7 DEF SendBatch, Go, Inv, TypeOK
  <2>2. p # NULL
    BY JudgmentAssumption DEF Inv, TypeOK, Pick
  <2> QED BY <1>1, <2>1, <2>2 DEF ChosenOf
<1> QED BY <1>2, <1>3, <1>4, <1>5, <1>6, <1>7 DEF WorkerStep, Works

\* Every worker step leaves its own run nothing to send that has a verdict: it writes none
\* about what it has still to send, and selects nothing that has one.
LEMMA PaidSteps == ASSUME Inv, NEW r \in Run, WorkerStep(r) PROVE PaidOf(r)'
<1> SUFFICES ASSUME ~filed', Holds(r)' PROVE
      /\ \A p \in todo'[r] : Unjudged(p.record)'
      /\ pc'[r] = "judging" => Unjudged(batch[r].record)'
  BY DEF PaidOf, Unjudged
<1>1. Moves(r) /\ Wrote(r) /\ PaidOf(r) /\ ChosenOf(r) /\ ~filed /\ Holds(r)
  BY Moving, WorkersWrite, RunByRun DEF Inv, Moves, Holds, Running
<1>2. ASSUME NEW rec, Unjudged(rec), pc[r] = "judging" => batch[r].record # rec
      PROVE  Unjudged(rec)'
  BY <1>1, <1>2 DEF Wrote, At, Unjudged
<1>3. ASSUME todo'[r] \subseteq todo[r] PROVE \A p \in todo'[r] : Unjudged(p.record)'
  BY <1>1, <1>2, <1>3 DEF PaidOf, ChosenOf
<1>4. ASSUME todo'[r] \subseteq todo[r], pc'[r] # "judging"
      PROVE  /\ \A p \in todo'[r] : Unjudged(p.record)'
             /\ pc'[r] = "judging" => Unjudged(batch[r].record)'
  BY <1>3, <1>4
<1>5. ASSUME CannotJudge(r) \/ TakenOver(r) \/ CloseRun(r) \/ Backstop(r) \/ StepFails(r)
             \/ Cancelled(r) \/ CloseUnanswered(r)
      PROVE  todo'[r] \subseteq todo[r] /\ pc'[r] # "judging"
  BY <1>5 DEF CannotJudge, TakenOver, CloseRun, Backstop, StepFails, Cancelled, CloseUnanswered,
      Closing, GivesUp, Go, Inv, TypeOK
<1>6. ASSUME SweepKeys(r) \/ Inherit(r) \/ Preflight(r) \/ CommitBatch(r)
      PROVE  todo'[r] \subseteq todo[r] /\ pc'[r] # "judging"
  BY <1>6 DEF SweepKeys, Inherit, Preflight, CommitBatch, Onward, Closing, Go, Inv, TypeOK
<1>7. ASSUME Select(r)
      PROVE  (\A p \in todo'[r] : Unjudged(p.record)') /\ pc'[r] # "judging"
  <2>1. PICK picks \in Selections :
            IF picks = {} THEN Closing(r, "complete")
            ELSE todo' = [todo EXCEPT ![r] = picks] /\ Go(r, "selected")
    BY <1>7 DEF Select
  <2>2. todo'[r] = picks /\ pc'[r] # "judging" /\ verdicts' = verdicts
    BY <1>7, <2>1 DEF Select, tables, Closing, Go, Inv, TypeOK
  <2>3. ASSUME NEW p \in picks PROVE Unjudged(p.record)
    <3> SUFFICES ASSUME NEW k \in Item, verdicts[k] # NULL, verdicts[k].of = p.record
                 PROVE  FALSE
      BY DEF Unjudged
    <3>1. Sources(verdicts, p.record) = {}
      BY Selecting DEF Inv
    <3>2. verdicts[k].about = p.record
      BY <1>1 DEF Inv, VerdictsKeepTheirRecord
    <3> QED BY <3>1, <3>2 DEF Sources, AboutRecord
  <2> QED BY <2>2, <2>3 DEF Unjudged
<1>8. ASSUME NEW p \in todo[r], SendBatch(r, p)
      PROVE  /\ \A q \in todo'[r] : Unjudged(q.record)'
             /\ pc'[r] = "judging" => Unjudged(batch[r].record)'
  <2>1. todo'[r] = todo[r] \ {p} /\ batch'[r] = p /\ verdicts' = verdicts
    BY <1>8 DEF SendBatch, tables, Inv, TypeOK
  <2> QED BY <1>1, <2>1 DEF PaidOf, Unjudged
<1> QED BY <1>4, <1>5, <1>6, <1>7, <1>8 DEF WorkerStep, Works

-----------------------------------------------------------------------------
(* The invariant, after a worker's step. *)

\* A worker's step leaves the other runs what they are.
LEMMA OthersKept ==
    ASSUME Inv, NEW r \in Run, WorkerStep(r), NEW q \in Run, q # r
    PROVE  LateOf(q)' /\ ChosenOf(q)' /\ PaidOf(q)'
<1>1. Moves(r) /\ Wrote(r) /\ LateOf(q) /\ ChosenOf(q) /\ PaidOf(q)
  BY Moving, WorkersWrite, RunByRun DEF Inv
<1>2. Holds(q)' => Holds(q) /\ UNCHANGED verdicts
  BY <1>1 DEF Moves, Wrote, Holds, Running
<1>3. Holds(q) => Holds(q)' \/ ~Running'
  BY <1>1 DEF Moves, Holds, Running
<1>4. LateOf(q)'
  BY <1>1, <1>2 DEF Moves, LateOf
<1>5. ChosenOf(q)'
  BY <1>1 DEF Moves, ChosenOf
<1>6. PaidOf(q)'
  BY <1>1, <1>2 DEF Moves, PaidOf, Unjudged
<1> QED BY <1>4, <1>5, <1>6

\* The inductive invariant holds after every step of a worker.
LEMMA WorkerInv == ASSUME Inv, NEW r \in Run, WorkerStep(r) PROVE Inv'
<1>1. Moves(r) /\ Wrote(r)
  BY Moving, WorkersWrite DEF Inv
<1>2. ASSUME NEW q \in Run PROVE LateOf(q)' /\ ChosenOf(q)' /\ PaidOf(q)'
  BY OthersKept, LateSteps, ChosenSteps, PaidSteps
<1>3. ~filed' => \A k \in Item : verdicts'[k] # NULL =>
                    verdicts'[k].of # NULL /\ verdicts'[k].of = verdicts'[k].about
  BY <1>1 DEF Inv, SelectionShape, VerdictsKeepTheirRecord, Moves, Wrote
<1>4. OverspendIsBounded' /\ LateShape' /\ SelectionShape' /\ PaidOnce'
  BY <1>2, <1>3, PrimedRuns
<1>5. RowShape'
  BY <1>1 DEF Inv, RowShape, Moves, Working, Holds, Running
<1>6. ClearStands'
  <2>1. UNCHANGED verdicts \/ r > cleared
    BY <1>1 DEF Wrote, Inv, RowShape, Holds
  <2> QED BY <1>1, <2>1 DEF Inv, ClearStands, Moves, Wrote
<1> QED BY <1>2, <1>3, <1>4, <1>5, <1>6, TypeSteps DEF Inv, VerdictsKeepTheirRecord

-----------------------------------------------------------------------------
(* The other steps: requests, claims, time and crashes. *)

\* The invariant but for the types.
Sense ==
    /\ RowShape /\ LateShape /\ SelectionShape
    /\ ClearStands /\ PaidOnce /\ VerdictsKeepTheirRecord /\ OverspendIsBounded

\* A step that leaves the verdicts and the runs, and lets the claim at most expire or be
\* stopped, keeps it: the stock sync, a request to stop, the staleness window.
LEMMA Weakening ==
    ASSUME Inv, UNCHANGED <<granted, verdicts, filed, cleared, pc, todo, batch, late>>,
           run'.token = run.token, run'.status = run.status, run.stale => run'.stale,
           run.stop => run'.stop
    PROVE  Sense'
<1>1. ASSUME NEW r \in Run PROVE LateOf(r)' /\ ChosenOf(r)' /\ PaidOf(r)'
  <2>1. LateOf(r) /\ ChosenOf(r) /\ PaidOf(r)
    BY RunByRun DEF Inv
  <2>2. Holds(r)' => Holds(r)
    BY DEF Holds, Running
  <2>3. LateOf(r)'
    BY <2>1, <2>2 DEF LateOf
  <2>4. ChosenOf(r)' /\ PaidOf(r)'
    BY <2>1, <2>2 DEF ChosenOf, PaidOf, Unjudged
  <2> QED BY <2>3, <2>4
<1>2. RowShape' /\ ClearStands' /\ VerdictsKeepTheirRecord'
  BY DEF Inv, RowShape, ClearStands, VerdictsKeepTheirRecord, Running
<1>3. ~filed' => \A k \in Item : verdicts'[k] # NULL => verdicts'[k].of # NULL
  BY DEF Inv, SelectionShape
<1> QED BY <1>1, <1>2, <1>3, PrimedRuns DEF Sense

\* A clear and an import find no run under way.
LEMMA Changing ==
    ASSUME Inv, NEW m \in Machine, Clear(m) \/ \E items \in SUBSET Item : Import(m, items)
    PROVE  Sense'
<1>1. ~Running /\ UNCHANGED <<run, granted, pc, todo, batch, late>>
  BY DEF Clear, Import, Unguarded, row, local
<1>2. ASSUME NEW r \in Run PROVE LateOf(r)' /\ ChosenOf(r)' /\ PaidOf(r)'
  <2>1. LateOf(r) /\ ChosenOf(r) /\ ~Holds(r) /\ ~Holds(r)'
    BY <1>1, RunByRun DEF Inv, Holds, Running
  <2> QED BY <1>1, <2>1 DEF LateOf, ChosenOf, PaidOf
<1>3. RowShape' /\ ClearStands' /\ VerdictsKeepTheirRecord'
      /\ (~filed' => \A k \in Item : verdicts'[k] # NULL => verdicts'[k].of # NULL)
  <2>1. CASE Clear(m)
    <3>1. (\A k \in Item : verdicts'[k] = NULL) /\ cleared' = granted /\ granted \in 0..MaxRuns
      BY <2>1 DEF Clear, Inv, TypeOK
    <3> QED BY <1>1, <3>1 DEF Inv, RowShape, ClearStands, VerdictsKeepTheirRecord, Running
  <2>2. CASE \E items \in SUBSET Item : Import(m, items)
    <3>1. PICK items \in SUBSET Item : Import(m, items)
      BY <2>2
    <3>2. /\ cleared' = cleared /\ filed'
          /\ \A k \in Item : verdicts'[k] = verdicts[k] \/ verdicts'[k].by = NoRun
      BY <3>1 DEF Import, FromFile
    <3> QED BY <1>1, <3>2 DEF Inv, RowShape, ClearStands, VerdictsKeepTheirRecord, Running
  <2> QED BY <2>1, <2>2
<1> QED BY <1>2, <1>3, PrimedRuns DEF Sense

\* A granted claim is the newest, and its run has sent nothing.
LEMMA Granting ==
    ASSUME Inv, NEW m \in Machine, Granted(m)
    PROVE  /\ granted' \in Run /\ granted' = granted + 1 /\ granted' > cleared
           /\ run' = [status |-> "running", token |-> granted', stale |-> FALSE, stop |-> FALSE]
           /\ Running' /\ run' \in Row /\ pc[granted'] = "unborn" /\ late[granted'] = 0
           /\ todo[granted'] = {} /\ home' \in [Run -> Machine \cup {NULL}]
<1>1. granted' \in Run /\ granted' = granted + 1 /\ granted' > cleared
  BY JudgmentAssumption DEF Granted, Run, Inv, TypeOK, RowShape
<1>2. run' = [status |-> "running", token |-> granted', stale |-> FALSE, stop |-> FALSE]
  BY DEF Granted
<1>3. Running' /\ run' \in Row
  BY <1>1, <1>2 DEF Running, Row, Status, Run
<1>4. pc[granted'] = "unborn"
  BY <1>1 DEF Inv, TypeOK, RowShape
<1>5. LateOf(granted') /\ ChosenOf(granted')
  BY <1>1, RunByRun DEF Inv
<1>6. home' \in [Run -> Machine \cup {NULL}]
  BY <1>1 DEF Granted, Inv, TypeOK
<1> QED BY <1>1, <1>2, <1>3, <1>4, <1>5, <1>6 DEF LateOf, ChosenOf

\* A granted claim keeps the invariant, whether its worker starts or never learns of it.
LEMMA Claiming ==
    ASSUME Inv, NEW m \in Machine, Granted(m),
           UNCHANGED <<verdicts, filed, cleared, todo, batch, late>>,
           \/ UNCHANGED pc
           \/ pc' = [pc EXCEPT ![granted'] = "starting"]
    PROVE  Sense'
<1>1. /\ granted' \in Run /\ granted' = granted + 1 /\ granted' > cleared /\ Running'
      /\ run'.token = granted' /\ pc[granted'] = "unborn" /\ late[granted'] = 0
      /\ todo[granted'] = {}
  BY Granting
<1>2. /\ pc'[granted'] \in {"unborn", "starting"}
      /\ \A r \in Run : r # granted' => pc'[r] = pc[r]
  BY <1>1 DEF Inv, TypeOK
<1>3. ASSUME NEW r \in Run PROVE LateOf(r)' /\ ChosenOf(r)' /\ PaidOf(r)'
  <2>1. LateOf(r) /\ ChosenOf(r)
    BY RunByRun DEF Inv
  <2>2. CASE r = granted'
    BY <1>1, <1>2, <2>2 DEF LateOf, ChosenOf, PaidOf
  <2>3. CASE r # granted'
    <3>1. ~Holds(r)' /\ pc'[r] = pc[r]
      BY <1>1, <1>2, <2>3 DEF Holds
    <3> QED BY <2>1, <3>1 DEF LateOf, ChosenOf, PaidOf
  <2> QED BY <2>2, <2>3
<1>4. RowShape'
  <2>1. ASSUME NEW r \in Run, r > granted' PROVE pc'[r] = "unborn"
    BY <1>1, <1>2, <2>1 DEF Inv, TypeOK, RowShape, Run
  <2>2. cleared <= granted' /\ granted' > cleared
    BY <1>1 DEF Inv, TypeOK, RowShape
  <2> QED BY <1>1, <2>1, <2>2 DEF RowShape
<1>5. ClearStands' /\ VerdictsKeepTheirRecord'
      /\ (~filed' => \A k \in Item : verdicts'[k] # NULL => verdicts'[k].of # NULL)
  BY DEF Inv, ClearStands, VerdictsKeepTheirRecord, SelectionShape
<1> QED BY <1>3, <1>4, <1>5, PrimedRuns DEF Sense

\* A crash ends the workers of its Machine.
LEMMA Crashing == ASSUME Inv, NEW m \in Machine, Crash(m) PROVE Sense'
<1>1. UNCHANGED <<run, granted, verdicts, filed, cleared, late>>
  BY DEF Crash, row
<1>2. ASSUME NEW r \in Run
      PROVE  \/ pc'[r] = pc[r] /\ todo'[r] = todo[r] /\ batch'[r] = batch[r]
             \/ pc'[r] = "done" /\ todo'[r] = {}
             \/ pc'[r] = pc[r] /\ pc[r] \in {"unborn", "done"} /\ todo'[r] = {}
  BY DEF Crash, Working
<1>3. ASSUME NEW r \in Run PROVE LateOf(r)' /\ ChosenOf(r)' /\ PaidOf(r)'
  <2>1. LateOf(r) /\ ChosenOf(r) /\ PaidOf(r)
    BY RunByRun DEF Inv
  <2>2. Holds(r)' = Holds(r)
    BY <1>1 DEF Holds, Running
  <2>3. LateOf(r)'
    BY <1>1, <1>2, <2>1, <2>2 DEF LateOf, Underway
  <2>4. ChosenOf(r)'
    BY <1>2, <2>1 DEF ChosenOf
  <2>5. PaidOf(r)'
    BY <1>1, <1>2, <2>1, <2>2 DEF PaidOf, Unjudged
  <2> QED BY <2>3, <2>4, <2>5
<1>4. RowShape'
  <2>1. ASSUME NEW r \in Run, pc[r] = "unborn" PROVE pc'[r] = "unborn"
    BY <2>1 DEF Crash, Working
  <2> QED BY <1>1, <2>1 DEF Inv, RowShape, Running
<1>5. ClearStands' /\ VerdictsKeepTheirRecord'
      /\ (~filed' => \A k \in Item : verdicts'[k] # NULL => verdicts'[k].of # NULL)
  BY <1>1 DEF Inv, ClearStands, VerdictsKeepTheirRecord, SelectionShape
<1> QED BY <1>3, <1>4, <1>5, PrimedRuns DEF Sense

\* The steps of no worker.
OtherStep ==
    \/ \E m \in Machine : Starts(m) \/ ClaimUnanswered(m) \/ Crash(m)
    \/ Requests \/ RunExpires \/ RunStalls

\* They keep the types of the variables.
LEMMA TypeOther == ASSUME Inv, OtherStep PROVE TypeOK'
<1> DEFINE Bounded == /\ changes \in 0..MaxChanges /\ stalls \in 0..MaxStalls
                      /\ faults \in 0..MaxFaults
<1>a. Change \/ Fault \/ UNCHANGED bounds => Bounded'
  BY JudgmentAssumption DEF Change, Fault, bounds, Inv, TypeOK
<1>1. ASSUME NEW m \in Machine, PassSyncGuard(m) \/ ClaimRefused(m) PROVE TypeOK'
  <2>1. asked' \in [Machine -> BOOLEAN] /\ UNCHANGED <<row, tables, home, local>>
    BY <1>1 DEF PassSyncGuard, ClaimRefused, Inv, TypeOK
  <2>2. Bounded'
    BY <1>1, <1>a DEF PassSyncGuard, ClaimRefused, NoFault
  <2> QED BY <2>1, <2>2 DEF row, tables, local, Inv, TypeOK
<1>2. ASSUME NEW m \in Machine, ClaimRun(m) PROVE TypeOK'
  <2>1. /\ run' \in Row /\ granted' \in Run /\ home' \in [Run -> Machine \cup {NULL}]
        /\ UNCHANGED writer
    BY <1>2, Granting DEF ClaimRun, Granted
  <2>2. pc' \in [Run -> Underway \cup {"unborn", "closing", "backstop", "done"}]
    BY <1>2, <2>1 DEF ClaimRun, Inv, TypeOK, Underway
  <2>3. Bounded'
    BY <1>2, <1>a DEF ClaimRun, NoFault
  <2> QED BY <1>2, <2>1, <2>2, <2>3 DEF ClaimRun, tables, Inv, TypeOK, Row, Run
<1>3. ASSUME NEW m \in Machine, ClaimUnanswered(m) PROVE TypeOK'
  <2>1. /\ run' \in Row /\ granted' \in 0..MaxRuns /\ home' \in [Run -> Machine \cup {NULL}]
        /\ UNCHANGED writer
    <3>1. CASE Granted(m)
      <4>1. /\ run' \in Row /\ granted' \in Run /\ home' \in [Run -> Machine \cup {NULL}]
        BY <3>1, Granting
      <4> QED BY <3>1, <4>1 DEF Granted, Run
    <3>2. CASE UNCHANGED <<row, home>>
      <4>1. UNCHANGED <<run, granted, writer, home>>
        BY <3>2 DEF row
      <4> QED BY <4>1 DEF Inv, TypeOK, Row
    <3> QED BY <1>3, <3>1, <3>2 DEF ClaimUnanswered
  <2> QED BY <1>3, <1>a, <2>1 DEF ClaimUnanswered, tables, local, Inv, TypeOK, Row
<1>4. ASSUME NEW m \in Machine, Crash(m) PROVE TypeOK'
  BY <1>4, <1>a DEF Crash, row, Inv, TypeOK
<1>5. ASSUME RequestStop \/ RunExpires \/ RunStalls PROVE TypeOK'
  <2>1. run' \in Row /\ UNCHANGED <<granted, writer, tables, process, local>>
    BY <1>5 DEF RequestStop, RunExpires, RunStalls, Inv, TypeOK, Row
  <2>2. Bounded'
    BY <1>5, JudgmentAssumption
       DEF RequestStop, RunExpires, RunStalls, Change, bounds, Inv, TypeOK
  <2> QED BY <2>1, <2>2 DEF tables, process, local, Inv, TypeOK, Row
<1>6. ASSUME NEW rows \in Snapshot, Restock(rows) PROVE TypeOK'
  <2>1. rows \subseteq Listing
    BY JudgmentAssumption
  <2>2. stock' \subseteq Listing /\ identity' \in [Item -> Record \cup {NULL}]
    BY <1>6, <2>1 DEF Restock
  <2> QED BY <1>6, <1>a, <2>2 DEF Restock, row, process, local, Inv, TypeOK
<1>7. ASSUME NEW m \in Machine, StartSync(m) PROVE TypeOK'
  BY <1>7, <1>a DEF StartSync, row, process, local, bounds, Inv, TypeOK
<1>8. ASSUME NEW m \in Machine, EndSync(m) PROVE TypeOK'
  BY <1>8, <1>a, Sweeping DEF EndSync, row, process, local, bounds, Inv, TypeOK
<1>9. ASSUME NEW m \in Machine, Clear(m) PROVE TypeOK'
  <2>1. verdicts' \in [Item -> Verdict \cup {NULL}] /\ cleared' \in 0..MaxRuns /\ filed' = FALSE
    BY <1>9 DEF Clear, Inv, TypeOK
  <2> QED BY <1>9, <1>a, <2>1 DEF Clear, row, process, local, Inv, TypeOK
<1>10. ASSUME NEW m \in Machine, NEW items \in SUBSET Item, Import(m, items) PROVE TypeOK'
  <2>1. FromFile \in Verdict
    BY JudgmentAssumption DEF FromFile, Verdict, NoRun
  <2>2. verdicts' \in [Item -> Verdict \cup {NULL}]
    BY <1>10, <2>1 DEF Import, Inv, TypeOK
  <2> QED BY <1>10, <1>a, <2>2 DEF Import, row, process, local, Inv, TypeOK
<1> QED BY <1>1, <1>2, <1>3, <1>4, <1>5, <1>6, <1>7, <1>8, <1>9, <1>10 DEF OtherStep, Starts,
    Requests

\* They keep the inductive invariant.
LEMMA OtherInv == ASSUME Inv, OtherStep PROVE Inv'
<1>1. ASSUME NEW m \in Machine, ClaimRun(m) PROVE Sense'
  BY <1>1, Claiming DEF ClaimRun, tables
<1>2. ASSUME NEW m \in Machine, ClaimUnanswered(m) PROVE Sense'
  <2>1. CASE Granted(m)
    BY <1>2, <2>1, Claiming DEF ClaimUnanswered, tables, local
  <2>2. CASE UNCHANGED <<row, home>>
    BY <1>2, <2>2, Weakening DEF ClaimUnanswered, row, tables, local
  <2> QED BY <1>2, <2>1, <2>2 DEF ClaimUnanswered
<1>3. ASSUME NEW m \in Machine, PassSyncGuard(m) \/ ClaimRefused(m) \/ StartSync(m) \/ EndSync(m)
      PROVE  Sense'
  BY <1>3, Weakening DEF PassSyncGuard, ClaimRefused, StartSync, EndSync, row, tables, local
<1>4. ASSUME NEW rows \in Snapshot, Restock(rows) PROVE Sense'
  BY <1>4, Weakening DEF Restock, row, local
<1>5. ASSUME RequestStop \/ RunExpires \/ RunStalls PROVE Sense'
  BY <1>5, Weakening DEF RequestStop, RunExpires, RunStalls, tables, local, Inv, TypeOK
<1>6. ASSUME NEW m \in Machine, Clear(m) \/ \E items \in SUBSET Item : Import(m, items)
      PROVE  Sense'
  BY <1>6, Changing
<1>7. ASSUME NEW m \in Machine, Crash(m) PROVE Sense'
  BY <1>7, Crashing
<1>8. Sense'
  BY <1>1, <1>2, <1>3, <1>4, <1>5, <1>6, <1>7 DEF OtherStep, Starts, Requests
<1> QED BY <1>8, TypeOther DEF Sense, Inv

-----------------------------------------------------------------------------

\* The inductive invariant holds when the user has no verdicts yet.
LEMMA InitInv == Init => Inv
<1> SUFFICES ASSUME Init PROVE Inv
  OBVIOUS
<1>1. TypeOK
  <2>1. run \in Row
    BY JudgmentAssumption DEF Init, Row, Status, NoRun
  <2>2. /\ granted \in 0..MaxRuns /\ writer \in 0..MaxRuns /\ cleared \in 0..MaxRuns
        /\ changes \in 0..MaxChanges /\ stalls \in 0..MaxStalls /\ faults \in 0..MaxFaults
    BY JudgmentAssumption DEF Init, NoRun
  <2>3. stock \subseteq Listing
    BY JudgmentAssumption DEF Init
  <2> QED BY <2>1, <2>2, <2>3 DEF Init, TypeOK, Row
<1>2. RowShape /\ LateShape /\ SelectionShape
  BY DEF Init, RowShape, LateShape, SelectionShape, Running, NoRun, Run
<1>3. ClearStands /\ PaidOnce /\ VerdictsKeepTheirRecord /\ OverspendIsBounded
  BY DEF Init, ClearStands, PaidOnce, VerdictsKeepTheirRecord, OverspendIsBounded
<1> QED BY <1>1, <1>2, <1>3 DEF Inv

\* It holds after every step.
LEMMA StepInv == Inv /\ [Next]_vars => Inv'
<1> SUFFICES ASSUME Inv, [Next]_vars PROVE Inv'
  OBVIOUS
<1>1. ASSUME NEW r \in Run, WorkerStep(r) PROVE Inv'
  BY <1>1, WorkerInv
<1>2. CASE OtherStep
  BY <1>2, OtherInv
<1>3. CASE UNCHANGED vars
  <2>1. Sense'
    BY <1>3, Weakening DEF vars, row, tables, local
  <2>2. TypeOK'
    BY <1>3 DEF vars, row, tables, process, local, bounds, Inv, TypeOK
  <2> QED BY <2>1, <2>2 DEF Sense, Inv
<1> QED BY <1>1, <1>2, <1>3 DEF Next, Failures, WorkerStep, OtherStep

\* The inductive invariant of the judgment run holds in every reachable state.
THEOREM JudgmentInvariant == Spec => []Inv
BY InitInv, StepInv, PTL DEF Spec

\* What the user cleared stays cleared, whatever batch is still on its way.
THEOREM ClearedStaysCleared == Spec => []ClearStands
<1>1. Inv => ClearStands
  BY DEF Inv
<1> QED BY <1>1, JudgmentInvariant, PTL

\* No run that may write has a record to send that already has a verdict: a record is
\* paid for once, in whichever shop and pressing it is listed.
THEOREM RecordsArePaidOnce == Spec => []PaidOnce
<1>1. Inv => PaidOnce
  BY DEF Inv
<1> QED BY <1>1, JudgmentInvariant, PTL

\* A verdict is stored for the record the model was asked about.
THEOREM VerdictsStayTrue == Spec => []VerdictsKeepTheirRecord
<1>1. Inv => VerdictsKeepTheirRecord
  BY DEF Inv
<1> QED BY <1>1, JudgmentInvariant, PTL

\* A run that was lost or asked to stop pays for one more batch at the most.
THEOREM OneBatchLate == Spec => []OverspendIsBounded
<1>1. Inv => OverspendIsBounded
  BY DEF Inv
<1> QED BY <1>1, JudgmentInvariant, PTL

\* The holder of the lease, as the row tells it.
Holder == IF Running THEN run.token ELSE NoRun

\* The judgment run implements RunLease, as the library sync does: its tokens and its
\* heartbeats grant the runs one after the other, and only the holder writes.
THEOREM JudgmentIsALease == Spec => ImplementsLease
<1>1. Init => Lease!Init
  BY DEF Init, Lease!Init, Lease!NoRun, Running, NoRun
<1>2. Inv /\ [Next]_vars => [Lease!Next]_(Lease!lease)
  <2> SUFFICES ASSUME Inv, [Next]_vars PROVE Lease!Next \/ UNCHANGED <<granted, Holder, writer>>
    BY DEF Lease!lease, Holder
  <2>1. ASSUME NEW r \in Run, WorkerStep(r)
        PROVE  Lease!Next \/ UNCHANGED <<granted, Holder, writer>>
    <3>1. Moves(r)
      BY <2>1, Moving DEF Inv
    <3>2. CASE UNCHANGED writer
      <4>1. CASE UNCHANGED run
        BY <3>1, <3>2, <4>1 DEF Moves, Holder, Running
      <4>2. CASE Holds(r) /\ ~run'.stale
        <5>1. CASE Running'
          BY <3>1, <3>2, <4>2, <5>1 DEF Moves, Holder, Holds
        <5>2. CASE ~Running'
          BY <3>1, <3>2, <4>2, <5>2 DEF Moves, Holds, Lease!Next, Lease!End, Lease!NoRun, NoRun,
              Run
        <5> QED BY <5>1, <5>2
      <4> QED BY <3>1, <4>1, <4>2 DEF Moves
    <3>3. CASE writer' = r /\ Holds(r) /\ Holds(r)'
      BY <3>1, <3>3 DEF Moves, Holds, Lease!Next, Lease!Write, Lease!Run, Run
    <3> QED BY <3>1, <3>2, <3>3 DEF Moves
  <2>2. ASSUME NEW m \in Machine, Granted(m) PROVE Lease!Next
    <3>1. granted < MaxRuns /\ ~Running /\ UNCHANGED writer
      BY <2>2 DEF Granted, Claimable
    <3>2. run'.token = granted' /\ Running' /\ granted' = granted + 1
      BY <2>2, Granting
    <3> QED BY <3>1, <3>2 DEF Lease!Next, Lease!Grant, Lease!NoRun, NoRun
  <2>3. CASE RunExpires \/ RunStalls
    <3>1. Running /\ ~Running' /\ UNCHANGED <<granted, writer>> /\ run.token # NoRun
      BY <2>3, JudgmentAssumption DEF RunExpires, RunStalls, Inv, TypeOK, RowShape, Running, NoRun
    <3> QED BY <3>1 DEF Lease!Next, Lease!End, Lease!NoRun, NoRun
  <2>4. ASSUME UNCHANGED <<granted, writer>>, run'.token = run.token, run'.status = run.status,
               run'.stale = run.stale
        PROVE  UNCHANGED <<granted, Holder, writer>>
    BY <2>4 DEF Holder, Running
  <2>5. ASSUME NEW m \in Machine, Starts(m) \/ ClaimUnanswered(m) \/ Crash(m)
        PROVE  UNCHANGED row \/ Granted(m)
    BY <2>5 DEF Starts, PassSyncGuard, ClaimRun, ClaimRefused, ClaimUnanswered, Crash
  <2>6. CASE Requests
    BY <2>4, <2>6 DEF Requests, RequestStop, Restock, StartSync, EndSync, Clear, Import, row, Inv,
        TypeOK
  <2>7. CASE UNCHANGED row
    BY <2>4, <2>7 DEF row
  <2>8. CASE UNCHANGED vars
    BY <2>7, <2>8 DEF vars
  <2> QED BY <2>1, <2>2, <2>3, <2>5, <2>6, <2>7, <2>8 DEF Next, Failures, WorkerStep
<1> QED BY <1>1, <1>2, JudgmentInvariant, PTL DEF Spec, ImplementsLease, Lease!Spec
=============================================================================
