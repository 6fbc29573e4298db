---------------------------- MODULE StartupProofs -----------------------------
(***************************************************************************)
(* For any number of replicas and migrations: the schema is what the       *)
(* records say, in order, and complete where a replica serves.             *)
(*                                                                         *)
(* The strengthening follows a migration from the statement that executes  *)
(* it to the commit: its table is absent and nobody else has it open, so   *)
(* the commit is the first; the ones before it are recorded, so the commit *)
(* keeps the order.                                                        *)
(***************************************************************************)
EXTENDS Startup, TLAPS

PcStates == {"down", "create", "creating", "select", "migrate", "record",
             "commit", "serving", "exited"}

TypesHold ==
  /\ pc \in [Replicas -> PcStates]
  /\ applied \in [Replicas -> SUBSET MigrationIds]
  /\ recorded \in SUBSET MigrationIds
  /\ open \in [Replicas -> 0..NumMigrations]

AppliedRecorded == \A r \in Replicas : applied[r] \subseteq recorded

OpenFirst ==
  \A r \in Replicas : open[r] # 0 =>
    /\ open[r] \notin tables
    /\ 1..(open[r] - 1) \subseteq recorded
    /\ \A s \in Replicas : s # r => open[s] # open[r]

RecordHasOpen == \A r \in Replicas : pc[r] \in {"record", "commit"} => open[r] # 0

IInv ==
  /\ TypesHold /\ SchemaMatches /\ AppliedInOrder
  /\ AppliedRecorded /\ OpenFirst /\ RecordHasOpen /\ ServingHasSchema

LEMMA InitIInv == Init => IInv
<1> SUFFICES ASSUME Init PROVE IInv
  OBVIOUS
<1> USE StartupAssumption
<1>1. PICK n \in 0..NumMigrations : recorded = 1..n
  BY DEF Init
<1>2. TypesHold
  BY <1>1 DEF Init, TypesHold, PcStates, MigrationIds
<1>3. AppliedInOrder
  BY <1>1 DEF AppliedInOrder
<1>4. SchemaMatches /\ AppliedRecorded /\ OpenFirst /\ RecordHasOpen /\ ServingHasSchema
  BY DEF Init, SchemaMatches, AppliedRecorded, OpenFirst, RecordHasOpen, ServingHasSchema
<1> QED
  BY <1>2, <1>3, <1>4 DEF IInv

\* What a commit does to the database keeps every part of the invariant that
\* is about the database, whatever the replica does next.
LEMMA CommitKeeps ==
  ASSUME IInv, NEW r \in Replicas, pc[r] = "commit", TakeEffect(r),
         open' = [open EXCEPT ![r] = 0]
  PROVE  /\ recorded' \in SUBSET MigrationIds
         /\ open' \in [Replicas -> 0..NumMigrations]
         /\ recorded \subseteq recorded' /\ tables \subseteq tables'
         /\ open[r] \in recorded'
         /\ SchemaMatches' /\ AppliedInOrder' /\ OpenFirst'
<1> USE StartupAssumption
<1> DEFINE o == open[r]
<1>1. o \in MigrationIds /\ o \notin tables /\ 1..(o - 1) \subseteq recorded
  BY DEF IInv, TypesHold, OpenFirst, RecordHasOpen, MigrationIds
<1>2. tables' = tables \cup {o} /\ recorded' = recorded \cup {o} /\ tables = recorded
  BY DEF TakeEffect, IInv, SchemaMatches
<1>3. recorded' \in SUBSET MigrationIds /\ open' \in [Replicas -> 0..NumMigrations]
  BY <1>1, <1>2 DEF IInv, TypesHold
<1>4. SchemaMatches'
  BY <1>2 DEF SchemaMatches
<1>5. AppliedInOrder'
  <2> SUFFICES ASSUME NEW m \in recorded' PROVE 1..m \subseteq recorded'
    BY DEF AppliedInOrder
  <2>1. CASE m = o
    <3>1. 1..o \subseteq 1..(o - 1) \cup {o}
      BY <1>1 DEF MigrationIds
    <3> QED
      BY <3>1, <2>1, <1>1, <1>2
  <2>2. CASE m \in recorded
    BY <2>2, <1>2 DEF IInv, AppliedInOrder
  <2> QED
    BY <2>1, <2>2, <1>2
<1>6. OpenFirst'
  <2> SUFFICES ASSUME NEW s \in Replicas, open'[s] # 0
               PROVE  /\ open'[s] \notin tables'
                      /\ 1..(open'[s] - 1) \subseteq recorded'
                      /\ \A u \in Replicas : u # s => open'[u] # open'[s]
    BY DEF OpenFirst
  <2>1. s # r /\ open'[s] = open[s] /\ open[s] # 0
    BY DEF IInv, TypesHold
  <2>2. open[s] # o /\ open[s] \notin tables /\ 1..(open[s] - 1) \subseteq recorded
    BY <2>1 DEF IInv, OpenFirst
  <2>3. \A u \in Replicas : u # s => open'[u] # open'[s]
    BY <2>1 DEF IInv, TypesHold, OpenFirst
  <2> QED
    BY <2>1, <2>2, <2>3, <1>2
<1> QED
  BY <1>2, <1>3, <1>4, <1>5, <1>6

\* A replica that exits or crashes gives up its transaction and leaves the
\* database as it was.
LEMMA RollbackKeeps ==
  ASSUME IInv, NEW r \in Replicas, NEW to \in {"exited", "down"},
         pc' = [pc EXCEPT ![r] = to], open' = [open EXCEPT ![r] = 0],
         UNCHANGED <<applied, recorded, tables>>
  PROVE  IInv'
<1>1. TypesHold'
  BY StartupAssumption DEF IInv, TypesHold, PcStates
<1>2. OpenFirst'
  BY DEF IInv, TypesHold, OpenFirst
<1>3. SchemaMatches' /\ AppliedInOrder' /\ AppliedRecorded' /\ RecordHasOpen' /\ ServingHasSchema'
  BY DEF IInv, TypesHold, PcStates, SchemaMatches, AppliedInOrder, AppliedRecorded,
         RecordHasOpen, ServingHasSchema
<1> QED
  BY <1>1, <1>2, <1>3 DEF IInv

LEMMA NextIInv == IInv /\ [Next]_vars => IInv'
<1> SUFFICES ASSUME IInv, [Next]_vars PROVE IInv'
  OBVIOUS
<1> USE StartupAssumption
<1>1. CASE UNCHANGED vars
  BY <1>1 DEF vars, database, IInv, TypesHold, SchemaMatches, AppliedInOrder,
              AppliedRecorded, OpenFirst, RecordHasOpen, ServingHasSchema
<1>2. ASSUME NEW r \in Replicas, Load(r) \/ FindTracking(r) PROVE IInv'
  <2>1. /\ UNCHANGED <<applied, recorded, tables, open>>
        /\ pc' \in {[pc EXCEPT ![r] = to] : to \in {"exited", "create", "creating", "select"}}
    BY <1>2 DEF Load, FindTracking, Goto, database
  <2> QED
    BY <2>1 DEF IInv, TypesHold, PcStates, SchemaMatches, AppliedInOrder,
                AppliedRecorded, OpenFirst, RecordHasOpen, ServingHasSchema
<1>3. ASSUME NEW r \in Replicas, CreateTracking(r) PROVE IInv'
  <2>1. CASE tracking
    BY <2>1, <1>3, RollbackKeeps DEF CreateTracking, Exit
  <2>2. CASE ~ tracking
    BY <2>2, <1>3 DEF CreateTracking, Goto, IInv, TypesHold, PcStates, SchemaMatches,
                AppliedInOrder, AppliedRecorded, OpenFirst, RecordHasOpen, ServingHasSchema
  <2> QED
    BY <2>1, <2>2
<1>4. ASSUME NEW r \in Replicas, SelectApplied(r) PROVE IInv'
  BY <1>4 DEF SelectApplied, Goto, database, IInv, TypesHold, PcStates, SchemaMatches,
              AppliedInOrder, AppliedRecorded, OpenFirst, RecordHasOpen, ServingHasSchema
<1>5. ASSUME NEW r \in Replicas, Execute(r) PROVE IInv'
  <2>1. PICK m \in MigrationIds :
          /\ NextMigration(r, m)
          /\ \A s \in Replicas : open[s] # m
          /\ IF m \in tables THEN Exit(r)
             ELSE Goto(r, "migrate", "record") /\ open' = [open EXCEPT ![r] = m]
    BY <1>5 DEF Execute
  <2>2. pc[r] = "migrate" /\ UNCHANGED <<applied, recorded, tables>>
    BY <1>5 DEF Execute, database
  <2>3. CASE m \in tables
    BY <2>1, <2>2, <2>3, RollbackKeeps DEF Exit
  <2>4. CASE m \notin tables
    <3>1. pc' = [pc EXCEPT ![r] = "record"] /\ open' = [open EXCEPT ![r] = m]
      BY <2>1, <2>4 DEF Goto
    <3>2. TypesHold'
      BY <3>1, <2>2 DEF IInv, TypesHold, PcStates, MigrationIds
    <3>3. OpenFirst'
      <4> SUFFICES ASSUME NEW s \in Replicas, open'[s] # 0
                   PROVE  /\ open'[s] \notin tables
                          /\ 1..(open'[s] - 1) \subseteq recorded
                          /\ \A u \in Replicas : u # s => open'[u] # open'[s]
        BY <2>2 DEF OpenFirst
      <4>1. CASE s = r
        <5>1. open'[s] = m /\ \A u \in Replicas : u # s => open'[u] = open[u]
          BY <3>1, <4>1 DEF IInv, TypesHold
        <5> QED
          BY <5>1, <4>1, <2>1, <2>4 DEF NextMigration, IInv, AppliedRecorded
      <4>2. CASE s # r
        <5>1. open'[s] = open[s] /\ open'[r] = m /\ open[s] # m
          BY <3>1, <2>1, <4>2 DEF IInv, TypesHold
        <5>2. \A u \in Replicas : u # r => open'[u] = open[u]
          BY <3>1 DEF IInv, TypesHold
        <5> QED
          BY <5>1, <5>2, <4>2 DEF IInv, OpenFirst
      <4> QED
        BY <4>1, <4>2
    <3>4. RecordHasOpen'
      BY <3>1 DEF IInv, TypesHold, RecordHasOpen, MigrationIds
    <3>5. SchemaMatches' /\ AppliedInOrder' /\ AppliedRecorded' /\ ServingHasSchema'
      BY <3>1, <2>2 DEF IInv, TypesHold, SchemaMatches, AppliedInOrder, AppliedRecorded,
                        ServingHasSchema
    <3> QED
      BY <3>2, <3>3, <3>4, <3>5 DEF IInv
  <2> QED
    BY <2>3, <2>4
<1>6. ASSUME NEW r \in Replicas, Record(r) PROVE IInv'
  <2>1. CASE open[r] \in recorded
    BY <2>1, <1>6, RollbackKeeps DEF Record, Exit, database
  <2>2. CASE open[r] \notin recorded
    BY <2>2, <1>6 DEF Record, Goto, database, IInv, TypesHold, PcStates, SchemaMatches,
                AppliedInOrder, AppliedRecorded, OpenFirst, RecordHasOpen, ServingHasSchema
  <2> QED
    BY <2>1, <2>2
<1>7. ASSUME NEW r \in Replicas, Commit(r) PROVE IInv'
  <2>1. /\ pc[r] = "commit" /\ pc' = [pc EXCEPT ![r] = "migrate"]
        /\ TakeEffect(r) /\ open' = [open EXCEPT ![r] = 0]
        /\ applied' = [applied EXCEPT ![r] = @ \cup {open[r]}]
    BY <1>7 DEF Commit, Goto
  <2>2. /\ recorded' \in SUBSET MigrationIds
        /\ open' \in [Replicas -> 0..NumMigrations]
        /\ recorded \subseteq recorded' /\ tables \subseteq tables'
        /\ open[r] \in recorded'
        /\ SchemaMatches' /\ AppliedInOrder' /\ OpenFirst'
    BY <2>1, CommitKeeps
  <2>3. TypesHold' /\ AppliedRecorded'
    BY <2>1, <2>2 DEF IInv, TypesHold, PcStates, AppliedRecorded
  <2>4. RecordHasOpen' /\ ServingHasSchema'
    BY <2>1, <2>2 DEF IInv, TypesHold, RecordHasOpen, ServingHasSchema
  <2> QED
    BY <2>2, <2>3, <2>4 DEF IInv
<1>8. ASSUME NEW r \in Replicas, Serve(r) PROVE IInv'
  BY <1>8 DEF Serve, database, IInv, TypesHold, PcStates, SchemaMatches,
              AppliedInOrder, AppliedRecorded, OpenFirst, RecordHasOpen, ServingHasSchema
<1>9. ASSUME NEW r \in Replicas, Fails(r) PROVE IInv'
  <2>1. /\ pc' = [pc EXCEPT ![r] = "exited"] /\ open' = [open EXCEPT ![r] = 0]
        /\ UNCHANGED applied
    BY <1>9 DEF Fails, Exit
  <2>2. CASE UNCHANGED <<recorded, tables>>
    BY <2>1, <2>2, RollbackKeeps
  <2>3. CASE pc[r] = "commit" /\ TakeEffect(r)
    <3>1. /\ recorded' \in SUBSET MigrationIds
          /\ open' \in [Replicas -> 0..NumMigrations]
          /\ recorded \subseteq recorded' /\ tables \subseteq tables'
          /\ SchemaMatches' /\ AppliedInOrder' /\ OpenFirst'
      BY <2>1, <2>3, CommitKeeps
    <3>2. TypesHold' /\ AppliedRecorded' /\ RecordHasOpen' /\ ServingHasSchema'
      BY <2>1, <3>1 DEF IInv, TypesHold, PcStates, AppliedRecorded, RecordHasOpen,
                        ServingHasSchema
    <3> QED
      BY <3>1, <3>2 DEF IInv
  <2> QED
    BY <2>2, <2>3, <1>9 DEF Fails, database
<1>10. ASSUME NEW r \in Replicas, Crash(r) PROVE IInv'
  BY <1>10, RollbackKeeps DEF Crash, database
<1> QED
  BY <1>1, <1>2, <1>3, <1>4, <1>5, <1>6, <1>7, <1>8, <1>9, <1>10 DEF Next, MainStep

\* migrate: whoever wins, loses or dies where, a table exists exactly when
\* its migration is recorded, migrations are applied in order, and a replica
\* serves on the whole schema.
THEOREM StartupSafe == Spec => [](SchemaMatches /\ AppliedInOrder /\ ServingHasSchema)
<1>1. IInv => SchemaMatches /\ AppliedInOrder /\ ServingHasSchema
  BY DEF IInv
<1> QED
  BY <1>1, InitIInv, NextIInv, PTL DEF Spec
=============================================================================
