-------------------------- MODULE ApplicationProofs --------------------------
(***************************************************************************)
(* Proofs about Lifecycle, for any number of requests at a time; about     *)
(* Migrations, for any releases and any database; and about Application,   *)
(* for any number of starts, stops and crashes.                            *)
(***************************************************************************)
EXTENDS Application, FiniteSetTheorems, WellFoundedInduction, TLAPS

-----------------------------------------------------------------------------
\* The serving process.

\* The invariant holds when runLifecycle starts.
LEMMA InitInv == Init => IInv
<1> SUFFICES ASSUME Init PROVE IInv
  OBVIOUS
<1>1. TypeOK
  <2>1. inflight \in 0..MaxInflight
    BY InflightAssumption DEF Init
  <2> QED
    BY <2>1, Zenon DEF Init, TypeOK
<1>2. MainInv /\ WaitedInv /\ ServerInv /\ ReasonInv
  BY DEF Init, MainInv, WaitedInv, ServerInv, ReasonInv
<1> QED
  BY <1>1, <1>2 DEF IInv

\* Every step of main, the server, a request or the scheduler preserves it.
LEMMA StepInv == IInv /\ [Next]_vars => IInv'
<1> SUFFICES ASSUME IInv, [Next]_vars PROVE IInv'
  BY Zenon
<1> USE InflightAssumption
    DEF IInv, TypeOK, MainInv, WaitedInv, ServerInv, ReasonInv, mainVars, serverVars, workerVars
<1>1. CASE SelectStop
  <2>1. TypeOK'
    BY <1>1 DEF SelectStop, Leave
  <2>2. MainInv' /\ WaitedInv'
    BY <1>1 DEF SelectStop, Leave
  <2>3. ServerInv' /\ ReasonInv'
    BY <1>1 DEF SelectStop, Leave
  <2> QED
    BY <2>1, <2>2, <2>3, Zenon
<1>2. CASE SelectServer
  BY <1>2, Zenon DEF SelectServer, Leave
<1>3. CASE SelectWorker
  <2>1. TypeOK'
    BY <1>3, Zenon DEF SelectWorker, Leave
  <2>2. MainInv' /\ WaitedInv'
    BY <1>3, SMTT(60) DEF SelectWorker, Leave
  <2>3. ServerInv' /\ ReasonInv'
    BY <1>3, ZenonT(60) DEF SelectWorker, Leave
  <2> QED
    BY <2>1, <2>2, <2>3
<1>4. CASE Shutdown
  <2>1. TypeOK'
    BY <1>4, SMTT(60) DEF Shutdown
  <2>2. MainInv' /\ WaitedInv'
    BY <1>4, Zenon DEF Shutdown
  <2>3. ServerInv' /\ ReasonInv'
    BY <1>4, Zenon DEF Shutdown
  <2> QED
    BY <2>1, <2>2, <2>3
<1>5. CASE Drained
  BY <1>5, ZenonT(60) DEF Drained
<1>6. CASE DrainExpires
  BY <1>6, ZenonT(60) DEF DrainExpires, Expired
<1>7. CASE WaitServer
  <2>1. TypeOK'
    BY <1>7, ZenonT(60) DEF WaitServer, Expired, ServerError
  <2>2. MainInv' /\ WaitedInv'
    BY <1>7, Zenon DEF WaitServer, Expired, ServerError
  <2>3. ServerInv' /\ ReasonInv'
    BY <1>7, SMTT(60) DEF WaitServer, Expired, ServerError
  <2> QED
    BY <2>1, <2>2, <2>3
<1>8. CASE WaitWorker
  <2>1. TypeOK'
    BY <1>8, ZenonT(60) DEF WaitWorker, Expired
  <2>2. MainInv' /\ WaitedInv'
    BY <1>8 DEF WaitWorker, Expired
  <2>3. ServerInv' /\ ReasonInv'
    BY <1>8 DEF WaitWorker, Expired
  <2> QED
    BY <2>1, <2>2, <2>3
<1>9. CASE Expire
  BY <1>9 DEF Expire
<1>10. CASE Signal
  BY <1>10, SMTT(60) DEF Signal
<1>11. CASE ServerReturns
  BY <1>11, ZenonT(60), SMTT(60) DEF ServerReturns
<1>12. CASE ListenerFails
  BY <1>12, ZenonT(60), SMTT(60) DEF ListenerFails
<1>13. CASE Request
  BY <1>13, SMTT(60) DEF Request
<1>14. CASE RequestDone
  BY <1>14, SMTT(60) DEF RequestDone
<1>15. CASE Tick
  BY <1>15, SMTT(60) DEF Tick
<1>16. CASE StartTask
  <2>1. TypeOK'
    BY <1>16, ZenonT(60) DEF StartTask
  <2>2. MainInv' /\ WaitedInv'
    BY <1>16 DEF StartTask
  <2>3. ServerInv' /\ ReasonInv'
    BY <1>16 DEF StartTask
  <2> QED
    BY <2>1, <2>2, <2>3
<1>17. CASE WorkerStops
  <2>1. TypeOK'
    BY <1>17, ZenonT(60) DEF WorkerStops, RuntimeDone
  <2>2. MainInv' /\ WaitedInv'
    BY <1>17, Zenon DEF WorkerStops, RuntimeDone
  <2>3. ServerInv' /\ ReasonInv'
    BY <1>17, Zenon DEF WorkerStops, RuntimeDone
  <2> QED
    BY <2>1, <2>2, <2>3
<1>18. CASE TaskSucceeds
  BY <1>18, SMTT(60) DEF TaskSucceeds
<1>19. CASE TaskFails
  <2>1. TypeOK'
    BY <1>19, ZenonT(60) DEF TaskFails, AfterFailure, RuntimeDone
  <2>2. MainInv' /\ WaitedInv'
    BY <1>19, Zenon DEF TaskFails, AfterFailure, RuntimeDone
  <2>3. ServerInv' /\ ReasonInv'
    BY <1>19, Zenon DEF TaskFails, AfterFailure, RuntimeDone
  <2> QED
    BY <2>1, <2>2, <2>3
<1>20. CASE UNCHANGED vars
  BY <1>20 DEF vars
<1> HIDE DEF IInv
<1> QED
  BY <1>1, <1>2, <1>3, <1>4, <1>5, <1>6, <1>7, <1>8, <1>9, <1>10, <1>11, <1>12, <1>13,
     <1>14, <1>15, <1>16, <1>17, <1>18, <1>19, <1>20, ZenonT(60) DEF Next, Main

\* The invariant of runLifecycle, its HTTP server and its scheduler: main has
\* waited for everything it has passed, or has an error to return.
THEOREM Inductive == Spec => []IInv
  BY InitInv, StepInv, PTL DEF Spec

\* The variables of runLifecycle keep their types.
THEOREM TypeCorrect == Spec => []TypeOK
<1>1. IInv => TypeOK
  BY DEF IInv
<1> QED
  BY <1>1, Inductive, PTL

\* When runLifecycle returns nil, no request and no task uses the database
\* that app.Run closes next.
THEOREM NothingLeftRunning == Spec => []CleanExit
<1>1. IInv => CleanExit
  BY DEF IInv, TypeOK, MainInv, WaitedInv, ServerInv, CleanExit
<1> QED
  BY <1>1, Inductive, PTL

\* runLifecycle returns an error only after the deadline passed, the server
\* failed or the listener could not be closed.
THEOREM NoSpuriousError == Spec => []ErrorHasReason
<1>1. IInv => ErrorHasReason
  BY DEF IInv, ReasonInv, ErrorHasReason
<1> QED
  BY <1>1, Inductive, PTL

-----------------------------------------------------------------------------
\* The migrations.

\* A new file and a legacy database satisfy the invariant of the migrations.
LEMMA MigrationInitInv == MigrationInit => MigrationInv
<1> SUFFICES ASSUME MigrationInit PROVE MigrationInv
  OBVIOUS
<1> USE ReleasesAssumption, RowAssumption
<1>1. schema \in Seq(Content) /\ 1..Len(schema) \subseteq Versions
  <2>1. CASE schema = <<>>
    BY <2>1
  <2>2. CASE schema \in Legacy
    BY <2>2
  <2> QED
    BY <2>1, <2>2 DEF MigrationInit
<1>2. rows \in [Versions -> Content \cup {Blank, NoRow}]
  BY DEF MigrationInit
<1>3. MigrationType
  BY <1>1, <1>2 DEF MigrationInit, MigrationType
<1>4. RowInv
  <2> SUFFICES ASSUME NEW v \in Versions
               PROVE  /\ rows[v] # NoRow <=> v \in 1..Len(schema)
                      /\ rows[v] # NoRow /\ v > legacy => rows[v] = schema[v]
    BY DEF RowInv
  <2>1. rows[v] # NoRow <=> v \in 1..Len(schema)
    BY DEF MigrationInit
  <2> QED
    BY <1>1, <2>1 DEF MigrationInit
<1>5. LoopInv /\ (schema # <<>> => table # "absent")
  BY DEF MigrationInit, LoopInv
<1> QED
  BY <1>1, <1>3, <1>4, <1>5, SMTT(60) DEF MigrationInv

\* rejectUnknownMigrations lets only a release pass that knows all the migrations.
LEMMA KnownFits ==
  ASSUME MigrationInv, RejectUnknown, step' = "create" PROVE Len(schema) <= Len(release)
<1> USE ReleasesAssumption
<1>1. ~Unknown
  BY DEF RejectUnknown
<1>2. CASE schema = <<>>
  BY <1>2 DEF MigrationInv, MigrationType
<1>3. CASE schema # <<>>
  <2>1. Len(schema) \in 1..Len(schema)
    BY <1>3 DEF MigrationInv, MigrationType
  <2>2. rows[Len(schema)] # NoRow
    BY <2>1 DEF MigrationInv, RowInv
  <2> QED
    BY <1>1, <1>3, <2>1, <2>2 DEF Unknown, MigrationInv, MigrationType
<1> QED
  BY <1>2, <1>3

\* The step of an applied migration keeps rows and schema in agreement.
LEMMA VerifyInv == MigrationInv /\ Verify => MigrationInv'
<1> SUFFICES ASSUME MigrationInv, Verify PROVE MigrationInv'
  OBVIOUS
<1> USE ReleasesAssumption, RowAssumption
<1>1. release \in Seq(Content) /\ schema \in Seq(Content) /\ version \in 1..Len(release)
  BY DEF MigrationInv, MigrationType, Verify
<1>2. version \in Versions /\ release[version] \in Content
  BY <1>1 DEF MigrationInv, MigrationType
<1>3. version \in 1..Len(schema)
  BY <1>2 DEF MigrationInv, RowInv, Verify
<1>4. CASE Mismatch
  BY <1>4, Zenon DEF MigrationInv, MigrationType, RowInv, LoopInv, Verify
<1>5. CASE ~Mismatch
  <2>1. /\ rows' = [rows EXCEPT ![version] = IF @ = Blank THEN release[version] ELSE @]
        /\ version' = version + 1
        /\ UNCHANGED <<step, table, schema, legacy, release>>
    BY <1>5 DEF Verify
  <2>2. rows[version] \in {Blank, release[version]}
    BY <1>5 DEF Mismatch
  <2>3. rows' \in [Versions -> Content \cup {Blank, NoRow}]
    BY <1>2, <2>1 DEF MigrationInv, MigrationType
  <2>4. version > legacy => schema[version] = release[version]
    <3> SUFFICES ASSUME version > legacy PROVE schema[version] = release[version]
      OBVIOUS
    <3>1. rows[version] = schema[version]
      BY <1>2 DEF MigrationInv, RowInv, Verify
    <3>2. schema[version] \in Content
      BY <1>1, <1>3
    <3> QED
      BY <2>2, <3>1, <3>2
  <2>5. rows'[version] = release[version] /\ \A v \in Versions : v # version => rows'[v] = rows[v]
    BY <1>2, <2>1, <2>2, SMTT(60) DEF MigrationInv, MigrationType
  <2>6. MigrationType'
    BY <2>1, <2>3 DEF MigrationInv, MigrationType
  <2>7. RowInv'
    <3> SUFFICES ASSUME NEW v \in Versions
                 PROVE  /\ rows'[v] # NoRow <=> v \in 1..Len(schema)
                        /\ rows'[v] # NoRow /\ v > legacy => rows'[v] = schema[v]
      BY <2>1 DEF RowInv
    <3>1. CASE v = version
      BY <1>2, <1>3, <2>4, <2>5, <3>1, SMTT(60)
    <3>2. CASE v # version
      BY <2>5, <3>2, Zenon DEF MigrationInv, RowInv
    <3> QED
      BY <3>1, <3>2, SMTT(60)
  <2>8. LoopInv'
    <3>1. \A v \in Versions : v \in 1..version => v <= Len(schema) /\ (v > legacy => schema[v] = release[v])
      <4> SUFFICES ASSUME NEW v \in Versions, v \in 1..version
                   PROVE  v <= Len(schema) /\ (v > legacy => schema[v] = release[v])
        OBVIOUS
      <4>1. CASE v = version
        BY <1>1, <1>3, <2>4, <4>1, SMTT(60)
      <4>2. CASE v # version
        <5>1. v \in 1..(version - 1)
          BY <1>1, <4>2
        <5> QED
          BY <5>1 DEF MigrationInv, LoopInv, Verify
      <4> QED
        BY <4>1, <4>2, SMTT(60)
    <3>2. version' - 1 = version
      BY <1>1, <2>1, SMTT(60)
    <3>3. step = "apply" /\ table = "checksums" /\ Len(schema) <= Len(release)
      BY DEF Verify, MigrationInv, LoopInv
    <3> QED
      BY <2>1, <3>1, <3>2, <3>3, SMTT(60) DEF LoopInv
  <2> QED
    BY <2>1, <2>6, <2>7, <2>8, SMTT(60) DEF MigrationInv
<1> QED
  BY <1>4, <1>5

\* A migration that is applied extends rows and schema alike.
LEMMA ApplyInv == MigrationInv /\ ApplyMigration => MigrationInv'
<1> SUFFICES ASSUME MigrationInv, ApplyMigration PROVE MigrationInv'
  OBVIOUS
<1> USE ReleasesAssumption, RowAssumption
<1>1. release \in Seq(Content) /\ schema \in Seq(Content) /\ version \in 1..Len(release)
  BY DEF MigrationInv, MigrationType, ApplyMigration
<1>2. version \in Versions /\ release[version] \in Content
  BY <1>1 DEF MigrationInv, MigrationType
<1>3. /\ schema' = Append(schema, release[version])
      /\ rows' = [rows EXCEPT ![version] = release[version]]
      /\ version' = version + 1
      /\ UNCHANGED <<step, table, legacy, release>>
  BY DEF ApplyMigration
\* The migrations before this one are there, and this one is not.
<1>4. version = Len(schema) + 1
  <2>1. version \notin 1..Len(schema)
    BY <1>2 DEF MigrationInv, RowInv, ApplyMigration
  <2>2. version > 1 => version - 1 <= Len(schema)
    <3> SUFFICES ASSUME version > 1 PROVE version - 1 <= Len(schema)
      OBVIOUS
    <3>1. version - 1 \in 1..Len(release) /\ version - 1 \in 1..(version - 1)
      BY <1>1
    <3>2. version - 1 \in Versions
      BY <3>1, Zenon DEF MigrationInv, MigrationType
    <3> QED
      BY <3>1, <3>2 DEF MigrationInv, LoopInv, ApplyMigration
  <2> QED
    BY <1>1, <2>1, <2>2, SMTT(60)
<1>5. /\ schema' \in Seq(Content) /\ Len(schema') = version
      /\ \A v \in 1..Len(schema) : schema'[v] = schema[v]
      /\ schema'[version] = release[version]
  BY <1>1, <1>2, <1>3, <1>4
<1>6. /\ rows' \in [Versions -> Content \cup {Blank, NoRow}]
      /\ rows'[version] = release[version]
      /\ \A v \in Versions : v # version => rows'[v] = rows[v]
  BY <1>2, <1>3, Zenon DEF MigrationInv, MigrationType
<1>7. MigrationType'
  BY <1>3, <1>5, <1>6, SMTT(60) DEF MigrationInv, MigrationType
<1>8. RowInv'
  <2> SUFFICES ASSUME NEW v \in Versions
               PROVE  /\ rows'[v] # NoRow <=> v \in 1..Len(schema')
                      /\ rows'[v] # NoRow /\ v > legacy => rows'[v] = schema'[v]
    BY <1>3 DEF RowInv
  <2>1. CASE v = version
    BY <1>1, <1>2, <1>5, <1>6, <2>1, SMTT(60)
  <2>2. CASE v # version
    <3>1. v \in 1..Len(schema') <=> v \in 1..Len(schema)
      BY <1>1, <1>4, <1>5, <2>2, SMTT(60)
    <3> QED
      BY <1>5, <1>6, <2>2, <3>1, SMTT(60) DEF MigrationInv, RowInv
  <2> QED
    BY <2>1, <2>2
<1>9. LoopInv'
  <2>1. \A v \in Versions : v \in 1..version => v <= Len(schema') /\ (v > legacy => schema'[v] = release[v])
    <3> SUFFICES ASSUME NEW v \in Versions, v \in 1..version
                 PROVE  v <= Len(schema') /\ (v > legacy => schema'[v] = release[v])
      OBVIOUS
    <3>1. CASE v = version
      BY <1>1, <1>5, <3>1, SMTT(60)
    <3>2. CASE v # version
      <4>1. v \in 1..(version - 1) /\ v \in 1..Len(schema)
        BY <1>1, <1>4, <3>2, SMTT(60)
      <4>2. v > legacy => schema[v] = release[v]
        BY <4>1 DEF MigrationInv, LoopInv, ApplyMigration
      <4> QED
        BY <1>1, <1>5, <4>1, <4>2, SMTT(60)
    <3> QED
      BY <3>1, <3>2
  <2>2. version' - 1 = version
    BY <1>1, <1>3, SMTT(60)
  <2>3. step = "apply" /\ table = "checksums" /\ Len(schema') <= Len(release)
    BY <1>1, <1>5, SMTT(60) DEF ApplyMigration, MigrationInv, LoopInv
  <2> QED
    BY <1>3, <2>1, <2>2, <2>3, SMTT(60) DEF LoopInv
<1>10. 1..Len(schema') \subseteq Versions
  BY <1>1, <1>2, <1>4, <1>5, SMTT(60) DEF MigrationInv
<1>11. table' # "absent"
  <2>1. table = "checksums"
    BY DEF MigrationInv, LoopInv, ApplyMigration
  <2> QED
    BY <1>3, <2>1, SMTT(60)
<1> QED
  BY <1>7, <1>8, <1>9, <1>10, <1>11, Zenon DEF MigrationInv

\* Every step of Open, Migrate and Close preserves the invariant.
LEMMA MigrationStepInv == MigrationInv /\ [MigrationNext]_migrationVars => MigrationInv'
<1> SUFFICES ASSUME MigrationInv, [MigrationNext]_migrationVars PROVE MigrationInv'
  OBVIOUS
<1> USE DEF database
<1>1. ASSUME NEW r \in Releases, Open(r) PROVE MigrationInv'
  BY <1>1, SMTT(60) DEF Open, MigrationInv, MigrationType, RowInv, LoopInv
<1>2. CASE RejectUnknown
  <2>1. step' = "create" => Len(schema) <= Len(release)
    BY <1>2, KnownFits, SMTT(60)
  <2> QED
    BY <1>2, <2>1 DEF RejectUnknown, MigrationInv, MigrationType, RowInv, LoopInv
<1>3. CASE CreateTable
  BY <1>3, SMTT(60) DEF CreateTable, MigrationInv, MigrationType, RowInv, LoopInv
<1>4. CASE AddColumn
  BY <1>4 DEF AddColumn, MigrationInv, MigrationType, RowInv, LoopInv
<1>5. CASE Verify
  BY <1>5, VerifyInv
<1>6. CASE ApplyMigration
  BY <1>6, ApplyInv, SMTT(60)
<1>7. CASE Migrated
  BY <1>7, SMTT(60) DEF Migrated, MigrationInv, MigrationType, RowInv, LoopInv
<1>8. CASE MigrateFails
  BY <1>8, Zenon DEF MigrateFails, MigrationInv, MigrationType, RowInv, LoopInv
<1>9. CASE Close
  BY <1>9 DEF Close, MigrationInv, MigrationType, RowInv, LoopInv
<1>10. CASE UNCHANGED migrationVars
  BY <1>10, ZenonT(60) DEF migrationVars, MigrationInv, MigrationType, RowInv, LoopInv
<1> QED
  BY <1>1, <1>2, <1>3, <1>4, <1>5, <1>6, <1>7, <1>8, <1>9, <1>10, ZenonT(60) DEF MigrationNext, Migrate

\* The invariant of the migrations.
THEOREM MigrationsInductive == MigrationSpec => []MigrationInv
  BY MigrationInitInv, MigrationStepInv, PTL DEF MigrationSpec

\* The invariant says of an open database that it has the schema of its release.
LEMMA OpenSchema == MigrationInv => OpenHasOwnSchema
<1> SUFFICES ASSUME MigrationInv, step = "open"
             PROVE  /\ Len(schema) = Len(release)
                    /\ \A v \in 1..Len(schema) : v > legacy => schema[v] = release[v]
  BY DEF OpenHasOwnSchema
<1> USE ReleasesAssumption
<1>1. /\ schema \in Seq(Content) /\ release \in Seq(Content) /\ release \in Releases
      /\ version \in Nat /\ version > Len(release) /\ Len(schema) <= Len(release)
  BY DEF MigrationInv, MigrationType, LoopInv
<1>2. \A v \in 1..Len(release) : v <= Len(schema) /\ (v > legacy => schema[v] = release[v])
  <2> SUFFICES ASSUME NEW v \in 1..Len(release)
               PROVE  v <= Len(schema) /\ (v > legacy => schema[v] = release[v])
    OBVIOUS
  <2>1. v \in Versions /\ v \in 1..(version - 1)
    BY <1>1
  <2> QED
    BY <2>1 DEF MigrationInv, LoopInv
<1>3. Len(schema) = Len(release)
  <2>1. CASE Len(release) = 0
    BY <1>1, <2>1
  <2>2. CASE Len(release) # 0
    <3>1. Len(release) \in 1..Len(release)
      BY <1>1, <2>2
    <3> QED
      BY <1>1, <1>2, <3>1
  <2> QED
    BY <2>1, <2>2
<1> QED
  BY <1>2, <1>3

\* Only the steps behind rejectUnknownMigrations write, and there the release
\* knows every migration of the database.
THEOREM OlderReleases == MigrationSpec => OlderReleaseWritesNothing
<1>1. MigrationInv /\ [MigrationNext]_migrationVars
        => [Len(schema) > Len(release) => UNCHANGED database]_migrationVars
  <2> SUFFICES ASSUME MigrationInv, MigrationNext, Len(schema) > Len(release)
               PROVE  UNCHANGED database
    BY Zenon DEF migrationVars
  <2>1. step \notin {"create", "alter", "apply"}
    <3>1. Len(schema) \in Nat /\ Len(release) \in Nat
      BY ReleasesAssumption DEF MigrationInv, MigrationType
    <3> QED
      BY <3>1 DEF MigrationInv, LoopInv
  <2> QED
    BY <2>1, Zenon DEF MigrationNext, Migrate, Open, RejectUnknown, CreateTable, AddColumn, Verify,
       ApplyMigration, Migrated, MigrateFails, Close
<1> QED
  BY <1>1, MigrationsInductive, PTL DEF MigrationSpec, OlderReleaseWritesNothing

-----------------------------------------------------------------------------
\* The application.

\* app.Run uses the database as Migrations says: it opens it first, and closes
\* it last, wherever it is interrupted.
LEMMA AppMigrates == AppSpec => MigrationSpec
<1>1. AppInit => MigrationInit
  BY DEF AppInit
<1>2. [AppNext]_appVars => [MigrationNext]_migrationVars
  <2> SUFFICES ASSUME [AppNext]_appVars PROVE MigrationNext \/ UNCHANGED migrationVars
    OBVIOUS
  <2>1. CASE Launch \/ OpenDatabase
    BY <2>1, Zenon DEF Launch, OpenDatabase, MigrationNext
  <2>2. ASSUME NEW how, End(how) PROVE MigrationNext
    BY <2>2, Zenon DEF End, MigrationNext
  <2>3. CASE OpenFails \/ BuildFails \/ RefreshFails \/ PrepareFails \/ Return \/ Kill
    BY <2>2, <2>3, Zenon DEF OpenFails, BuildFails, RefreshFails, PrepareFails, Return, Kill
  <2>4. CASE StartupRefresh
    BY <2>2, <2>4, Zenon DEF StartupRefresh
  <2>5. CASE BuildServices \/ PrepareServer \/ Running(Next) \/ Interrupt
    BY <2>5, Zenon DEF BuildServices, PrepareServer, Running, Interrupt
  <2>6. CASE UNCHANGED appVars
    BY <2>6, Zenon DEF appVars
  <2> QED
    BY <2>1, <2>3, <2>4, <2>5, <2>6, Zenon DEF AppNext, Startup
<1> QED
  BY <1>1, <1>2, PTL DEF AppSpec, MigrationSpec

\* Whatever releases an operator starts, and wherever each is stopped, the
\* program that runs has the schema that it was written for.
THEOREM RunsOnOwnSchema == AppSpec => []OpenHasOwnSchema
  BY AppMigrates, MigrationsInductive, OpenSchema, PTL

\* A new process starts as runLifecycle expects.
LEMMA FreshInv == Fresh /\ exit' = "none" => AppInv'
<1> SUFFICES ASSUME Fresh, exit' = "none" PROVE AppInv'
  OBVIOUS
<1>1. TypeOK'
  <2>1. inflight' \in 0..MaxInflight
    BY InflightAssumption DEF Fresh
  <2> QED
    BY <2>1, Zenon DEF Fresh, TypeOK
<1>2. MainInv' /\ WaitedInv' /\ ServerInv' /\ ReasonInv'
  BY DEF Fresh, MainInv, WaitedInv, ServerInv, ReasonInv
<1>3. AskedInv' /\ NilMeansAsked'
  BY DEF Fresh, AskedInv, NilMeansAsked
<1> QED
  BY <1>1, <1>2, <1>3 DEF AppInv, IInv

\* app.Run ends with the state of runLifecycle as it is.
LEMMA EndInv ==
  ASSUME AppInv, NEW how, End(how), how = "nil" => stop PROVE AppInv'
<1>1. UNCHANGED vars /\ exit' = how
  BY DEF End
<1>2. IInv'
  BY <1>1, StepInv DEF AppInv
<1>3. AskedInv' /\ NilMeansAsked'
  BY <1>1 DEF vars, AppInv, AskedInv, NilMeansAsked
<1> QED
  BY <1>2, <1>3 DEF AppInv

\* The steps of runLifecycle keep the reason for which its select was left.
LEMMA AskedStep == IInv /\ AskedInv /\ Next => AskedInv' /\ (stop => stop')
<1> SUFFICES ASSUME IInv, AskedInv, Next PROVE AskedInv' /\ (stop => stop')
  BY SMTT(60)
<1> USE DEF AskedInv, mainVars, serverVars, workerVars
<1>1. CASE SelectStop \/ SelectServer \/ SelectWorker
  BY <1>1 DEF SelectStop, SelectServer, SelectWorker, Leave
<1>2. CASE Shutdown \/ Drained \/ DrainExpires \/ WaitServer \/ WaitWorker
  BY <1>2, ZenonT(60) DEF Shutdown, Drained, DrainExpires, WaitServer, WaitWorker
<1>3. CASE Expire \/ ServerReturns \/ ListenerFails \/ Request \/ RequestDone \/ Tick
  BY <1>3 DEF Expire, ServerReturns, ListenerFails, Request, RequestDone, Tick
<1>4. CASE Signal
  BY <1>4, Zenon DEF Signal
<1>5. CASE StartTask \/ WorkerStops \/ TaskSucceeds \/ TaskFails
  BY <1>5 DEF StartTask, WorkerStops, TaskSucceeds, TaskFails, AfterFailure, RuntimeDone
<1> QED
  BY <1>1, <1>2, <1>3, <1>4, <1>5, Zenon DEF Next, Main

\* Every step of the application preserves its invariant.
LEMMA AppStepInv == AppInv /\ [AppNext]_appVars => AppInv'
<1> SUFFICES ASSUME AppInv, [AppNext]_appVars PROVE AppInv'
  OBVIOUS
<1>1. ASSUME UNCHANGED vars, UNCHANGED exit PROVE AppInv'
  <2>1. IInv'
    BY <1>1, StepInv DEF AppInv
  <2>2. AskedInv' /\ NilMeansAsked'
    BY <1>1, Zenon DEF vars, AppInv, AskedInv, NilMeansAsked
  <2> QED
    BY <2>1, <2>2 DEF AppInv
<1>2. ASSUME Next, UNCHANGED exit PROVE AppInv'
  <2>1. IInv'
    BY <1>2, StepInv DEF AppInv
  <2>2. AskedInv' /\ NilMeansAsked'
    BY <1>2, AskedStep, Zenon DEF AppInv, NilMeansAsked
  <2> QED
    BY <2>1, <2>2 DEF AppInv
<1>3. CASE Launch
  BY <1>3, FreshInv DEF Launch
<1>4. CASE OpenDatabase \/ BuildServices \/ PrepareServer
  BY <1>1, <1>4, Zenon DEF OpenDatabase, BuildServices, PrepareServer
<1>5. CASE OpenFails \/ BuildFails \/ Kill
  BY <1>5, EndInv DEF OpenFails, BuildFails, Kill
<1>6. CASE StartupRefresh
  BY <1>1, <1>6, EndInv, Zenon DEF StartupRefresh
<1>7. CASE RefreshFails \/ PrepareFails
  <2>1. PICK how \in RefreshError : End(how)
    BY <1>7, Zenon DEF RefreshFails, PrepareFails
  <2>2. how = "nil" => stop
    BY DEF RefreshError
  <2> QED
    BY <2>1, <2>2, EndInv
<1>8. CASE Running(Next)
  BY <1>2, <1>8, Zenon DEF Running
<1>9. CASE Return
  <2>1. main = "returned" /\ End(IF failure THEN "error" ELSE "nil")
    BY <1>9, Zenon DEF Return
  <2>2. ~failure => cause \in {"stop", "worker"}
    BY <2>1 DEF AppInv, IInv, TypeOK, MainInv
  <2>3. ~failure => stop
    BY <2>2 DEF AppInv, AskedInv
  <2>4. (IF failure THEN "error" ELSE "nil") = "nil" => stop
    BY <2>3
  <2> QED
    BY <2>1, <2>4, EndInv, Zenon
<1>10. CASE Interrupt
  BY <1>2, <1>10, Zenon DEF Interrupt, Next
<1>11. CASE UNCHANGED appVars
  BY <1>1, <1>11, Zenon DEF appVars
<1> QED
  BY <1>3, <1>4, <1>5, <1>6, <1>7, <1>8, <1>9, <1>10, <1>11, Zenon DEF AppNext, Startup

\* The invariant of app.Run over all lives of the process.
THEOREM AppInductive == AppSpec => []AppInv
<1>1. AppInit => AppInv
  <2> SUFFICES ASSUME AppInit PROVE AppInv
    OBVIOUS
  <2>1. IInv
    BY InitInv DEF AppInit
  <2>2. AskedInv /\ NilMeansAsked
    BY DEF AppInit, Init, AskedInv, NilMeansAsked
  <2> QED
    BY <2>1, <2>2 DEF AppInv
<1> QED
  BY <1>1, AppStepInv, PTL DEF AppSpec

\* app.Run returns nil only when it was asked to stop.
THEOREM NilIsHonest == AppSpec => []NilMeansAsked
<1>1. AppInv => NilMeansAsked
  BY SMTT(60) DEF AppInv
<1> QED
  BY <1>1, AppInductive, PTL

\* In every life of the process, a nil result of runLifecycle means that nothing
\* uses the database that app.Run closes.
THEOREM AppEndsCleanly == AppSpec => []CleanExit
<1>1. AppInv => CleanExit
  BY DEF AppInv, IInv, TypeOK, MainInv, WaitedInv, ServerInv, CleanExit
<1> QED
  BY <1>1, AppInductive, PTL

\* In every life of the process, an error of runLifecycle has a reason.
THEOREM AppErrors == AppSpec => []ErrorHasReason
<1>1. AppInv => ErrorHasReason
  BY DEF AppInv, IInv, ReasonInv, ErrorHasReason
<1> QED
  BY <1>1, AppInductive, PTL

-----------------------------------------------------------------------------
\* The operational history.

\* A smaller set of newer events leaves room for an event in the history.
LEMMA FewerNewer ==
  ASSUME NEW S, IsFiniteSet(S), NEW T \in SUBSET S, Cardinality(S) < Retention
  PROVE  Cardinality(T) < Retention
<1>1. Cardinality(S) \in Nat /\ Cardinality(T) \in Nat /\ Cardinality(T) <= Cardinality(S)
  BY FS_Subset, FS_CardinalityType
<1> QED
  BY <1>1, RetentionAssumption

\* Of a finite set of events that were pruned, one has no newer one in the set.
LEMMA NewestOf ==
  ASSUME NEW E \in SUBSET Event, IsFiniteSet(E), NEW D \in SUBSET E, D # {}
  PROVE  \E y \in D : \A z \in D : ~Newer(z, y)
<1> DEFINE Above(y) == {f \in E : Newer(f, y)}
           Ranks == {Cardinality(Above(y)) : y \in D}
<1>1. \A y \in D : IsFiniteSet(Above(y)) /\ Cardinality(Above(y)) \in Nat
  <2> SUFFICES ASSUME NEW y \in D PROVE IsFiniteSet(Above(y)) /\ Cardinality(Above(y)) \in Nat
    OBVIOUS
  <2>1. Above(y) \in SUBSET E
    OBVIOUS
  <2> HIDE DEF Above
  <2>2. IsFiniteSet(Above(y))
    BY <2>1, FS_Subset, Zenon
  <2> QED
    BY <2>2, FS_CardinalityType, Zenon
<1>2. Ranks \subseteq Nat /\ Ranks # {}
  BY <1>1, Zenon
<1>3. PICK n \in Ranks : \A m \in Ranks : ~(<<m, n>> \in OpToRel(<, Nat))
  <2> HIDE DEF Ranks
  <2> QED
    BY <1>2, WFMin, NatLessThanWellFounded, Zenon
<1>4. PICK y \in D : n = Cardinality(Above(y))
  BY Zenon
<1>5. ASSUME NEW z \in D, Newer(z, y) PROVE FALSE
  <2>1. z \in Event /\ y \in Event /\ E \subseteq Event
    OBVIOUS
  <2>2. Above(z) \in SUBSET Above(y)
    BY <1>5, <2>1 DEF Newer, Event
  <2>3. z \in Above(y) /\ z \notin Above(z)
    BY <1>5, <2>1, SMTT(60) DEF Newer, Event
  <2>4. Cardinality(Above(z)) < Cardinality(Above(y))
    <3>1. IsFiniteSet(Above(y)) /\ Cardinality(Above(z)) \in Nat /\ Cardinality(Above(y)) \in Nat
      BY <1>1, Zenon
    <3> HIDE DEF Above
    <3>2. Above(z) # Above(y)
      BY <2>3, Zenon
    <3>3. Cardinality(Above(z)) <= Cardinality(Above(y)) /\ Cardinality(Above(z)) # Cardinality(Above(y))
      BY <2>2, <3>1, <3>2, FS_Subset, Zenon
    <3> QED
      BY <3>1, <3>3
  <2>5. Cardinality(Above(z)) \in Ranks
    BY Zenon
  <2>6. Cardinality(Above(z)) \in Nat /\ n \in Nat /\ Cardinality(Above(z)) < n
    BY <1>1, <1>2, <1>4, <2>4, Zenon
  <2> HIDE DEF Above, Ranks
  <2>7. <<Cardinality(Above(z)), n>> \in OpToRel(<, Nat)
    BY <2>6 DEF OpToRel
  <2> QED
    BY <1>3, <2>5, <2>7, Zenon
<1> QED
  BY <1>5, Zenon

\* What was pruned before makes no difference: pruning as it goes leaves what
\* pruning all the events at once would.
LEMMA PruneIsExact ==
  ASSUME NEW E \in SUBSET Event, IsFiniteSet(E), NEW e \in Event
  PROVE  Newest(Newest(E) \cup {e}) = Newest(E \cup {e})
<1> DEFINE K == Newest(E)
           Above(S, x) == {f \in S : Newer(f, x)}
<1>1. K \in SUBSET E /\ IsFiniteSet(E \cup {e})
  BY FS_AddElement, Zenon DEF Newest
<1>2. \A x : Above(K \cup {e}, x) \in SUBSET Above(E \cup {e}, x)
             /\ Above(E, x) \in SUBSET Above(E \cup {e}, x)
  BY <1>1
<1>3. \A x : IsFiniteSet(Above(E \cup {e}, x)) /\ IsFiniteSet(Above(E, x))
  <2> SUFFICES ASSUME NEW x PROVE IsFiniteSet(Above(E \cup {e}, x)) /\ IsFiniteSet(Above(E, x))
    OBVIOUS
  <2>1. Above(E \cup {e}, x) \in SUBSET (E \cup {e}) /\ Above(E, x) \in SUBSET E
    OBVIOUS
  <2> HIDE DEF Above, K
  <2> QED
    BY <1>1, <2>1, FS_Subset, Zenon
<1>4. ASSUME NEW x \in E \cup {e}, Cardinality(Above(E \cup {e}, x)) < Retention
      PROVE  x \in K \cup {e} /\ Cardinality(Above(K \cup {e}, x)) < Retention
  <2>1. Cardinality(Above(K \cup {e}, x)) < Retention /\ Cardinality(Above(E, x)) < Retention
    <3> HIDE DEF Above, K
    <3> QED
      BY <1>2, <1>3, <1>4, FewerNewer, Zenon
  <2>2. x \in E => x \in K
    BY <2>1, Zenon DEF Newest
  <2> QED
    BY <2>1, <2>2, Zenon
<1>5. ASSUME NEW x \in K \cup {e}, Cardinality(Above(K \cup {e}, x)) < Retention
      PROVE  Cardinality(Above(E \cup {e}, x)) < Retention
  <2> DEFINE D == {y \in E : y \notin K /\ Newer(y, x)}
  <2>1. CASE D = {}
    <3>1. Above(E \cup {e}, x) = Above(K \cup {e}, x)
      <4>1. \A f \in E : Newer(f, x) => f \in K
        BY <2>1, Zenon
      <4> HIDE DEF K
      <4> QED
        BY <1>1, <4>1
    <3> QED
      BY <1>5, <3>1, Zenon
  <2>2. CASE D # {}
    <3>1. PICK y \in D : \A z \in D : ~Newer(z, y)
      <4>1. D \in SUBSET E
        OBVIOUS
      <4> HIDE DEF D
      <4> QED
        BY <2>2, <4>1, NewestOf, Zenon
    <3>2. y \in E /\ y \notin K /\ Newer(y, x) /\ x \in Event /\ y \in Event
      BY <1>1, Zenon
    <3>3. ~(Cardinality(Above(E, y)) < Retention)
      BY <3>2, Zenon DEF Newest
    \* Whatever is newer than the newest that was pruned is kept.
    <3>4. ASSUME NEW f \in Above(E, y) PROVE f \in Above(K \cup {e}, x)
      <4>1. f \in E /\ f \in Event /\ Newer(f, y)
        BY Zenon
      <4>2. Newer(f, x)
        BY <3>2, <4>1 DEF Newer, Event
      <4>3. f \in K
        BY <3>1, <4>1, <4>2, Zenon
      <4> QED
        BY <4>2, <4>3, Zenon
    <3>5. Above(E, y) \in SUBSET Above(K \cup {e}, x)
      BY <3>4, Zenon
    <3>6. IsFiniteSet(Above(K \cup {e}, x))
      <4> HIDE DEF Above, K
      <4> QED
        BY <1>2, <1>3, FS_Subset, Zenon
    <3>7. Cardinality(Above(E, y)) < Retention
      <4> HIDE DEF Above, K
      <4> QED
        BY <1>5, <3>5, <3>6, FewerNewer, Zenon
    <3> QED
      BY <3>3, <3>7, Zenon
  <2> QED
    BY <2>1, <2>2, Zenon
<1>6. \A x : x \in Newest(K \cup {e}) <=> x \in Newest(E \cup {e})
  BY <1>1, <1>4, <1>5, Zenon DEF Newest
<1> QED
  BY <1>6, Zenon

\* An append preserves the invariant of the history.
LEMMA CommitInv == ASSUME LogInv, NEW at \in Nat, Commit(at) PROVE LogInv'
<1> DEFINE e == [id |-> lastId + 1, at |-> at]
<1>1. lastId' = lastId + 1 /\ log' = Newest(log \cup {e}) /\ ever' = ever \cup {e}
  BY DEF Commit
<1>2. lastId' \in Nat /\ e \in Event
  BY <1>1 DEF LogInv, Event
<1> HIDE DEF e
<1>3. ever' \in SUBSET Event /\ IsFiniteSet(ever')
  BY <1>1, <1>2, FS_AddElement, Zenon DEF LogInv
<1>4. log' = Newest(ever \cup {e})
  BY <1>1, <1>2, PruneIsExact, Zenon DEF LogInv
<1>5. log' = Newest(ever')
  BY <1>1, <1>4, Zenon
<1>6. log' = Newest(ever)'
  BY <1>5, Zenon DEF Newest
<1> QED
  BY <1>2, <1>3, <1>6, Zenon DEF LogInv

\* For every retention, and over restarts: the operational history consists of
\* the most recent of all the reconciliations that were ever recorded.
THEOREM HistoryIsExact == AppSpec => []KeepsTheNewest
<1>1. AppInit => LogInv
  <2> SUFFICES ASSUME LogInit PROVE LogInv
    BY DEF AppInit
  <2>1. IsFiniteSet(ever)
    BY FS_EmptySet, Zenon DEF LogInit
  <2> QED
    BY <2>1 DEF LogInit, LogInv, Newest
<1>2. LogInv /\ [AppNext]_appVars => LogInv'
  <2> SUFFICES ASSUME LogInv, [AppNext]_appVars PROVE LogInv'
    OBVIOUS
  <2>1. ASSUME UNCHANGED logVars PROVE LogInv'
    BY <2>1, Zenon DEF logVars, LogInv, Newest
  <2>2. ASSUME NEW done, Record(done) PROVE LogInv'
    <3>1. ASSUME NEW at \in Times, Commit(at) PROVE LogInv'
      BY <3>1, CommitInv, TimesAssumption, Zenon
    <3> QED
      BY <2>1, <2>2, <3>1, Zenon DEF Record
  <2>3. CASE StartupRefresh \/ RefreshFails
    BY <2>2, <2>3, Zenon DEF StartupRefresh, RefreshFails
  <2>4. CASE Running(Next)
    BY <2>1, <2>2, <2>4, Zenon DEF Running
  <2>5. CASE Launch \/ OpenDatabase \/ OpenFails \/ BuildServices \/ BuildFails
    BY <2>1, <2>5, Zenon DEF Launch, OpenDatabase, OpenFails, BuildServices, BuildFails
  <2>6. CASE PrepareServer \/ PrepareFails \/ Return \/ Interrupt \/ Kill
    BY <2>1, <2>6, Zenon DEF PrepareServer, PrepareFails, Return, Interrupt, Kill
  <2>7. CASE UNCHANGED appVars
    BY <2>1, <2>7, Zenon DEF appVars
  <2> QED
    BY <2>3, <2>4, <2>5, <2>6, <2>7, Zenon DEF AppNext, Startup
<1>3. LogInv => KeepsTheNewest
  BY Zenon DEF LogInv, Newest, KeepsTheNewest
<1> QED
  BY <1>1, <1>2, <1>3, PTL DEF AppSpec

==============================================================================
