------------------------------ MODULE OpsProofs ------------------------------
(***************************************************************************)
(* What picpak-ops promises for every value of the constants: the flash    *)
(* jobs, the OTA pane, the telemetry pane, the console, the shell, the     *)
(* host registry and the log pane, each from the inductive invariant of    *)
(* its module.                                                             *)
(***************************************************************************)
EXTENDS Flash, OpsOta, FleetPane, Console, Shell, Hosts, LogTail, FiniteSetTheorems, FunctionTheorems,
        WellFoundedInduction, TLAPS

----------------------------------------------------------------------------
(* Flash jobs (FlInv).                                                     *)

Active == {"validate", "stage", "confirm", "flash", "running"}
Inactive == {"none", "ended", "cleared", "out"}

LEMMA IdleFacts ==
  ASSUME NEW t \in Port, NEW s \in {"lock", "ended"}
  PROVE  /\ Idle \in JobState /\ Idle.pc = "none"
         /\ [Idle EXCEPT !.t = t, !.pc = s] \in JobState
         /\ [Idle EXCEPT !.t = t, !.pc = s].t = t /\ [Idle EXCEPT !.t = t, !.pc = s].pc = s
<1>1. Idle \in JobState /\ Idle.pc = "none"
  <2>1. PICK u \in Port : u = CHOOSE p \in Port : TRUE
    BY FlAssumption
  <2>2. [t |-> u, pc |-> "none", tries |-> 0, dead |-> FALSE, age |-> 0] \in JobState
    <3>1. FALSE \in BOOLEAN /\ 0 \in Nat /\ 0 \in Int /\ "none" \in Working \cup Inactive
      BY DEF Inactive
    <3> QED
      BY <3>1, Zenon DEF JobState, Inactive
  <2> QED
    BY <2>1, <2>2 DEF Idle
<1>2. PICK y \in JobState : y = Idle
  BY <1>1
<1>3. /\ [y EXCEPT !.t = t, !.pc = s] \in JobState
      /\ [y EXCEPT !.t = t, !.pc = s].t = t /\ [y EXCEPT !.t = t, !.pc = s].pc = s
  BY DEF JobState, Working
<1> QED
  BY <1>1, <1>2, <1>3

LEMMA JobIsState ==
  ASSUME FlInv, NEW j \in Jobs
  PROVE  job[j] \in JobState /\ job[j].t \in Port /\ Pc(j) = job[j].pc
BY DEF FlInv, FlType, JobState, Pc

LEMMA HoldersFinite ==
  ASSUME NEW S \in SUBSET Jobs PROVE IsFiniteSet(S) /\ Cardinality(S) \in Nat
<1>1. IsFiniteSet(Jobs)
  BY FlAssumption, FS_Interval DEF Jobs
<1> QED
  BY <1>1, FS_Subset, FS_CardinalityType

LEMMA FlInvInit == FlInit => FlInv
<1> SUFFICES ASSUME FlInit PROVE FlInv
  OBVIOUS
<1>0. PICK u \in Port : TRUE
  BY FlAssumption
<1>1. Idle \in JobState /\ Idle.pc = "none"
  BY <1>0, IdleFacts
<1>2. FlType
  <2>1. 0 \in 0..MaxFlashJobs /\ TRUE \in BOOLEAN
    BY FlAssumption
  <2>2. plugged \in [Port -> BOOLEAN] /\ flashOpen \in BOOLEAN
    BY <2>1, Zenon DEF FlInit
  <2> QED
    BY <1>1, <2>1, <2>2 DEF FlInit, FlType
<1>3. \A j \in Jobs : Pc(j) = "none"
  BY <1>1 DEF FlInit, Pc
<1>4. Locked /\ WorkedOnce /\ ClosedIsDead /\ CancelReaches /\ ConfirmedFresh
  BY <1>3 DEF Locked, WorkedOnce, ClosedIsDead, CancelReaches, ConfirmedFresh, Holding, Working
<1>5. Cardinality(SemHolders) <= Parallel
  <2>1. SemHolders = {}
    BY <1>3 DEF SemHolders, Holding
  <2> QED
    BY <2>1, FS_EmptySet, FlAssumption
<1>6. CacheIsSighting /\ DoneIsWritten
  BY DEF FlInit, CacheIsSighting, DoneIsWritten
<1>7. RowIsJob
  BY <1>3 DEF FlInit, RowIsJob, JobsOf, Working
<1> QED
  BY <1>2, <1>4, <1>5, <1>6, <1>7 DEF FlInv

\* What of the invariant is about the jobs.
JobsPart ==
  /\ Locked /\ Cardinality(SemHolders) <= Parallel /\ WorkedOnce /\ ClosedIsDead /\ RowIsJob
  /\ CancelReaches

\* The jobs keep their pc and target, and a dead one stays dead.
LEMMA JobsStay ==
  ASSUME FlInv, job' \in [Jobs -> JobState],
         \A j \in Jobs : /\ job'[j].t = job[j].t /\ job'[j].pc = job[j].pc /\ job'[j].age = job[j].age
                         /\ (job[j].dead => job'[j].dead),
         UNCHANGED <<cancels, results, flashOpen>>
  PROVE  JobsPart'
<1>1. \A j \in Jobs : Pc(j)' = Pc(j)
  BY DEF Pc
<1>2. SemHolders' = SemHolders
  BY <1>1 DEF SemHolders
<1>3. Locked' /\ WorkedOnce' /\ CancelReaches'
  BY <1>1 DEF FlInv, Locked, WorkedOnce, CancelReaches
<1>4. ClosedIsDead'
  BY <1>1 DEF FlInv, ClosedIsDead
<1>5. RowIsJob'
  <2>1. \A t \in Port : JobsOf(t)' = JobsOf(t)
    BY DEF JobsOf
  <2>2. \A t \in Port : (\E j \in JobsOf(t) : Pc(j) \in Working)' <=> \E j \in JobsOf(t) : Pc(j) \in Working
    BY <1>1, <2>1 DEF JobsOf
  <2> QED
    BY <2>2 DEF FlInv, RowIsJob
<1> QED
  BY <1>2, <1>3, <1>4, <1>5 DEF FlInv, JobsPart

\* A job goes on with its work.
LEMMA WorkMoves ==
  ASSUME FlInv, NEW j \in Jobs, NEW x \in JobState, job' = [job EXCEPT ![j] = x],
         x.t = job[j].t, Pc(j) \in Active, x.pc \in Active, job[j].dead => x.dead,
         UNCHANGED <<cancels, results, flashOpen>>
  PROVE  job' \in [Jobs -> JobState] /\ JobsPart'
<1>1. /\ job' \in [Jobs -> JobState] /\ job'[j] = x /\ \A k \in Jobs \ {j} : job'[k] = job[k]
  BY DEF FlInv, FlType
<1>2. \A k \in Jobs : job'[k].t = job[k].t /\ (job[k].dead => job'[k].dead)
  BY <1>1
<1>3. /\ \A k \in Jobs : Pc(k)' \in Active <=> Pc(k) \in Active
      /\ \A k \in Jobs : Pc(k) \notin Active => Pc(k)' = Pc(k)
  BY <1>1 DEF Pc
<1>4. \A k \in Jobs : /\ Pc(k)' \in Holding <=> Pc(k) \in Holding
                      /\ Pc(k)' \in Working <=> Pc(k) \in Working
                      /\ Pc(k)' \in Holding \ {"sem"} <=> Pc(k) \in Holding \ {"sem"}
  BY <1>3 DEF Active, Holding, Working
<1>5. SemHolders' = SemHolders
  BY <1>4 DEF SemHolders
<1>6. Locked' /\ WorkedOnce'
  BY <1>2, <1>4 DEF FlInv, Locked, WorkedOnce
<1>7. CancelReaches'
  BY <1>2, <1>3 DEF FlInv, CancelReaches, Active
<1>8. ClosedIsDead'
  BY <1>2, <1>4 DEF FlInv, ClosedIsDead
<1>9. RowIsJob'
  <2>1. \A t \in Port : (\E k \in JobsOf(t) : Pc(k) \in Working) <=>
                          \E k \in Jobs : job[k].t = t /\ Pc(k) \in Working
    BY DEF JobsOf, Working, Pc
  <2>2. \A t \in Port : (\E k \in JobsOf(t) : Pc(k) \in Working)' <=>
                          \E k \in Jobs : job'[k].t = t /\ Pc(k)' \in Working
    BY DEF JobsOf, Working, Pc
  <2>3. \A t \in Port : (\E k \in JobsOf(t) : Pc(k) \in Working)' <=>
                          \E k \in JobsOf(t) : Pc(k) \in Working
    BY <1>2, <1>4, <2>1, <2>2
  <2> QED
    BY <2>3 DEF FlInv, RowIsJob
<1> QED
  BY <1>1, <1>5, <1>6, <1>7, <1>8, <1>9 DEF FlInv, JobsPart

\* RowIsJob in terms of all jobs.
Works(t) == \E k \in Jobs : job[k].t = t /\ Pc(k) \in Working
Busy == {"pending", "working"}

LEMMA RowsWork ==
  /\ RowIsJob <=> (flashOpen => \A t \in Port : results[t] \in Busy <=> Works(t))
  /\ RowIsJob' <=> (flashOpen' => \A t \in Port : results'[t] \in Busy <=> Works(t)')
<1>1. \A t \in Port : (\E k \in JobsOf(t) : Pc(k) \in Working) <=> Works(t)
  BY DEF JobsOf, Working, Pc, Works
<1>2. \A t \in Port : (\E k \in JobsOf(t) : Pc(k) \in Working)' <=> Works(t)'
  BY DEF JobsOf, Working, Pc, Works
<1> QED
  BY <1>1, <1>2 DEF RowIsJob, Busy

\* fail and done.
LEMMA EndedMoves ==
  ASSUME FlInv, NEW j \in Jobs, NEW s \in {"done", "failed"}, Ended(j, s), Pc(j) \in Active,
         UNCHANGED <<cancels, flashOpen>>
  PROVE  /\ job' \in [Jobs -> JobState] /\ JobsPart'
         /\ results' \in [Port -> {"absent", "pending", "working", "done", "failed"}]
         /\ Pc(j)' = "ended" /\ \A k \in Jobs \ {j} : job'[k] = job[k]
         /\ \A t \in Port : results'[t] = results[t] \/ (t = job[j].t /\ results'[t] = s /\ flashOpen)
<1>0. PICK u \in Port : u = job[j].t
  BY JobIsState
<1>a. [Idle EXCEPT !.t = u, !.pc = "ended"] \in JobState
  BY IdleFacts
<1>b. [Idle EXCEPT !.t = u, !.pc = "ended"].t = u /\ [Idle EXCEPT !.t = u, !.pc = "ended"].pc = "ended"
  BY IdleFacts
<1>1. PICK x \in JobState : /\ x = [Idle EXCEPT !.t = job[j].t, !.pc = "ended"]
                            /\ x.t = job[j].t /\ x.pc = "ended"
  BY <1>0, <1>a, <1>b
<1>2. job' \in [Jobs -> JobState] /\ job'[j] = x /\ \A k \in Jobs \ {j} : job'[k] = job[k]
  BY <1>1 DEF FlInv, FlType, Ended
<1>3. /\ results' \in [Port -> {"absent", "pending", "working", "done", "failed"}]
      /\ flashOpen => results'[job[j].t] = s
      /\ \A t \in Port : results'[t] = results[t] \/ (t = job[j].t /\ results'[t] = s /\ flashOpen)
  BY JobIsState DEF FlInv, FlType, Ended, Shown
<1>4. /\ Pc(j)' = "ended" /\ \A k \in Jobs \ {j} : Pc(k)' = Pc(k)
      /\ \A k \in Jobs : job'[k].t = job[k].t
  BY <1>1, <1>2 DEF Pc
<1>5. \A k \in Jobs : /\ Pc(k)' \in Holding <=> Pc(k) \in Holding
                      /\ Pc(k)' \in Working => Pc(k) \in Working /\ k # j
                      /\ Pc(k)' \in Holding \ {"sem"} <=> Pc(k) \in Holding \ {"sem"}
  BY <1>4 DEF Active, Holding, Working
<1>6. SemHolders' = SemHolders
  BY <1>5 DEF SemHolders
<1>7. Locked' /\ WorkedOnce'
  BY <1>4, <1>5 DEF FlInv, Locked, WorkedOnce
<1>8. CancelReaches'
  BY <1>4 DEF FlInv, CancelReaches, Active
<1>9. ClosedIsDead'
  BY <1>2, <1>4, <1>5 DEF FlInv, ClosedIsDead
<1>10. RowIsJob'
  <2> SUFFICES ASSUME flashOpen, NEW t \in Port PROVE results'[t] \in Busy <=> Works(t)'
    BY RowsWork
  <2>1. results[t] \in Busy <=> Works(t)
    BY RowsWork DEF FlInv
  <2>2. CASE t = job[j].t
    <3>1. results'[t] \notin Busy
      BY <1>3, <2>2 DEF Busy
    <3>2. Pc(j) \in Working
      BY DEF Active, Working
    <3>3. ~Works(t)'
      BY <1>4, <1>5, <2>2, <3>2 DEF FlInv, WorkedOnce, Works
    <3> QED
      BY <3>1, <3>3
  <2>3. CASE t # job[j].t
    <3>1. results'[t] = results[t]
      BY <1>3, <2>3
    <3>2. Works(t)' <=> Works(t)
      BY <1>4, <2>3 DEF Works
    <3> QED
      BY <2>1, <3>1, <3>2
  <2> QED
    BY <2>2, <2>3
<1> QED
  BY <1>2, <1>3, <1>4, <1>6, <1>7, <1>8, <1>9, <1>10 DEF FlInv, JobsPart

\* The other parts, when a step leaves sightings and chips alone.
LEMMA PortsStay ==
  ASSUME FlInv, UNCHANGED <<portV, chip>>, job' \in [Jobs -> JobState],
         cancels' \in [Port -> 0..MaxFlashJobs], flashOpen' \in BOOLEAN,
         results' \in [Port -> {"absent", "pending", "working", "done", "failed"}],
         \A t \in Port : results'[t] = "done" => results[t] = "done",
         \A j \in Jobs : Pc(j)' \in {"flash", "running"} =>
            Pc(j) \in {"flash", "running"} /\ job'[j].t = job[j].t /\ job'[j].age = job[j].age,
         JobsPart'
  PROVE  FlInv'
<1>1. FlType'
  BY DEF FlInv, FlType, portV
<1>2. CacheIsSighting' /\ DoneIsWritten'
  BY DEF FlInv, CacheIsSighting, DoneIsWritten, portV
<1>3. ConfirmedFresh'
  BY DEF FlInv, ConfirmedFresh, portV
<1> QED
  BY <1>1, <1>2, <1>3 DEF FlInv, JobsPart

\* A job ends without having written.
LEMMA EndedInv ==
  ASSUME FlInv, NEW j \in Jobs, Ended(j, "failed"), Pc(j) \in Active,
         UNCHANGED <<cancels, flashOpen, portV, chip>>
  PROVE  FlInv'
<1>1. /\ job' \in [Jobs -> JobState] /\ JobsPart'
      /\ results' \in [Port -> {"absent", "pending", "working", "done", "failed"}]
      /\ Pc(j)' = "ended" /\ \A k \in Jobs \ {j} : job'[k] = job[k]
      /\ \A t \in Port : results'[t] = results[t] \/ (t = job[j].t /\ results'[t] = "failed" /\ flashOpen)
  BY EndedMoves
<1>2. \A k \in Jobs : Pc(k)' \in {"flash", "running"} =>
        Pc(k) \in {"flash", "running"} /\ job'[k].t = job[k].t /\ job'[k].age = job[k].age
  BY <1>1 DEF Pc
<1>3. cancels' \in [Port -> 0..MaxFlashJobs] /\ flashOpen' \in BOOLEAN
  BY DEF FlInv, FlType
<1> QED
  BY <1>1, <1>2, <1>3, PortsStay

\* A job goes on with its work, not to the write.
LEMMA GotoInv ==
  ASSUME FlInv, NEW j \in Jobs, NEW s \in {"stage", "confirm"}, Pc(j) \in Active, Goto(j, s),
         UNCHANGED <<cancels, results, flashOpen, portV, chip>>
  PROVE  FlInv'
<1>1. PICK y \in JobState : y = job[j]
  BY JobIsState
<1>2. PICK x : x = [y EXCEPT !.pc = s]
  OBVIOUS
<1>3. x \in JobState /\ x.pc = s /\ x.t = y.t /\ x.dead = y.dead
  BY <1>2 DEF JobState, Working
<1>4. job' = [job EXCEPT ![j] = x]
  BY <1>1, <1>2 DEF Goto
<1>5. job' \in [Jobs -> JobState] /\ JobsPart'
  BY <1>1, <1>3, <1>4, WorkMoves DEF Active
<1>6. \A k \in Jobs : Pc(k)' \in {"flash", "running"} =>
        Pc(k) \in {"flash", "running"} /\ job'[k].t = job[k].t /\ job'[k].age = job[k].age
  BY <1>3, <1>4 DEF Pc, FlInv, FlType
<1>7. /\ cancels' \in [Port -> 0..MaxFlashJobs] /\ flashOpen' \in BOOLEAN
      /\ results' \in [Port -> {"absent", "pending", "working", "done", "failed"}]
  BY DEF FlInv, FlType
<1> QED
  BY <1>5, <1>6, <1>7, PortsStay

LEMMA ValidateInv == ASSUME FlInv, NEW j \in Jobs, Validate(j) PROVE FlInv'
BY GotoInv, EndedInv DEF Validate, Active

LEMMA StageInv == ASSUME FlInv, NEW j \in Jobs, Stage(j) PROVE FlInv'
BY GotoInv, EndedInv DEF Stage, Active

\* The jobs a cancellation reaches.
LEMMA KilledInv ==
  ASSUME FlInv, NEW js, job' = Killed(js), UNCHANGED <<cancels, results, flashOpen, portV, chip>>
  PROVE  FlInv'
<1>1. /\ job' \in [Jobs -> JobState]
      /\ \A j \in Jobs : /\ job'[j].t = job[j].t /\ job'[j].pc = job[j].pc /\ job'[j].age = job[j].age
                         /\ (job[j].dead => job'[j].dead)
  <2>1. ASSUME NEW j \in Jobs
        PROVE  /\ job'[j] \in JobState
               /\ job'[j].t = job[j].t /\ job'[j].pc = job[j].pc /\ job'[j].age = job[j].age
               /\ (job[j].dead => job'[j].dead)
    <3>1. PICK y \in JobState : y = job[j]
      BY JobIsState
    <3>2. PICK x : x = [y EXCEPT !.dead = TRUE]
      OBVIOUS
    <3>3. x \in JobState /\ x.t = y.t /\ x.pc = y.pc /\ x.age = y.age /\ x.dead
      BY <3>2 DEF JobState
    <3>4. job'[j] = IF j \in js THEN x ELSE y
      BY <3>1, <3>2 DEF Killed
    <3> QED
      BY <3>1, <3>3, <3>4
  <2>2. job' \in [Jobs -> JobState]
    <3>1. job' = [j \in Jobs |-> job'[j]]
      BY DEF Killed
    <3> QED
      BY <2>1, <3>1
  <2> QED
    BY <2>1, <2>2
<1>2. JobsPart'
  BY <1>1, JobsStay
<1>3. /\ cancels' \in [Port -> 0..MaxFlashJobs] /\ flashOpen' \in BOOLEAN
      /\ results' \in [Port -> {"absent", "pending", "working", "done", "failed"}]
  BY DEF FlInv, FlType
<1> QED
  BY <1>1, <1>2, <1>3, PortsStay DEF Pc

LEMMA AbortInv == ASSUME FlInv, NEW t \in Port, Abort(t) PROVE FlInv'
BY KilledInv DEF Abort

LEMMA RunTimeoutInv == ASSUME FlInv, NEW j \in Jobs, RunTimeout(j) PROVE FlInv'
BY KilledInv DEF RunTimeout

LEMMA CloseFlashInv == ASSUME FlInv, CloseFlash PROVE FlInv'
<1>1. \A j \in Jobs : /\ job'[j] \in JobState
                      /\ job'[j].t = job[j].t /\ job'[j].pc = job[j].pc /\ job'[j].age = job[j].age
                      /\ (Pc(j) \in Working => job'[j].dead)
  <2> SUFFICES ASSUME NEW j \in Jobs
               PROVE  /\ job'[j] \in JobState
                      /\ job'[j].t = job[j].t /\ job'[j].pc = job[j].pc /\ job'[j].age = job[j].age
                      /\ (Pc(j) \in Working => job'[j].dead)
    OBVIOUS
  <2>1. PICK y \in JobState : y = job[j]
    BY JobIsState
  <2>2. PICK x : x = [y EXCEPT !.dead = TRUE]
    OBVIOUS
  <2>3. x \in JobState /\ x.t = y.t /\ x.pc = y.pc /\ x.age = y.age /\ x.dead
    BY <2>2 DEF JobState
  <2>4. job'[j] = IF Pc(j) \in Working THEN x ELSE y
    BY <2>1, <2>2 DEF Killed, CloseFlash
  <2> QED
    BY <2>1, <2>3, <2>4
<1>2. job' \in [Jobs -> JobState]
  <2>1. job' = [j \in Jobs |-> job'[j]]
    BY DEF Killed, CloseFlash
  <2> QED
    BY <1>1, <2>1
<1>3. \A j \in Jobs : Pc(j)' = Pc(j)
  BY <1>1 DEF Pc
<1>4. SemHolders' = SemHolders
  BY <1>3 DEF SemHolders
<1>5. Locked' /\ WorkedOnce' /\ CancelReaches'
  BY <1>1, <1>3 DEF FlInv, Locked, WorkedOnce, CancelReaches, CloseFlash
<1>6. ClosedIsDead'
  BY <1>1, <1>3 DEF ClosedIsDead
<1>7. RowIsJob'
  BY RowsWork DEF CloseFlash
<1>8. /\ cancels' \in [Port -> 0..MaxFlashJobs] /\ flashOpen' \in BOOLEAN
      /\ results' \in [Port -> {"absent", "pending", "working", "done", "failed"}]
  BY DEF FlInv, FlType, CloseFlash
<1>9. JobsPart'
  BY <1>4, <1>5, <1>6, <1>7 DEF FlInv, JobsPart
<1> QED
  BY <1>1, <1>2, <1>3, <1>8, <1>9, PortsStay DEF CloseFlash

LEMMA TakeHostLockInv == ASSUME FlInv, NEW j \in Jobs, TakeHostLock(j) PROVE FlInv'
<1>1. PICK y \in JobState : y = job[j] /\ y.pc = "lock"
  BY JobIsState DEF TakeHostLock
<1>2. PICK x : x = [y EXCEPT !.pc = "sem"]
  OBVIOUS
<1>3. x \in JobState /\ x.pc = "sem" /\ x.t = y.t /\ x.dead = y.dead
  BY <1>2 DEF JobState, Working
<1>4. job' = [job EXCEPT ![j] = x]
  BY <1>1, <1>2 DEF TakeHostLock, Goto
<1>5. job' \in [Jobs -> JobState] /\ job'[j] = x /\ \A k \in Jobs \ {j} : job'[k] = job[k]
  BY <1>3, <1>4 DEF FlInv, FlType
<1>6. /\ Pc(j)' = "sem" /\ \A k \in Jobs \ {j} : Pc(k)' = Pc(k)
      /\ \A k \in Jobs : job'[k].t = job[k].t /\ job'[k].dead = job[k].dead
  BY <1>1, <1>3, <1>5 DEF Pc
<1>7. \A k \in Jobs : /\ Pc(k)' \in Working <=> Pc(k) \in Working
                      /\ Pc(k)' \in Holding \ {"sem"} <=> Pc(k) \in Holding \ {"sem"}
                      /\ Pc(k)' \in Active <=> Pc(k) \in Active
  BY <1>1, <1>6 DEF Holding, Working, Active, Pc
<1>8. SemHolders' = SemHolders
  BY <1>7 DEF SemHolders
<1>9. WorkedOnce' /\ ClosedIsDead'
  BY <1>6, <1>7 DEF FlInv, WorkedOnce, ClosedIsDead, TakeHostLock
<1>10. CancelReaches'
  BY <1>6, <1>7 DEF FlInv, CancelReaches, Active, TakeHostLock
<1>11. Locked'
  <2>1. \A k \in Jobs \ {j} : Pc(k) \in Holding => HostOf(job[k].t) # HostOf(job[j].t)
    BY DEF TakeHostLock
  <2> QED
    BY <1>6, <2>1 DEF FlInv, Locked
<1>12. RowIsJob'
  <2>1. \A t \in Port : Works(t)' <=> Works(t)
    BY <1>6, <1>7 DEF Works
  <2> QED
    BY <2>1, RowsWork DEF FlInv, TakeHostLock
<1>13. JobsPart'
  BY <1>8, <1>9, <1>10, <1>11, <1>12 DEF FlInv, JobsPart
<1>14. /\ cancels' \in [Port -> 0..MaxFlashJobs] /\ flashOpen' \in BOOLEAN
       /\ results' \in [Port -> {"absent", "pending", "working", "done", "failed"}]
  BY DEF FlInv, FlType, TakeHostLock
<1>15. \A k \in Jobs : Pc(k)' \in {"flash", "running"} =>
         Pc(k) \in {"flash", "running"} /\ job'[k].t = job[k].t /\ job'[k].age = job[k].age
  BY <1>5, <1>6
<1> QED
  BY <1>5, <1>13, <1>14, <1>15, PortsStay DEF TakeHostLock

LEMMA TakeSemInv == ASSUME FlInv, NEW j \in Jobs, TakeSem(j) PROVE FlInv'
<1>1. PICK y \in JobState : y = job[j] /\ y.pc = "sem" /\ y.t \in Port
  BY JobIsState DEF TakeSem
<1>2. PICK b \in BOOLEAN : b = (y.dead \/ ~flashOpen)
  BY Zenon
<1>3. PICK x : x = [[y EXCEPT !.pc = "validate"] EXCEPT !.dead = b]
  OBVIOUS
<1>4. x \in JobState /\ x.pc = "validate" /\ x.t = y.t /\ x.dead = b
  BY <1>3 DEF JobState, Working
<1>5. job' = [job EXCEPT ![j] = x]
  BY <1>1, <1>2, <1>3 DEF TakeSem, FlInv, FlType
<1>6. job' \in [Jobs -> JobState] /\ job'[j] = x /\ \A k \in Jobs \ {j} : job'[k] = job[k]
  BY <1>4, <1>5 DEF FlInv, FlType
<1>7. /\ Pc(j)' = "validate" /\ Pc(j) = "sem" /\ \A k \in Jobs \ {j} : Pc(k)' = Pc(k)
      /\ \A k \in Jobs : job'[k].t = job[k].t
      /\ flashOpen' = flashOpen
  BY <1>1, <1>4, <1>6 DEF Pc, TakeSem
<1>8. \A k \in Jobs : /\ Pc(k)' \in Working <=> Pc(k) \in Working
                      /\ Pc(k)' \in Holding <=> Pc(k) \in Holding
  BY <1>7 DEF Holding, Working
<1>9. Cardinality(SemHolders)' <= Parallel
  <2>1. SemHolders' = SemHolders \cup {j} /\ j \notin SemHolders
    BY <1>7 DEF SemHolders, Holding
  <2>2. IsFiniteSet(SemHolders) /\ Cardinality(SemHolders) \in Nat
    BY HoldersFinite DEF SemHolders
  <2>3. Cardinality(SemHolders') = Cardinality(SemHolders) + 1
    BY <2>1, <2>2, FS_AddElement
  <2>4. Cardinality(SemHolders) < Parallel
    BY DEF TakeSem, SemHolders
  <2> QED
    BY <2>2, <2>3, <2>4, FlAssumption
<1>10. WorkedOnce' /\ Locked'
  BY <1>7, <1>8 DEF FlInv, WorkedOnce, Locked
<1>11. ClosedIsDead'
  <2> SUFFICES ASSUME ~flashOpen, NEW k \in Jobs, Pc(k)' \in Working PROVE job'[k].dead
    BY <1>7 DEF ClosedIsDead
  <2>1. CASE k = j
    BY <1>2, <1>4, <1>6, <2>1
  <2>2. CASE k # j
    BY <1>6, <1>7, <2>2 DEF FlInv, ClosedIsDead
  <2> QED
    BY <2>1, <2>2
<1>12. cancels' = [cancels EXCEPT ![y.t] = j]
  BY <1>1 DEF TakeSem
<1>13. /\ cancels' \in [Port -> 0..MaxFlashJobs] /\ cancels'[y.t] = j
       /\ \A t \in Port \ {y.t} : cancels'[t] = cancels[t]
  <2>1. j \in 0..MaxFlashJobs
    BY FlAssumption DEF Jobs
  <2> QED
    BY <1>1, <1>12, <2>1 DEF FlInv, FlType
<1>14. CancelReaches'
  <2> SUFFICES ASSUME NEW k \in Jobs, Pc(k)' \in Active PROVE cancels'[job'[k].t] = k
    BY DEF CancelReaches, Active
  <2>1. CASE k = j
    BY <1>1, <1>7, <1>13, <2>1
  <2>2. CASE k # j
    <3>1. Pc(k) \in Active /\ Pc(k) \in Holding /\ Pc(j) \in Holding
      BY <1>7, <2>2 DEF Active, Holding
    <3>2. HostOf(job[k].t) # HostOf(job[j].t)
      BY <2>2, <3>1 DEF FlInv, Locked
    <3>3. cancels[job[k].t] = k /\ job[k].t \in Port
      BY <3>1, JobIsState DEF FlInv, CancelReaches, Active
    <3> QED
      BY <1>1, <1>7, <1>13, <3>2, <3>3
  <2> QED
    BY <2>1, <2>2
<1>15. /\ results' \in [Port -> {"absent", "pending", "working", "done", "failed"}]
       /\ flashOpen => results'[y.t] = "working"
       /\ \A t \in Port : results'[t] = results[t] \/ (t = y.t /\ results'[t] = "working")
  BY <1>1 DEF FlInv, FlType, TakeSem, Shown
<1>16. RowIsJob'
  <2> SUFFICES ASSUME flashOpen, NEW t \in Port PROVE results'[t] \in Busy <=> Works(t)'
    BY <1>7, RowsWork
  <2>1. results[t] \in Busy <=> Works(t)
    BY RowsWork DEF FlInv
  <2>2. Works(t)' <=> Works(t)
    BY <1>7, <1>8 DEF Works
  <2>3. CASE t = y.t
    BY <1>1, <1>7, <1>15, <2>2, <2>3 DEF Works, Busy, Working
  <2>4. CASE t # y.t
    BY <1>15, <2>1, <2>2, <2>4
  <2> QED
    BY <2>3, <2>4
<1>17. JobsPart'
  BY <1>9, <1>10, <1>11, <1>14, <1>16 DEF JobsPart
<1>18. \A k \in Jobs : Pc(k)' \in {"flash", "running"} =>
         Pc(k) \in {"flash", "running"} /\ job'[k].t = job[k].t /\ job'[k].age = job[k].age
  BY <1>6, <1>7
<1>19. flashOpen' \in BOOLEAN /\ UNCHANGED <<portV, chip>>
  BY DEF FlInv, FlType, TakeSem
<1>20. \A t \in Port : results'[t] = "done" => results[t] = "done"
  BY <1>15
<1> QED
  BY <1>6, <1>13, <1>15, <1>17, <1>18, <1>19, <1>20, PortsStay

LEMMA ConfirmInv == ASSUME FlInv, NEW j \in Jobs, Confirm(j) PROVE FlInv'
<1>1. PICK y \in JobState : y = job[j] /\ y.pc = "confirm" /\ y.t \in Port
  BY JobIsState DEF Confirm
<1>2. Pc(j) \in Active /\ UNCHANGED <<cancels, flashOpen, plugged, gateTime, chip>>
  BY <1>1 DEF Confirm, Active, Pc
<1>3. /\ cancels' \in [Port -> 0..MaxFlashJobs] /\ flashOpen' \in BOOLEAN
      /\ gateTime \in Nat /\ gateCache \in [Port -> Int] /\ seen \in [Port -> Int]
  BY <1>2 DEF FlInv, FlType
<1>4. CASE Ended(j, "failed") /\ UNCHANGED <<gateCache, seen>>
  BY <1>2, <1>4, EndedInv DEF portV
<1>5. ASSUME NEW a \in Int, job' = [job EXCEPT ![j].pc = "flash", ![j].age = a],
             UNCHANGED results
      PROVE  /\ job' \in [Jobs -> JobState] /\ JobsPart' /\ job'[j].age = a /\ job'[j].t = y.t
             /\ \A k \in Jobs \ {j} : job'[k] = job[k]
  <2>1. PICK x : x = [[y EXCEPT !.pc = "flash"] EXCEPT !.age = a]
    OBVIOUS
  <2>2. x \in JobState /\ x.pc = "flash" /\ x.t = y.t /\ x.dead = y.dead /\ x.age = a
    BY <2>1 DEF JobState, Working
  <2>3. job' = [job EXCEPT ![j] = x]
    BY <1>1, <1>5, <2>1 DEF FlInv, FlType
  <2>4. job' \in [Jobs -> JobState] /\ JobsPart'
    <3>1. x.t = job[j].t /\ (job[j].dead => x.dead)
      BY <1>1, <2>2
    <3>2. x.pc \in Active /\ UNCHANGED <<cancels, results, flashOpen>>
      BY <1>2, <1>5, <2>2 DEF Active
    <3> QED
      BY <1>2, <2>2, <2>3, <3>1, <3>2, WorkMoves
  <2> QED
    BY <2>2, <2>3, <2>4 DEF FlInv, FlType
<1>6. CASE CacheHit(y.t) /\ job' = [job EXCEPT ![j].pc = "flash", ![j].age = gateTime - seen[y.t]]
           /\ UNCHANGED <<gateCache, seen, results>>
  <2>1. PICK a \in Int : a = gateTime - seen[y.t]
    BY <1>1, <1>3
  <2>2. /\ job' \in [Jobs -> JobState] /\ JobsPart' /\ job'[j].age = a /\ job'[j].t = y.t
        /\ \A k \in Jobs \ {j} : job'[k] = job[k]
    BY <1>5, <1>6, <2>1
  <2>3. seen[y.t] # -1 /\ (GateTTL > 0 => a < GateTTL)
    <3>1. gateCache[y.t] # -1 /\ gateCache[y.t] = seen[y.t]
      BY <1>1, <1>6 DEF FlInv, CacheIsSighting, CacheHit
    <3> QED
      BY <1>1, <1>3, <1>6, <2>1, <3>1, FlAssumption DEF CacheHit
  <2>4. ConfirmedFresh'
    <3> SUFFICES ASSUME NEW k \in Jobs, Pc(k)' \in {"flash", "running"}
                 PROVE  seen'[job'[k].t] # -1 /\ (GateTTL > 0 => job'[k].age < GateTTL)
      BY DEF ConfirmedFresh
    <3>1. CASE k = j
      BY <1>6, <2>2, <2>3, <3>1
    <3>2. CASE k # j
      BY <1>6, <2>2, <3>2 DEF FlInv, ConfirmedFresh, Pc
    <3> QED
      BY <3>1, <3>2
  <2>5. FlType' /\ CacheIsSighting' /\ DoneIsWritten'
    BY <1>2, <1>6, <2>2 DEF FlInv, FlType, CacheIsSighting, DoneIsWritten
  <2> QED
    BY <2>2, <2>4, <2>5 DEF FlInv, JobsPart
<1>7. CASE /\ job' = [job EXCEPT ![j].pc = "flash", ![j].age = 0] /\ UNCHANGED results
           /\ gateCache' = [gateCache EXCEPT ![y.t] = gateTime]
           /\ seen' = [seen EXCEPT ![y.t] = gateTime]
  <2>0. PICK a \in Int : a = 0
    OBVIOUS
  <2>1. job' = [job EXCEPT ![j].pc = "flash", ![j].age = a]
    BY <1>7, <2>0
  <2>2. /\ job' \in [Jobs -> JobState] /\ JobsPart' /\ job'[j].age = 0 /\ job'[j].t = y.t
        /\ \A k \in Jobs \ {j} : job'[k] = job[k]
    BY <1>5, <1>7, <2>0, <2>1
  <2>3. /\ gateCache' \in [Port -> Int] /\ seen' \in [Port -> Int]
        /\ seen'[y.t] = gateTime /\ gateCache'[y.t] = gateTime
        /\ \A t \in Port \ {y.t} : seen'[t] = seen[t] /\ gateCache'[t] = gateCache[t]
    BY <1>1, <1>3, <1>7
  <2>4. \A t \in Port : seen[t] # -1 => seen'[t] # -1
    BY <1>3, <2>3
  <2>5. ConfirmedFresh'
    <3> SUFFICES ASSUME NEW k \in Jobs, Pc(k)' \in {"flash", "running"}
                 PROVE  seen'[job'[k].t] # -1 /\ (GateTTL > 0 => job'[k].age < GateTTL)
      BY DEF ConfirmedFresh
    <3>1. CASE k = j
      BY <1>3, <2>2, <2>3, <3>1
    <3>2. CASE k # j
      <4>1. job'[k] = job[k] /\ job[k].t \in Port /\ Pc(k) \in {"flash", "running"}
        BY <2>2, <3>2, JobIsState DEF Pc
      <4>2. seen[job[k].t] # -1 /\ (GateTTL > 0 => job[k].age < GateTTL)
        BY <4>1 DEF FlInv, ConfirmedFresh
      <4> QED
        BY <2>4, <4>1, <4>2
    <3> QED
      BY <3>1, <3>2
  <2>6. CacheIsSighting'
    BY <2>3 DEF FlInv, CacheIsSighting
  <2>7. FlType' /\ DoneIsWritten'
    BY <1>2, <1>7, <2>2, <2>3 DEF FlInv, FlType, DoneIsWritten
  <2> QED
    BY <2>2, <2>5, <2>6, <2>7 DEF FlInv, JobsPart
<1> QED
  BY <1>1, <1>4, <1>6, <1>7 DEF Confirm

\* Chips change, sightings do not.
LEMMA ChipStep ==
  ASSUME FlInv, UNCHANGED portV, job' \in [Jobs -> JobState], UNCHANGED <<cancels, flashOpen>>,
         results' \in [Port -> {"absent", "pending", "working", "done", "failed"}],
         chip' \in [Port -> {"old", "partial", "full"}], DoneIsWritten', JobsPart',
         \A j \in Jobs : Pc(j)' \in {"flash", "running"} =>
            Pc(j) \in {"flash", "running"} /\ job'[j].t = job[j].t /\ job'[j].age = job[j].age
  PROVE  FlInv'
<1>1. FlType'
  BY DEF FlInv, FlType, portV
<1>2. CacheIsSighting'
  BY DEF FlInv, CacheIsSighting, portV
<1>3. ConfirmedFresh'
  BY DEF FlInv, ConfirmedFresh, portV
<1> QED
  BY <1>1, <1>2, <1>3 DEF FlInv, JobsPart

\* A job that writes, or is about to, has another pc of these and more tries.
LEMMA RunMoves ==
  ASSUME FlInv, NEW j \in Jobs, Pc(j) \in {"flash", "running"}, NEW s \in {"flash", "running"},
         NEW n \in Nat, job' = [job EXCEPT ![j] = [[job[j] EXCEPT !.pc = s] EXCEPT !.tries = n]],
         UNCHANGED <<cancels, results, flashOpen>>
  PROVE  /\ job' \in [Jobs -> JobState] /\ JobsPart'
         /\ \A k \in Jobs : Pc(k)' \in {"flash", "running"} =>
              Pc(k) \in {"flash", "running"} /\ job'[k].t = job[k].t /\ job'[k].age = job[k].age
<1>1. PICK y \in JobState : y = job[j] /\ y.pc = Pc(j)
  BY JobIsState
<1>2. PICK x : x = [[y EXCEPT !.pc = s] EXCEPT !.tries = n]
  OBVIOUS
<1>3. x \in JobState /\ x.pc = s /\ x.t = y.t /\ x.dead = y.dead /\ x.age = y.age
  BY <1>2 DEF JobState, Working
<1>4. job' = [job EXCEPT ![j] = x]
  BY <1>1, <1>2
<1>5. job' \in [Jobs -> JobState] /\ JobsPart'
  BY <1>1, <1>3, <1>4, WorkMoves DEF Active
<1>6. job'[j] = x /\ \A k \in Jobs \ {j} : job'[k] = job[k]
  BY <1>4 DEF FlInv, FlType
<1> QED
  BY <1>1, <1>3, <1>5, <1>6 DEF Pc

LEMMA RunOnceInv == ASSUME FlInv, NEW j \in Jobs, RunOnce(j) PROVE FlInv'
<1>1. PICK y \in JobState : y = job[j] /\ y.pc = "flash" /\ y.t \in Port /\ y.tries \in Nat
  BY JobIsState DEF RunOnce, JobState
<1>2. Pc(j) = "flash" /\ UNCHANGED <<cancels, flashOpen, portV>>
  BY DEF RunOnce
<1>3. CASE ~job[j].dead /\ Goto(j, "running") /\ UNCHANGED results
           /\ chip' = [chip EXCEPT ![job[j].t] = "partial"]
  <2>1. job' = [job EXCEPT ![j] = [[job[j] EXCEPT !.pc = "running"] EXCEPT !.tries = y.tries]]
    <3>1. [y EXCEPT !.pc = "running"] = [[y EXCEPT !.pc = "running"] EXCEPT !.tries = y.tries]
      BY DEF JobState
    <3> QED
      BY <1>1, <1>3, <3>1 DEF Goto
  <2>2. /\ job' \in [Jobs -> JobState] /\ JobsPart'
        /\ \A k \in Jobs : Pc(k)' \in {"flash", "running"} =>
             Pc(k) \in {"flash", "running"} /\ job'[k].t = job[k].t /\ job'[k].age = job[k].age
    BY <1>1, <1>2, <1>3, <2>1, RunMoves
  <2>3. /\ chip' \in [Port -> {"old", "partial", "full"}]
        /\ \A t \in Port \ {y.t} : chip'[t] = chip[t]
    BY <1>1, <1>3 DEF FlInv, FlType
  <2>4. results[y.t] # "done"
    <3>1. flashOpen
      BY <1>2, <1>3 DEF FlInv, ClosedIsDead, Working
    <3>2. Works(y.t)
      BY <1>1, <1>2 DEF Works, Working
    <3> QED
      BY <1>1, <3>1, <3>2, RowsWork DEF FlInv, Busy
  <2>5. DoneIsWritten'
    BY <1>3, <2>3, <2>4 DEF FlInv, DoneIsWritten
  <2> QED
    BY <1>2, <1>3, <2>2, <2>3, <2>5, ChipStep DEF FlInv, FlType
<1>4. CASE UNCHANGED <<chip, results>> /\ job' = [job EXCEPT ![j].tries = @ + 1]
  <2>1. PICK n \in Nat : n = y.tries + 1
    BY <1>1
  <2>2. job' = [job EXCEPT ![j] = [[job[j] EXCEPT !.pc = "flash"] EXCEPT !.tries = n]]
    <3>1. [y EXCEPT !.tries = n] = [[y EXCEPT !.pc = "flash"] EXCEPT !.tries = n]
      BY <1>1 DEF JobState
    <3>2. job' = [job EXCEPT ![j] = [y EXCEPT !.tries = n]]
      BY <1>1, <1>4, <2>1
    <3> QED
      BY <1>1, <3>1, <3>2
  <2>3. /\ job' \in [Jobs -> JobState] /\ JobsPart'
        /\ \A k \in Jobs : Pc(k)' \in {"flash", "running"} =>
             Pc(k) \in {"flash", "running"} /\ job'[k].t = job[k].t /\ job'[k].age = job[k].age
    BY <1>2, <1>4, <2>2, RunMoves
  <2> QED
    BY <1>2, <1>4, <2>3, ChipStep DEF FlInv, FlType, DoneIsWritten
<1>5. CASE UNCHANGED chip /\ Ended(j, "failed")
  BY <1>2, <1>5, EndedInv DEF Active
<1> QED
  BY <1>3, <1>4, <1>5 DEF RunOnce

LEMMA RunDoneInv == ASSUME FlInv, NEW j \in Jobs, RunDone(j) PROVE FlInv'
<1>1. PICK y \in JobState : y = job[j] /\ y.pc = "running" /\ y.t \in Port /\ y.tries \in Nat
  BY JobIsState DEF RunDone, JobState
<1>2. Pc(j) = "running" /\ Pc(j) \in Active /\ UNCHANGED <<cancels, flashOpen, portV>>
  BY DEF RunDone, Active
<1>3. PICK o \in Outcome :
        /\ chip' = [chip EXCEPT ![y.t] = IF o.verified = NumFiles /\ ~o.mismatch THEN "full" ELSE @]
        /\ IF Success(o) THEN Ended(j, "done")
           ELSE \/ job' = [job EXCEPT ![j].pc = "flash", ![j].tries = @ + 1] /\ UNCHANGED results
                \/ Ended(j, "failed")
  BY <1>1 DEF RunDone
<1>4. /\ chip' \in [Port -> {"old", "partial", "full"}]
      /\ \A t \in Port : chip[t] = "full" => chip'[t] = "full"
      /\ Success(o) => chip'[y.t] = "full"
  <2>1. Success(o) => o.verified = NumFiles /\ ~o.mismatch
    BY FlAssumption DEF Success, Outcome
  <2> QED
    BY <1>1, <1>3, <2>1 DEF FlInv, FlType
<1>5. ASSUME NEW s \in {"done", "failed"}, Ended(j, s), s = "done" => Success(o) PROVE FlInv'
  <2>1. /\ job' \in [Jobs -> JobState] /\ JobsPart'
        /\ results' \in [Port -> {"absent", "pending", "working", "done", "failed"}]
        /\ Pc(j)' = "ended" /\ \A k \in Jobs \ {j} : job'[k] = job[k]
        /\ \A t \in Port : results'[t] = results[t] \/ (t = job[j].t /\ results'[t] = s /\ flashOpen)
    BY <1>2, <1>5, EndedMoves
  <2>2. DoneIsWritten'
    BY <1>1, <1>4, <1>5, <2>1 DEF FlInv, DoneIsWritten
  <2>3. \A k \in Jobs : Pc(k)' \in {"flash", "running"} =>
          Pc(k) \in {"flash", "running"} /\ job'[k].t = job[k].t /\ job'[k].age = job[k].age
    BY <2>1 DEF Pc
  <2> QED
    BY <1>2, <1>4, <2>1, <2>2, <2>3, ChipStep
<1>6. CASE job' = [job EXCEPT ![j].pc = "flash", ![j].tries = @ + 1] /\ UNCHANGED results
  <2>1. PICK n \in Nat : n = y.tries + 1
    BY <1>1
  <2>2. job' = [job EXCEPT ![j] = [[job[j] EXCEPT !.pc = "flash"] EXCEPT !.tries = n]]
    BY <1>1, <1>6, <2>1 DEF FlInv, FlType, JobState
  <2>3. /\ job' \in [Jobs -> JobState] /\ JobsPart'
        /\ \A k \in Jobs : Pc(k)' \in {"flash", "running"} =>
             Pc(k) \in {"flash", "running"} /\ job'[k].t = job[k].t /\ job'[k].age = job[k].age
    BY <1>2, <1>6, <2>2, RunMoves
  <2>4. DoneIsWritten'
    BY <1>4, <1>6 DEF FlInv, DoneIsWritten
  <2> QED
    BY <1>2, <1>4, <1>6, <2>3, <2>4, ChipStep DEF FlInv, FlType
<1> QED
  BY <1>3, <1>5, <1>6

LEMMA ReleaseInvFl == ASSUME FlInv, NEW j \in Jobs, Release(j) PROVE FlInv'
<1>1. PICK y \in JobState : y = job[j] /\ y.t \in Port /\ Pc(j) = y.pc
  BY JobIsState
<1>2. PICK s \in {"cleared", "out"} : /\ Goto(j, s) /\ Pc(j) = IF s = "cleared" THEN "ended" ELSE "cleared"
                                      /\ cancels' = IF s = "cleared" THEN [cancels EXCEPT ![y.t] = 0] ELSE cancels
  BY <1>1 DEF Release
<1>3. PICK x : x = [y EXCEPT !.pc = s]
  OBVIOUS
<1>4. x \in JobState /\ x.pc = s /\ x.t = y.t
  BY <1>3 DEF JobState
<1>5. job' \in [Jobs -> JobState] /\ job'[j] = x /\ \A k \in Jobs \ {j} : job'[k] = job[k]
  BY <1>1, <1>2, <1>3, <1>4 DEF FlInv, FlType, Goto
<1>6. /\ Pc(j)' = s /\ \A k \in Jobs \ {j} : Pc(k)' = Pc(k)
      /\ \A k \in Jobs : job'[k].t = job[k].t
  BY <1>1, <1>4, <1>5 DEF Pc
<1>7. UNCHANGED <<results, flashOpen, portV, chip>>
  BY DEF Release
<1>8. \A k \in Jobs : /\ Pc(k)' \in Working <=> Pc(k) \in Working /\ k # j
                      /\ Pc(k)' \in Holding => Pc(k) \in Holding
                      /\ Pc(k)' \in Holding \ {"sem"} => Pc(k) \in Holding \ {"sem"}
                      /\ Pc(k)' \in Active <=> Pc(k) \in Active /\ k # j
  BY <1>2, <1>6 DEF Holding, Working, Active
<1>9. Cardinality(SemHolders)' <= Parallel
  <2>1. SemHolders' \subseteq SemHolders /\ SemHolders' \in SUBSET Jobs /\ SemHolders \in SUBSET Jobs
    BY <1>8 DEF SemHolders
  <2>2. IsFiniteSet(SemHolders) /\ Cardinality(SemHolders) \in Nat /\ Cardinality(SemHolders') \in Nat
    BY <2>1, HoldersFinite
  <2>3. Cardinality(SemHolders') <= Cardinality(SemHolders)
    BY <2>1, <2>2, FS_Subset
  <2> QED
    BY <2>2, <2>3, FlAssumption DEF FlInv
<1>10. WorkedOnce' /\ Locked' /\ ClosedIsDead'
  BY <1>5, <1>6, <1>7, <1>8 DEF FlInv, WorkedOnce, Locked, ClosedIsDead
<1>11. /\ cancels' \in [Port -> 0..MaxFlashJobs]
       /\ \A t \in Port : cancels'[t] = cancels[t] \/ (t = y.t /\ Pc(j) = "ended")
  <2>1. 0 \in 0..MaxFlashJobs
    BY FlAssumption
  <2> QED
    BY <1>1, <1>2, <2>1 DEF FlInv, FlType
<1>12. CancelReaches'
  <2> SUFFICES ASSUME NEW k \in Jobs, Pc(k)' \in Active PROVE cancels'[job'[k].t] = k
    BY DEF CancelReaches, Active
  <2>1. k # j /\ Pc(k) \in Active /\ Pc(k) \in Holding /\ job[k].t \in Port /\ job'[k].t = job[k].t
    BY <1>6, <1>8, JobIsState DEF Active, Holding
  <2>2. cancels[job[k].t] = k
    BY <2>1 DEF FlInv, CancelReaches, Active
  <2>3. Pc(j) = "ended" => job[k].t # y.t
    BY <1>1, <2>1 DEF FlInv, Locked, Holding
  <2> QED
    BY <1>11, <2>1, <2>2, <2>3
<1>13. RowIsJob'
  <2>1. Pc(j) \notin Working
    BY <1>2 DEF Working
  <2>2. \A t \in Port : Works(t)' <=> Works(t)
    BY <1>6, <1>8, <2>1 DEF Works
  <2> QED
    BY <1>7, <2>2, RowsWork DEF FlInv
<1>14. JobsPart'
  BY <1>9, <1>10, <1>12, <1>13 DEF JobsPart
<1>15. \A k \in Jobs : Pc(k)' \in {"flash", "running"} =>
         Pc(k) \in {"flash", "running"} /\ job'[k].t = job[k].t /\ job'[k].age = job[k].age
  BY <1>5, <1>6
<1>16. flashOpen' \in BOOLEAN /\ results' \in [Port -> {"absent", "pending", "working", "done", "failed"}]
  BY <1>7 DEF FlInv, FlType
<1> QED
  BY <1>5, <1>7, <1>11, <1>14, <1>15, <1>16, PortsStay

\* One goroutine per target of ts, none of which is worked on.
LEMMA SpawnedInv ==
  ASSUME FlInv, NEW ts \in SUBSET Port, flashOpen, Spawned(ts),
         \A t \in ts : results[t] \notin Busy /\ results'[t] = "pending",
         \A t \in Port \ ts : results'[t] = results[t],
         results' \in [Port -> {"absent", "pending", "working", "done", "failed"}],
         UNCHANGED <<cancels, flashOpen, portV, chip>>
  PROVE  FlInv'
<1>1. PICK f \in [ts -> Free] :
        /\ \A t, u \in ts : t # u => f[t] # f[u]
        /\ job' = [j \in Jobs |-> IF \E t \in ts : f[t] = j
                     THEN [Idle EXCEPT !.t = CHOOSE t \in ts : f[t] = j, !.pc = "lock"] ELSE job[j]]
  BY DEF Spawned
<1>2. \A t \in ts : /\ f[t] \in Jobs /\ Pc(f[t]) = "none" /\ job'[f[t]] \in JobState
                    /\ job'[f[t]].t = t /\ job'[f[t]].pc = "lock"
  <2> SUFFICES ASSUME NEW t \in ts
               PROVE  /\ f[t] \in Jobs /\ Pc(f[t]) = "none" /\ job'[f[t]] \in JobState
                      /\ job'[f[t]].t = t /\ job'[f[t]].pc = "lock"
    OBVIOUS
  <2>1. f[t] \in Jobs /\ Pc(f[t]) = "none"
    BY <1>1 DEF Free
  <2>2. PICK u \in ts : u = CHOOSE w \in ts : f[w] = f[t]
    OBVIOUS
  <2>3. f[u] = f[t]
    BY <2>2
  <2>4. u = t
    BY <1>1, <2>3
  <2>5. job'[f[t]] = [Idle EXCEPT !.t = t, !.pc = "lock"]
    BY <1>1, <2>1, <2>2, <2>4
  <2>6. t \in Port
    OBVIOUS
  <2>7. /\ [Idle EXCEPT !.t = t, !.pc = "lock"] \in JobState
        /\ [Idle EXCEPT !.t = t, !.pc = "lock"].t = t /\ [Idle EXCEPT !.t = t, !.pc = "lock"].pc = "lock"
    BY <2>6, IdleFacts
  <2> QED
    BY <2>1, <2>5, <2>7
<1>3. \A j \in Jobs : job'[j] = job[j] \/ \E t \in ts : f[t] = j
  BY <1>1
<1>4. job' \in [Jobs -> JobState]
  <2>1. \A j \in Jobs : job'[j] \in JobState
    BY <1>2, <1>3, JobIsState
  <2>2. job' = [j \in Jobs |-> job'[j]]
    BY <1>1
  <2> QED
    BY <2>1, <2>2
<1>5. \A j \in Jobs : \/ job'[j] = job[j] /\ Pc(j)' = Pc(j)
                      \/ Pc(j) = "none" /\ Pc(j)' = "lock" /\ job'[j].t \in ts /\ f[job'[j].t] = j
  BY <1>2, <1>3 DEF Pc
<1>6. \A j \in Jobs : /\ Pc(j)' \in Holding => Pc(j) \in Holding /\ job'[j] = job[j]
                      /\ Pc(j)' \in Holding \ {"sem"} <=> Pc(j) \in Holding \ {"sem"}
                      /\ Pc(j)' \in Active => Pc(j) \in Active /\ job'[j] = job[j]
  BY <1>5 DEF Holding, Active
<1>7. SemHolders' = SemHolders
  BY <1>6 DEF SemHolders
<1>8. Locked' /\ CancelReaches'
  <2>1. Locked'
    BY <1>6 DEF FlInv, Locked
  <2>2. CancelReaches'
    BY <1>6 DEF FlInv, CancelReaches, Active
  <2> QED
    BY <2>1, <2>2
<1>9. ClosedIsDead'
  BY DEF ClosedIsDead
<1>10. \A t \in Port : results[t] \in Busy <=> Works(t)
  BY RowsWork DEF FlInv
<1>11. \A j \in Jobs : Pc(j) \in Working => job[j].t \notin ts
  BY <1>10, JobIsState DEF Works
<1>12. WorkedOnce'
  <2> SUFFICES ASSUME NEW j \in Jobs, NEW k \in Jobs, Pc(j)' \in Working, Pc(k)' \in Working,
                      job'[j].t = job'[k].t
               PROVE  j = k
    BY DEF WorkedOnce
  <2>1. CASE job'[j].t \in ts
    <3>1. ASSUME NEW i \in Jobs, Pc(i)' \in Working, job'[i].t \in ts PROVE f[job'[i].t] = i
      BY <1>5, <1>11, <3>1
    <3> QED
      BY <2>1, <3>1
  <2>2. CASE job'[j].t \notin ts
    <3>1. job'[j] = job[j] /\ Pc(j) \in Working /\ job'[k] = job[k] /\ Pc(k) \in Working
      BY <1>5, <2>2
    <3> QED
      BY <3>1 DEF FlInv, WorkedOnce
  <2> QED
    BY <2>1, <2>2
<1>13. RowIsJob'
  <2> SUFFICES ASSUME NEW t \in Port PROVE results'[t] \in Busy <=> Works(t)'
    BY RowsWork
  <2>1. CASE t \in ts
    <3>1. Works(t)'
      BY <1>2, <2>1 DEF Works, Working, Pc
    <3> QED
      BY <2>1, <3>1 DEF Busy
  <2>2. CASE t \notin ts
    <3>1. Works(t)' <=> Works(t)
      <4>1. \A j \in Jobs : job'[j].t = t /\ Pc(j)' \in Working <=> job[j].t = t /\ Pc(j) \in Working
        BY <1>5, <2>2 DEF Working
      <4> QED
        BY <4>1 DEF Works
    <3> QED
      BY <1>10, <2>2, <3>1
  <2> QED
    BY <2>1, <2>2
<1>14. JobsPart'
  BY <1>7, <1>8, <1>9, <1>12, <1>13 DEF FlInv, JobsPart
<1>15. \A k \in Jobs : Pc(k)' \in {"flash", "running"} =>
         Pc(k) \in {"flash", "running"} /\ job'[k].t = job[k].t /\ job'[k].age = job[k].age
  BY <1>5
<1>16. /\ cancels' \in [Port -> 0..MaxFlashJobs] /\ flashOpen' \in BOOLEAN
       /\ \A t \in Port : results'[t] = "done" => results[t] = "done"
  BY DEF FlInv, FlType
<1> QED
  BY <1>4, <1>14, <1>15, <1>16, PortsStay

LEMMA StartFlashInv == ASSUME FlInv, NEW ts \in SUBSET Port, StartFlash(ts) PROVE FlInv'
<1>1. /\ \A t \in ts : results[t] \notin Busy /\ results'[t] = "pending"
      /\ \A t \in Port \ ts : results'[t] = results[t]
      /\ results' \in [Port -> {"absent", "pending", "working", "done", "failed"}]
  BY DEF StartFlash, Busy
<1> QED
  BY <1>1, SpawnedInv DEF StartFlash

LEMMA RetryCursorInv == ASSUME FlInv, NEW t \in Port, RetryCursor(t) PROVE FlInv'
<1>1. PICK ts \in SUBSET Port : ts = {t}
  OBVIOUS
<1>2. /\ \A u \in ts : results[u] \notin Busy /\ results'[u] = "pending"
      /\ \A u \in Port \ ts : results'[u] = results[u]
      /\ results' \in [Port -> {"absent", "pending", "working", "done", "failed"}]
  BY <1>1 DEF RetryCursor, Busy, FlInv, FlType
<1> QED
  BY <1>1, <1>2, SpawnedInv DEF RetryCursor

LEMMA WorldInv ==
  ASSUME FlInv, UNCHANGED <<jobsV, results, flashOpen, gateCache, seen, chip>>,
         plugged' \in [Port -> BOOLEAN], gateTime' \in Nat
  PROVE  FlInv'
<1>1. FlType'
  BY DEF FlInv, FlType, jobsV
<1>2. job' \in [Jobs -> JobState] /\ JobsPart'
  BY JobsStay DEF FlInv, FlType, jobsV
<1>3. CacheIsSighting' /\ DoneIsWritten' /\ ConfirmedFresh'
  BY DEF FlInv, CacheIsSighting, DoneIsWritten, ConfirmedFresh, Pc, jobsV
<1> QED
  BY <1>1, <1>2, <1>3 DEF FlInv, JobsPart

LEMMA FlInvNext == FlInv /\ [FlNext]_flVars => FlInv'
<1> SUFFICES ASSUME FlInv, [FlNext]_flVars PROVE FlInv'
  OBVIOUS
<1>1. CASE \E ts \in SUBSET Port : StartFlash(ts)
  BY <1>1, StartFlashInv
<1>2. CASE \E t \in Port : RetryCursor(t) \/ Abort(t)
  BY <1>2, RetryCursorInv, AbortInv
<1>3. CASE \E t \in Port : Replug(t)
  <2>1. plugged' \in [Port -> BOOLEAN] /\ gateTime' \in Nat
    BY <1>3 DEF Replug, FlInv, FlType
  <2> QED
    BY <1>3, <2>1, WorldInv DEF Replug
<1>4. CASE \E j \in Jobs : TakeHostLock(j) \/ TakeSem(j) \/ RunTimeout(j) \/ Validate(j) \/ Stage(j)
  BY <1>4, TakeHostLockInv, TakeSemInv, RunTimeoutInv, ValidateInv, StageInv
<1>5. CASE \E j \in Jobs : Confirm(j) \/ RunOnce(j) \/ RunDone(j) \/ Release(j)
  BY <1>5, ConfirmInv, RunOnceInv, RunDoneInv, ReleaseInvFl
<1>6. CASE CloseFlash
  BY <1>6, CloseFlashInv
<1>7. CASE GateTick
  <2>1. plugged' \in [Port -> BOOLEAN] /\ gateTime' \in Nat
    BY <1>7 DEF GateTick, FlInv, FlType
  <2> QED
    BY <1>7, <2>1, WorldInv DEF GateTick
<1>8. CASE UNCHANGED flVars
  <2>1. plugged' \in [Port -> BOOLEAN] /\ gateTime' \in Nat
    BY <1>8 DEF flVars, portV, FlInv, FlType
  <2> QED
    BY <1>8, <2>1, WorldInv DEF flVars, portV
<1> QED
  BY <1>1, <1>2, <1>3, <1>4, <1>5, <1>6, <1>7, <1>8 DEF FlNext

\* One flash per host and at most Parallel in all, an abort reaches the job that
\* works, esptool starts only on a port udev has called a PicPak, the matrix
\* shows the jobs there are, and a row shown as done is written to the last
\* byte (flash/controller.go, sshhost/gate.go, flashpane/pane.go), for every set
\* of ports and hosts, every number of jobs, retries and files.
THEOREM FlashesAreSound == FlSpec => []FlashSound
<1>1. FlInv => FlashSound
  <2> SUFFICES ASSUME FlInv PROVE FlashSound
    OBVIOUS
  <2> DEFINE busy == {j \in Jobs : Pc(j) \in Holding \ {"sem", "cleared"}}
  <2>1. busy \subseteq SemHolders /\ SemHolders \in SUBSET Jobs /\ busy \in SUBSET Jobs
    BY DEF SemHolders
  <2>2. IsFiniteSet(SemHolders) /\ Cardinality(SemHolders) \in Nat /\ Cardinality(busy) \in Nat
    BY <2>1, HoldersFinite
  <2>3. Cardinality(busy) <= Parallel
    <3>1. Cardinality(busy) <= Cardinality(SemHolders)
      BY <2>1, <2>2, FS_Subset
    <3> QED
      BY <2>2, <3>1, FlAssumption DEF FlInv
  <2>4. \A j, k \in busy : j # k => HostOf(job[j].t) # HostOf(job[k].t)
    BY DEF FlInv, Locked
  <2> QED
    BY <2>3, <2>4 DEF FlInv, FlashSound, HostExclusive
<1> QED
  BY <1>1, FlInvInit, FlInvNext, PTL DEF FlSpec

----------------------------------------------------------------------------
(* The OTA pane (OtInv).                                                   *)

OtaKinds == {"load", "scan", "register", "channel", "pin", "unpin"} \cup States
OtaState == [fw : SUBSET Versions, blob : SUBSET Versions, targets : Table, dflt : Versions \cup {0}]
ShownTables == [dflt : Versions \cup {0, -1}, targets : Table]

LEMMA RowFacts ==
  /\ NoRow \in RolloutRow /\ NotShown.targets \in Table
  /\ \A v \in Versions, s \in States, b \in BOOLEAN : [ver |-> v, state |-> s, pinned |-> b] \in RolloutRow
  /\ \A r \in RolloutRow : r.state = "active" => r.ver \in Versions /\ r.ver # 0 /\ r.pinned \in BOOLEAN
<1>1. NoRow \in RolloutRow
  BY DEF RolloutRow
<1>2. NotShown.targets \in Table
  BY <1>1 DEF NotShown, Table, Targets
<1>3. \A v \in Versions, s \in States, b \in BOOLEAN : [ver |-> v, state |-> s, pinned |-> b] \in RolloutRow
  BY Zenon DEF RolloutRow, States
<1>4. \A r \in RolloutRow : r.state = "active" => r.ver \in Versions /\ r.ver # 0 /\ r.pinned \in BOOLEAN
  BY OtAssumption DEF RolloutRow, Versions, NoRow
<1> QED
  BY <1>1, <1>2, <1>3, <1>4

LEMMA CmdFacts ==
  ASSUME NEW k \in OtaKinds, NEW s \in Targets \cup {"none"}, NEW v \in Versions \cup {0},
         k = "register" => v \in Versions, k \in States \cup {"pin", "unpin"} => s \in Targets
  PROVE  Fits(Cmd(k, s, v)) /\ Cmd(k, s, v).kind = k
<1>1. PICK t \in Table : t = NotShown.targets
  BY RowFacts
<1>2. Cmd(k, s, v) = [kind |-> k, serial |-> s, ver |-> v, pc |-> "run", dflt |-> 0, targets |-> t]
  BY <1>1 DEF Cmd
<1>3. Cmd(k, s, v) \in Command
  BY <1>2 DEF Command, OtaKinds
<1> QED
  BY <1>2, <1>3 DEF Fits

LEMMA LoadFits == Fits(Load) /\ Load.kind = "load"
<1>1. /\ "load" \in OtaKinds /\ "load" \notin States \cup {"pin", "unpin"}
      /\ "none" \in Targets \cup {"none"} /\ 0 \in Versions \cup {0}
  BY DEF OtaKinds, States
<1> QED
  BY <1>1, CmdFacts DEF Load

\* The prediction and the backend's decision are one function of the rows,
\* because a row in force names a version.
LEMMA SamePrediction ==
  ASSUME NEW st \in ShownTables, NEW d \in OtaDev
  PROVE  PredictTarget(st, d) = ServedTarget(st, d)
<1> DEFINE R(k) == ResolveStep(Precedence[k], st, d)
           Y == {k \in DOMAIN Precedence : R(k) # 0}
           Least(k) == k \in Y /\ \A j \in Y : k <= j
<1>1. PICK r \in RolloutRow, f \in RolloutRow : r = st.targets[d] /\ f = st.targets[AllDevices]
  BY DEF ShownTables, Table, Targets
<1>2. /\ r.state = "active" => r.ver # 0 /\ r.pinned \in BOOLEAN
      /\ f.state = "active" => f.ver # 0
  BY RowFacts
<1>3. DOMAIN Precedence = 1..4
  BY DEF Precedence
<1>4. /\ R(1) = IF r.state = "active" /\ r.pinned THEN r.ver ELSE 0
      /\ R(2) = IF r.state = "active" THEN r.ver ELSE 0
      /\ R(3) = IF f.state = "active" THEN f.ver ELSE 0
      /\ R(4) = st.dflt
  BY <1>1 DEF ResolveStep, Precedence, FindActiveRollout
<1>5. \A k \in Y : k \in {1, 2, 3, 4} /\ R(k) # 0
  BY <1>3
<1>6. \A k \in {1, 2, 3, 4} : R(k) # 0 => k \in Y
  BY <1>3
<1>7. ASSUME NEW k \in {1, 2, 3, 4}, R(k) # 0, \A j \in {1, 2, 3, 4} : j < k => R(j) = 0
      PROVE  PredictTarget(st, d) = R(k)
  <2>1. Least(k)
    <3>1. ASSUME NEW j \in Y PROVE k <= j
      BY <1>5, <1>7, <3>1
    <3> QED
      BY <1>6, <1>7, <3>1
  <2>2. \A j : Least(j) => j = k
    <3> SUFFICES ASSUME NEW j, Least(j) PROVE j = k
      OBVIOUS
    <3>1. k \in Y /\ j \in {1, 2, 3, 4}
      BY <2>1, <1>5
    <3>2. j <= k /\ k <= j
      BY <2>1, <3>1
    <3> QED
      BY <3>1, <3>2
  <2>3. (CHOOSE j : Least(j)) = k
    BY <2>1, <2>2, Zenon
  <2>4. (CHOOSE j \in Y : \A h \in Y : j <= h) = k
    BY <2>3, Zenon
  <2>5. Y # {}
    BY <2>1
  <2> QED
    BY <2>4, <2>5 DEF PredictTarget
<1>8. ASSUME \A k \in {1, 2, 3, 4} : R(k) = 0 PROVE PredictTarget(st, d) = 0
  <2>1. Y = {}
    BY <1>5, <1>8
  <2> QED
    BY <2>1 DEF PredictTarget
<1>9. ServedTarget(st, d) = IF r.state = "active" THEN r.ver ELSE IF f.state = "active" THEN f.ver ELSE st.dflt
  BY <1>1 DEF ServedTarget
<1> HIDE DEF R
<1>10. CASE r.state = "active" /\ r.pinned
  BY <1>2, <1>4, <1>7, <1>9, <1>10
<1>11. CASE r.state = "active" /\ ~r.pinned
  BY <1>2, <1>4, <1>7, <1>9, <1>11
<1>12. CASE r.state # "active" /\ f.state = "active"
  BY <1>2, <1>4, <1>7, <1>9, <1>12
<1>13. CASE r.state # "active" /\ f.state # "active"
  <2>1. R(1) = 0 /\ R(2) = 0 /\ R(3) = 0 /\ R(4) = st.dflt /\ ServedTarget(st, d) = st.dflt
    BY <1>4, <1>9, <1>13
  <2> QED
    BY <1>7, <1>8, <2>1
<1> QED
  BY <1>10, <1>11, <1>12, <1>13

LEMMA OtInvInit == OtInit => OtInv
<1> SUFFICES ASSUME OtInit PROVE OtInv
  OBVIOUS
<1>1. OtType
  <2>1. PICK rows \in [OtaDev \cup {AllDevices} -> InitRows] :
          otaDb = [fw |-> Registered, blob |-> Registered, targets |-> rows, dflt |-> 0]
    BY DEF OtInit
  <2>2. \A r \in InitRows : r \in RolloutRow
    <3>1. ASSUME NEW r \in [ver : Registered, state : {"paused"}, pinned : {TRUE}] PROVE r \in RolloutRow
      <4>1. r = [ver |-> r.ver, state |-> "paused", pinned |-> TRUE] /\ r.ver \in Versions
        BY DEF Versions
      <4>2. "paused" \in States /\ TRUE \in BOOLEAN
        BY DEF States
      <4> QED
        BY <4>1, <4>2, RowFacts
    <3> QED
      BY <3>1, RowFacts DEF InitRows
  <2>3. rows \in Table
    BY <2>1, <2>2 DEF Table, Targets
  <2>4. otaDb \in OtaState
    BY <2>1, <2>3 DEF OtaState, Versions
  <2>5. otaShown \in ShownTables
    BY RowFacts DEF OtInit, ShownTables, NotShown
  <2>6. unpack \in BOOLEAN /\ (otaTick => unpack)
    BY UiAssumption, Zenon DEF OtInit
  <2> QED
    BY <2>4, <2>5, <2>6 DEF OtInit, OtType, OtaState, ShownTables
<1>2. CommandsFit
  BY LoadFits, OtAssumption DEF OtInit, CommandsFit
<1>3. BusyIsReal
  BY DEF OtInit, BusyIsReal
<1>4. RowHasBlob
  BY DEF OtInit, RowHasBlob
<1> QED
  BY <1>1, <1>2, <1>3, <1>4 DEF OtInv

\* A command that is issued goes where none was.
LEMMA IssueFacts ==
  ASSUME OtInv, NEW c, Fits(c), Issue(c)
  PROVE  /\ DOMAIN otaCmds' = 1..MaxCmds /\ issued' \in Nat /\ CommandsFit'
         /\ issued + 1 \in 1..MaxCmds /\ otaCmds'[issued + 1] = c
         /\ \A j \in 1..MaxCmds : otaCmds[j] # NoCmd => otaCmds'[j] = otaCmds[j]
<1>1. issued \in Nat /\ DOMAIN otaCmds = 1..MaxCmds /\ CommandsFit /\ MaxCmds \in Nat
  BY OtAssumption DEF OtInv, OtType
<1>2. issued + 1 \in 1..MaxCmds /\ otaCmds[issued + 1] = NoCmd
  BY <1>1 DEF Issue, CommandsFit
<1>3. /\ issued' = issued + 1 /\ DOMAIN otaCmds' = 1..MaxCmds
      /\ \A j \in 1..MaxCmds : otaCmds'[j] = IF j = issued + 1 THEN c ELSE otaCmds[j]
  BY <1>1 DEF Issue
<1> QED
  BY <1>1, <1>2, <1>3 DEF CommandsFit

\* A command that is answered or goes on stays in its place.
LEMMA DoneFacts ==
  ASSUME OtInv, NEW i \in 1..MaxCmds, otaCmds[i] # NoCmd, NEW c, c = NoCmd \/ Fits(c),
         Done(i, c), issued' = issued
  PROVE  /\ DOMAIN otaCmds' = 1..MaxCmds /\ issued' \in Nat /\ CommandsFit'
         /\ otaCmds'[i] = c /\ \A j \in 1..MaxCmds : j # i => otaCmds'[j] = otaCmds[j]
<1>1. issued \in Nat /\ DOMAIN otaCmds = 1..MaxCmds /\ CommandsFit /\ MaxCmds \in Nat
  BY OtAssumption DEF OtInv, OtType
<1>2. /\ DOMAIN otaCmds' = 1..MaxCmds
      /\ \A j \in 1..MaxCmds : otaCmds'[j] = IF j = i THEN c ELSE otaCmds[j]
  BY <1>1 DEF Done
<1> QED
  BY <1>1, <1>2 DEF CommandsFit

\* A step of a command beside the loop: it keeps its kind, so the pane stays as
\* busy as it was.
LEMMA CommandStep ==
  ASSUME OtInv, NEW i \in 1..MaxCmds, otaCmds[i].kind # "none", NEW c, Fits(c), Done(i, c),
         c.kind = otaCmds[i].kind, otaDb' \in OtaState, otaDb'.fw \subseteq otaDb'.blob,
         UNCHANGED <<unpack, issued, otaTick, otaV, answered>>
  PROVE  OtInv'
<1>1. otaCmds[i] # NoCmd
  BY DEF NoCmd
<1>2. /\ DOMAIN otaCmds' = 1..MaxCmds /\ issued' \in Nat /\ CommandsFit'
      /\ otaCmds'[i] = c /\ \A j \in 1..MaxCmds : j # i => otaCmds'[j] = otaCmds[j]
  BY <1>1, DoneFacts
<1>3. OtType'
  BY <1>2 DEF OtInv, OtType, OtaState, otaV
<1>4. BusyIsReal'
  <2> SUFFICES ASSUME otaOpen, answered, inFlight
               PROVE  \E j \in DOMAIN otaCmds' : otaCmds'[j].kind \notin {"none", "scan"}
    BY DEF BusyIsReal, otaV
  <2>1. PICK j \in 1..MaxCmds : otaCmds[j].kind \notin {"none", "scan"}
    BY DEF OtInv, OtType, BusyIsReal
  <2> QED
    BY <1>2, <2>1
<1> QED
  BY <1>2, <1>3, <1>4 DEF OtInv, RowHasBlob

\* The pane issues a command and is busy with it, or it is a scan.
LEMMA IssueStep ==
  ASSUME OtInv, NEW c, Fits(c), Issue(c), c.kind # "scan" \/ UNCHANGED <<inFlight, answered, otaOpen>>,
         UNCHANGED <<unpack, otaDb, otaShown>>, otaTick' => unpack
  PROVE  OtInv'
<1>1. /\ DOMAIN otaCmds' = 1..MaxCmds /\ issued' \in Nat /\ CommandsFit'
      /\ issued + 1 \in 1..MaxCmds /\ otaCmds'[issued + 1] = c
      /\ \A j \in 1..MaxCmds : otaCmds[j] # NoCmd => otaCmds'[j] = otaCmds[j]
  BY IssueFacts
<1>2. OtType'
  BY <1>1 DEF OtInv, OtType
<1>3. BusyIsReal'
  <2>1. CASE c.kind # "scan"
    <3>1. c.kind # "none"
      BY DEF Fits, Command, States
    <3> QED
      BY <1>1, <2>1, <3>1 DEF BusyIsReal
  <2>2. CASE UNCHANGED <<inFlight, answered, otaOpen>>
    <3> SUFFICES ASSUME otaOpen, answered, inFlight
                 PROVE  \E j \in DOMAIN otaCmds' : otaCmds'[j].kind \notin {"none", "scan"}
      BY <2>2 DEF BusyIsReal
    <3>1. PICK j \in 1..MaxCmds : otaCmds[j].kind \notin {"none", "scan"}
      BY DEF OtInv, OtType, BusyIsReal
    <3>2. otaCmds[j] # NoCmd
      BY <3>1 DEF NoCmd
    <3> QED
      BY <1>1, <3>1, <3>2
  <2> QED
    BY <2>1, <2>2
<1> QED
  BY <1>1, <1>2, <1>3 DEF OtInv, RowHasBlob

\* A command under way, as a value, and the places it can reach.
LEMMA RunningIsCommand ==
  ASSUME OtInv, NEW i \in 1..MaxCmds, otaCmds[i].kind # "none"
  PROVE  Fits(otaCmds[i]) /\ otaCmds[i] \in Command
BY DEF OtInv, CommandsFit, NoCmd, Fits

LEMMA PcFits ==
  ASSUME NEW c, Fits(c), NEW q \in {"run", "rollouts", "ok", "err"}
  PROVE  Fits([c EXCEPT !.pc = q]) /\ [c EXCEPT !.pc = q].kind = c.kind
<1>1. c \in Command
  BY DEF Fits
<1>2. [c EXCEPT !.pc = q] \in Command
  BY <1>1 DEF Command
<1>3. /\ [c EXCEPT !.pc = q].kind = c.kind /\ [c EXCEPT !.pc = q].ver = c.ver
      /\ [c EXCEPT !.pc = q].serial = c.serial
  BY <1>1 DEF Command
<1> QED
  BY <1>2, <1>3 DEF Fits

\* Setting a row, and setting its state, leaves a table a table.
LEMMA RowSet ==
  ASSUME NEW db \in OtaState, NEW s \in Targets
  PROVE  /\ \A r \in RolloutRow : /\ [db EXCEPT !.targets[s] = r] \in OtaState
                                  /\ [db EXCEPT !.targets[s] = r].fw = db.fw
                                  /\ [db EXCEPT !.targets[s] = r].blob = db.blob
         /\ \A k \in States : db.targets[s] # NoRow =>
              /\ [db EXCEPT !.targets[s].state = k] \in OtaState
              /\ [db EXCEPT !.targets[s].state = k].fw = db.fw
              /\ [db EXCEPT !.targets[s].state = k].blob = db.blob
<1>1. PICK t \in Table : t = db.targets
  BY DEF OtaState
<1>2. ASSUME NEW r \in RolloutRow
      PROVE  /\ [db EXCEPT !.targets[s] = r] \in OtaState
             /\ [db EXCEPT !.targets[s] = r].fw = db.fw
             /\ [db EXCEPT !.targets[s] = r].blob = db.blob
  <2>1. PICK u \in Table : u = [t EXCEPT ![s] = r]
    BY <1>1 DEF Table
  <2>2. [db EXCEPT !.targets[s] = r] = [db EXCEPT !.targets = u]
    BY <1>1, <2>1 DEF OtaState
  <2> QED
    BY <2>1, <2>2 DEF OtaState
<1>3. ASSUME NEW k \in States, t[s] # NoRow
      PROVE  /\ [db EXCEPT !.targets[s].state = k] \in OtaState
             /\ [db EXCEPT !.targets[s].state = k].fw = db.fw
             /\ [db EXCEPT !.targets[s].state = k].blob = db.blob
  <2>1. PICK r \in [ver : Versions, state : States, pinned : BOOLEAN] : r = t[s]
    BY <1>3 DEF Table, RolloutRow, States
  <2>2. [r EXCEPT !.state = k] \in RolloutRow
    BY <1>3, <2>1 DEF RolloutRow, States
  <2>3. PICK z \in RolloutRow : z = [r EXCEPT !.state = k]
    BY <2>2
  <2>4. [db EXCEPT !.targets[s].state = k] = [db EXCEPT !.targets[s] = z]
    BY <1>1, <2>1, <2>3 DEF OtaState, Table
  <2> QED
    BY <1>2, <2>4
<1> QED
  BY <1>1, <1>2, <1>3

LEMMA OtInvCommands ==
  ASSUME OtInv, NEW i \in 1..MaxCmds, NEW b \in BOOLEAN,
         RunLoad(i, b) \/ RegisterFirmware(i, b) \/ ScanArtifact(i) \/ PinRollout(i)
           \/ SetChannelDefault(i) \/ SetRolloutState(i)
  PROVE  OtInv'
<1>0. /\ otaCmds[i].kind # "none" /\ UNCHANGED <<unpack, issued, otaTick, otaV, answered>>
  BY DEF RunLoad, RegisterFirmware, ScanArtifact, PinRollout, SetChannelDefault, SetRolloutState, Running, States
<1>1. PICK c \in Command : c = otaCmds[i] /\ Fits(c)
  BY <1>0, RunningIsCommand
<1>2. otaDb \in OtaState /\ otaDb.fw \subseteq otaDb.blob
  BY DEF OtInv, OtType, OtaState, RowHasBlob
<1>3. ASSUME NEW q \in {"run", "rollouts", "ok", "err"}, Done(i, [c EXCEPT !.pc = q]),
             otaDb' \in OtaState, otaDb'.fw \subseteq otaDb'.blob
      PROVE  OtInv'
  BY <1>0, <1>1, <1>3, PcFits, CommandStep
<1>4. CASE RunLoad(i, b)
  <2>1. otaDb' = otaDb
    BY <1>4 DEF RunLoad
  <2>2. CASE ~b
    <3>1. Done(i, [c EXCEPT !.pc = "err"])
      BY <1>1, <1>4, <2>2 DEF RunLoad
    <3> QED
      BY <1>2, <1>3, <2>1, <3>1
  <2>3. CASE b /\ c.pc = "run"
    <3>1. PICK d \in Versions \cup {0} : d = otaDb.dflt
      BY <1>2 DEF OtaState
    <3>2. Done(i, [c EXCEPT !.pc = "rollouts", !.dflt = d])
      BY <1>1, <1>4, <2>3, <3>1 DEF RunLoad
    <3>3. PICK z \in Command : z = [c EXCEPT !.pc = "rollouts", !.dflt = d]
      BY DEF Command
    <3>4. z.kind = c.kind /\ z.ver = c.ver /\ z.serial = c.serial
      BY <3>3 DEF Command
    <3>5. Fits(z)
      BY <1>1, <3>4 DEF Fits
    <3> QED
      BY <1>0, <1>1, <1>2, <2>1, <3>2, <3>3, <3>4, <3>5, CommandStep
  <2>4. CASE b /\ c.pc # "run"
    <3>1. PICK t \in Table : t = otaDb.targets
      BY <1>2 DEF OtaState
    <3>2. Done(i, [c EXCEPT !.pc = "ok", !.targets = t])
      BY <1>1, <1>4, <2>4, <3>1 DEF RunLoad
    <3>3. PICK z \in Command : z = [c EXCEPT !.pc = "ok", !.targets = t]
      BY DEF Command
    <3>4. z.kind = c.kind /\ z.ver = c.ver /\ z.serial = c.serial
      BY <3>3 DEF Command
    <3>5. Fits(z)
      BY <1>1, <3>4 DEF Fits
    <3> QED
      BY <1>0, <1>1, <1>2, <2>1, <3>2, <3>3, <3>4, <3>5, CommandStep
  <2> QED
    BY <2>2, <2>3, <2>4
<1>5. CASE RegisterFirmware(i, b)
  <2>1. PICK v \in Versions : v = c.ver
    BY <1>1, <1>5 DEF RegisterFirmware, Running, Fits
  <2>2. PICK blob \in SUBSET Versions : blob = IF b THEN otaDb.blob \cup {v} ELSE otaDb.blob
    BY <1>2 DEF OtaState
  <2>3. PICK fw \in SUBSET Versions :
          /\ fw = IF b /\ v \notin otaDb.fw THEN otaDb.fw \cup {v} ELSE otaDb.fw
    BY <1>2 DEF OtaState
  <2>4. otaDb' = [otaDb EXCEPT !.blob = blob, !.fw = fw]
    <3>1. PlaceBlob(v, b).ok = b /\ PlaceBlob(v, b).blob = blob
      BY <2>2 DEF PlaceBlob
    <3> QED
      BY <1>1, <1>5, <2>1, <2>2, <2>3, <3>1 DEF RegisterFirmware
  <2>5. otaDb' \in OtaState /\ otaDb'.fw = fw /\ otaDb'.blob = blob
    BY <1>2, <2>4 DEF OtaState
  <2>6. fw \subseteq blob
    BY <1>2, <2>2, <2>3
  <2>7. PICK q \in {"run", "rollouts", "ok", "err"} : Done(i, [c EXCEPT !.pc = q])
    BY <1>1, <1>5 DEF RegisterFirmware
  <2> QED
    BY <1>3, <2>5, <2>6, <2>7
<1>6. CASE ScanArtifact(i)
  <2>1. otaDb' = otaDb /\ Done(i, [c EXCEPT !.pc = "ok"])
    BY <1>1, <1>6 DEF ScanArtifact
  <2> QED
    BY <1>2, <1>3, <2>1
<1>7. CASE PinRollout(i)
  <2>1. c.serial \in Targets /\ c.kind \in {"pin", "unpin"}
    BY <1>1, <1>7 DEF PinRollout, Fits
  <2>2. PICK q \in {"run", "rollouts", "ok", "err"} : Done(i, [c EXCEPT !.pc = q])
    BY <1>1, <1>7 DEF PinRollout
  <2>3. CASE c.ver \in otaDb.fw
    <3>1. PICK r \in RolloutRow : r = [ver |-> c.ver, state |-> "active", pinned |-> c.kind = "pin"]
      <4>1. c.ver \in Versions /\ "active" \in States /\ (c.kind = "pin") \in BOOLEAN
        BY <1>2, <2>3 DEF OtaState, States
      <4> QED
        BY <4>1, RowFacts
    <3>2. otaDb' = [otaDb EXCEPT !.targets[c.serial] = r]
      BY <1>1, <1>7, <2>3, <3>1 DEF PinRollout
    <3> QED
      BY <1>2, <1>3, <2>1, <2>2, <3>2, RowSet
  <2>4. CASE c.ver \notin otaDb.fw
    BY <1>1, <1>2, <1>3, <1>7, <2>2, <2>4 DEF PinRollout
  <2> QED
    BY <2>3, <2>4
<1>8. CASE SetChannelDefault(i)
  <2>1. PICK q \in {"run", "rollouts", "ok", "err"} : Done(i, [c EXCEPT !.pc = q])
    BY <1>1, <1>8 DEF SetChannelDefault
  <2>2. CASE c.ver \in otaDb.fw
    <3>1. otaDb' = [otaDb EXCEPT !.dflt = c.ver]
      BY <1>1, <1>8, <2>2 DEF SetChannelDefault
    <3>2. otaDb' \in OtaState /\ otaDb'.fw = otaDb.fw /\ otaDb'.blob = otaDb.blob
      BY <1>2, <2>2, <3>1 DEF OtaState
    <3> QED
      BY <1>2, <1>3, <2>1, <3>2
  <2>3. CASE c.ver \notin otaDb.fw
    BY <1>1, <1>2, <1>3, <1>8, <2>1, <2>3 DEF SetChannelDefault
  <2> QED
    BY <2>2, <2>3
<1>9. CASE SetRolloutState(i)
  <2>1. c.serial \in Targets /\ c.kind \in States
    BY <1>1, <1>9 DEF SetRolloutState, Fits, States
  <2>2. PICK q \in {"run", "rollouts", "ok", "err"} : Done(i, [c EXCEPT !.pc = q])
    BY <1>1, <1>9 DEF SetRolloutState
  <2>3. CASE otaDb.targets[c.serial] # NoRow
    <3>1. otaDb' = [otaDb EXCEPT !.targets[c.serial].state = c.kind]
      BY <1>1, <1>9, <2>3 DEF SetRolloutState
    <3> QED
      BY <1>2, <1>3, <2>1, <2>2, <2>3, <3>1, RowSet
  <2>4. CASE otaDb.targets[c.serial] = NoRow
    BY <1>1, <1>2, <1>3, <1>9, <2>2, <2>4 DEF SetRolloutState
  <2> QED
    BY <2>3, <2>4
<1> QED
  BY <1>4, <1>5, <1>6, <1>7, <1>8, <1>9

LEMMA OtInvNext == OtInv /\ [OtNext]_otVars => OtInv'
<1> SUFFICES ASSUME OtInv, [OtNext]_otVars PROVE OtInv'
  OBVIOUS
<1>0. /\ OtType /\ CommandsFit /\ BusyIsReal /\ RowHasBlob /\ issued \in Nat
      /\ DOMAIN otaCmds = 1..MaxCmds /\ (otaTick => unpack)
      /\ otaDb \in OtaState /\ otaShown \in ShownTables
  BY DEF OtInv, OtType, OtaState, ShownTables
<1>1. ASSUME NEW i \in 1..MaxCmds, OnState(i) PROVE OtInv'
  <2>1. otaCmds[i] # NoCmd
    BY <1>1 DEF OnState, NoCmd
  <2>2. DOMAIN otaCmds' = 1..MaxCmds /\ issued' \in Nat /\ CommandsFit'
    BY <1>1, <2>1, DoneFacts DEF OnState
  <2>3. otaShown' \in ShownTables
    <3>1. CASE ~otaOpen
      BY <1>0, <1>1, <3>1 DEF OnState
    <3>2. CASE otaOpen
      <4>1. PICK c \in Command : c = otaCmds[i]
        BY <1>1, RunningIsCommand DEF OnState
      <4>2. PICK s \in ShownTables : s = [dflt |-> c.dflt, targets |-> c.targets]
        BY DEF Command, ShownTables
      <4> QED
        BY <1>0, <1>1, <3>2, <4>1, <4>2 DEF OnState
    <3> QED
      BY <3>1, <3>2
  <2>4. OtType'
    BY <1>0, <1>1, <2>2, <2>3 DEF OnState, OtType, ShownTables
  <2>5. BusyIsReal'
    BY <1>1 DEF OnState, BusyIsReal
  <2> QED
    BY <1>0, <1>1, <2>2, <2>4, <2>5 DEF OtInv, OnState, RowHasBlob
<1>2. ASSUME NEW i \in 1..MaxCmds, OnArtifactScanned(i) PROVE OtInv'
  <2>1. otaCmds[i] # NoCmd /\ otaCmds[i].kind = "scan"
    BY <1>2 DEF OnArtifactScanned, NoCmd
  <2>2. /\ DOMAIN otaCmds' = 1..MaxCmds /\ issued' \in Nat /\ CommandsFit'
        /\ \A j \in 1..MaxCmds : j # i => otaCmds'[j] = otaCmds[j]
    BY <1>2, <2>1, DoneFacts DEF OnArtifactScanned
  <2>3. UNCHANGED <<unpack, otaDb, otaTick, inFlight, otaShown, otaOpen, answered>>
    BY <1>2 DEF OnArtifactScanned
  <2>4. OtType'
    BY <1>0, <2>2, <2>3 DEF OtType
  <2>5. BusyIsReal'
    BY <1>0, <2>1, <2>2, <2>3 DEF BusyIsReal
  <2> QED
    BY <1>0, <2>2, <2>3, <2>4, <2>5 DEF OtInv, RowHasBlob
<1>3. ASSUME NEW i \in 1..MaxCmds, OnWriteResult(i) PROVE OtInv'
  <2>1. i <= issued /\ MaxCmds \in Nat
    BY <1>0, <1>3, OtAssumption DEF OnWriteResult, CommandsFit, NoCmd
  <2>2. PICK again \in BOOLEAN : again = (otaOpen /\ otaCmds[i].pc = "ok")
    OBVIOUS
  <2>3. /\ again => issued < MaxCmds
        /\ otaCmds' = [j \in 1..MaxCmds |-> IF j = i THEN NoCmd
                                            ELSE IF again /\ j = issued + 1 THEN Load ELSE otaCmds[j]]
        /\ issued' = IF again THEN issued + 1 ELSE issued
        /\ otaOpen => inFlight' = again
        /\ UNCHANGED <<unpack, otaDb, otaTick, otaShown, otaOpen>>
    BY <1>0, <1>3, <2>2 DEF OnWriteResult
  <2>4. OtType'
    BY <1>0, <2>3 DEF OtType
  <2>5. CommandsFit'
    <3> SUFFICES ASSUME NEW j \in 1..MaxCmds
                 PROVE  /\ otaCmds'[j] = NoCmd \/ Fits(otaCmds'[j])
                        /\ j > issued' => otaCmds'[j] = NoCmd
      BY DEF CommandsFit
    <3> QED
      BY <1>0, <2>1, <2>3, LoadFits DEF CommandsFit
  <2>6. BusyIsReal'
    <3> SUFFICES ASSUME otaOpen, again PROVE \E j \in DOMAIN otaCmds' : otaCmds'[j].kind \notin {"none", "scan"}
      BY <2>3 DEF BusyIsReal
    <3>1. issued + 1 \in 1..MaxCmds /\ issued + 1 # i
      BY <1>0, <2>1, <2>3
    <3>2. otaCmds'[issued + 1] = Load
      BY <2>3, <3>1
    <3> QED
      BY <2>3, <3>1, <3>2, LoadFits
  <2> QED
    BY <1>0, <2>3, <2>4, <2>5, <2>6 DEF OtInv, RowHasBlob
<1>4. ASSUME NEW d \in OtaDev, DeleteDevice(d) PROVE OtInv'
  <2>1. otaDb' = [otaDb EXCEPT !.targets[d] = NoRow] /\ d \in Targets
    BY <1>4 DEF DeleteDevice, Targets
  <2>2. otaDb' \in OtaState /\ otaDb'.fw = otaDb.fw /\ otaDb'.blob = otaDb.blob
    BY <1>0, <2>1, RowSet, RowFacts
  <2>3. UNCHANGED <<unpack, otaCmds, issued, otaTick, inFlight, otaShown, otaOpen, answered>>
    BY <1>4 DEF DeleteDevice, otaV
  <2>4. OtType'
    BY <1>0, <2>2, <2>3 DEF OtType, OtaState
  <2> QED
    BY <1>0, <2>2, <2>3, <2>4 DEF OtInv, CommandsFit, BusyIsReal, RowHasBlob
<1>5. ASSUME NEW b \in BOOLEAN, OnTick(b) PROVE OtInv'
  <2>1. CASE b /\ ~inFlight
    <3>1. Issue(Load) /\ unpack
      BY <1>0, <1>5, <2>1 DEF OnTick, IssueWithTick
    <3>2. UNCHANGED <<unpack, otaDb, otaShown>>
      BY <1>5 DEF OnTick
    <3> QED
      BY <3>1, <3>2, LoadFits, IssueStep
  <2>2. CASE ~(b /\ ~inFlight)
    <3>1. UNCHANGED <<unpack, otaDb, otaCmds, issued, otaTick, inFlight, otaShown, otaOpen, answered>>
      BY <1>5, <2>2 DEF OnTick
    <3> QED
      BY <1>0, <3>1 DEF OtInv, OtType, CommandsFit, BusyIsReal, RowHasBlob
  <2> QED
    BY <2>1, <2>2
<1>6. CASE Refresh
  BY <1>0, <1>6, LoadFits, IssueStep DEF Refresh
<1>7. CASE OpenRegister
  <2>1. "scan" \in OtaKinds /\ "scan" \notin States \cup {"pin", "unpin"}
    BY DEF OtaKinds, States
  <2>2. Fits(Cmd("scan", "none", 0))
    BY <2>1, CmdFacts
  <2> QED
    BY <1>0, <1>7, <2>2, IssueStep DEF OpenRegister
<1>8. ASSUME NEW k \in OtaKinds \ {"load", "scan"}, NEW s \in Targets \cup {"none"}, NEW v \in Versions \cup {0},
             k = "register" => v \in Versions, k \in States \cup {"pin", "unpin"} => s \in Targets,
             Write(Cmd(k, s, v))
      PROVE  OtInv'
  <2>1. Fits(Cmd(k, s, v)) /\ Cmd(k, s, v).kind = k
    BY <1>8, CmdFacts
  <2>2. Issue(Cmd(k, s, v)) /\ UNCHANGED <<unpack, otaDb, otaTick, otaShown>>
    BY <1>8 DEF Write
  <2> QED
    BY <1>0, <2>1, <2>2, IssueStep
<1>9. /\ {"register", "channel", "pin", "unpin", "paused", "active", "done"} \subseteq OtaKinds \ {"load", "scan"}
      /\ "register" \notin States \cup {"pin", "unpin"} /\ "channel" \notin States \cup {"pin", "unpin"}
  BY DEF OtaKinds, States
<1>10. ASSUME NEW s \in OtaDev \cup {AllDevices}, NEW v \in OtaVer, FormSubmit(s, v) PROVE OtInv'
  <2>1. s \in Targets /\ v \in Versions
    BY DEF Targets, Versions
  <2>2. CASE Write(Cmd("register", "none", v))
    BY <1>8, <1>9, <2>1, <2>2
  <2>3. CASE Write(Cmd("channel", "none", v))
    BY <1>8, <1>9, <2>1, <2>3
  <2>4. CASE Write(Cmd("pin", s, v))
    BY <1>8, <1>9, <2>1, <2>4
  <2> QED
    BY <1>10, <2>2, <2>3, <2>4 DEF FormSubmit
<1>11. ASSUME NEW d \in OtaDev, OnSelected(d) PROVE OtInv'
  <2>1. d \in Targets
    BY DEF Targets
  <2>2. PICK r \in RolloutRow : r = otaShown.targets[d]
    BY <1>0, <2>1 DEF ShownTables, Table
  <2>3. r.ver \in Versions \cup {0}
    BY <2>2 DEF RolloutRow, NoRow
  <2>4. CASE Write(Cmd("unpin", d, r.ver))
    BY <1>8, <1>9, <2>1, <2>3, <2>4
  <2>5. CASE Write(Cmd("active", d, 0))
    BY <1>8, <1>9, <2>1, <2>5
  <2>6. CASE Write(Cmd("paused", d, 0))
    BY <1>8, <1>9, <2>1, <2>6
  <2>7. CASE Write(Cmd("done", d, 0))
    BY <1>8, <1>9, <2>1, <2>7
  <2>8. \/ Write(Cmd("unpin", d, r.ver)) \/ Write(Cmd(IF r.state = "paused" THEN "active" ELSE "paused", d, 0))
        \/ Write(Cmd("done", d, 0))
    BY <1>11, <2>2 DEF OnSelected
  <2> QED
    BY <2>4, <2>5, <2>6, <2>7, <2>8
<1>12. ASSUME NEW f, OpenForm(f) \/ FormEsc PROVE OtInv'
  <2>1. UNCHANGED <<unpack, otaDb, otaCmds, issued, otaTick, inFlight, otaShown, otaOpen, answered>>
    BY <1>12 DEF OpenForm, FormEsc
  <2> QED
    BY <1>0, <2>1 DEF OtInv, OtType, CommandsFit, BusyIsReal, RowHasBlob
<1>13. CASE OtaClose
  <2>1. UNCHANGED <<unpack, otaDb, otaCmds, issued, otaTick, otaShown>> /\ otaOpen' = FALSE
    BY <1>13 DEF OtaClose
  <2> QED
    BY <1>0, <2>1 DEF OtInv, OtType, CommandsFit, BusyIsReal, RowHasBlob
<1>14. CASE UNCHANGED otVars
  BY <1>0, <1>14 DEF OtInv, OtType, CommandsFit, BusyIsReal, RowHasBlob, otVars, otaV
<1>15. CASE OtNext
  BY <1>1, <1>2, <1>3, <1>4, <1>5, <1>6, <1>7, <1>10, <1>11, <1>12, <1>13, <1>15, OtInvCommands DEF OtNext
<1> QED
  BY <1>14, <1>15

\* The OTA pane predicts what the backend serves, is busy only while a command of
\* its own is outstanding, and a registered version has its file (resolve.go,
\* update.go, writer_pgx.go), for any fleet, any versions and any number of commands.
THEOREM OtaIsSound == OtSpec => []OtaSound
<1>1. OtInv => OtaSound
  <2> SUFFICES ASSUME OtInv PROVE PredictionMatches
    BY DEF OtaSound, OtInv
  <2>1. otaShown \in ShownTables
    BY DEF OtInv, OtType, ShownTables
  <2> QED
    BY <2>1, SamePrediction DEF PredictionMatches
<1> QED
  BY <1>1, OtInvInit, OtInvNext, PTL DEF OtSpec

----------------------------------------------------------------------------
(* The telemetry pane (TpInv).                                             *)

LEMMA PollFacts ==
  /\ FleetPoll \in Poll /\ FleetPoll # NoPoll
  /\ \A s \in FleetDev \cup {NoDev} : DevicePoll(s) \in Poll /\ DevicePoll(s) # NoPoll
BY DEF FleetPoll, DevicePoll, NoPoll, Poll

LEMMA TpInvInit == TpInit => TpInv
<1> SUFFICES ASSUME TpInit PROVE TpInv
  OBVIOUS
<1>1. TpType
  <2>1. telCmds \in [1..MaxTelPolls -> Poll \cup {NoPoll}]
    BY PollFacts DEF TpInit
  <2>2. \A i \in 1..MaxTelPolls : i > telPolls => telCmds[i] = NoPoll
    BY TpAssumption DEF TpInit
  <2>3. spawnArg \in [serial : FleetDev, pc : {"sent", "taken", "late"}] \cup {[serial |-> NoDev, pc |-> "none"]}
    BY DEF TpInit
  <2>4. unpack \in BOOLEAN /\ polling \in BOOLEAN /\ pollErr \in BOOLEAN /\ telOpen \in BOOLEAN
    BY UiAssumption, Zenon DEF TpInit
  <2> QED
    BY <2>1, <2>2, <2>3, <2>4 DEF TpInit, TpType
<1>2. \A i \in Outstanding : i = 1
  BY TpAssumption DEF TpInit, Outstanding
<1>3. SinglePoll
  BY <1>2 DEF SinglePoll, TpInit
<1> QED
  BY <1>1, <1>3 DEF TpInv, RowSelected, DetailFollows, TpInit

\* What is outstanding after a poll was taken off and another issued.
LEMMA ReplaceFacts ==
  ASSUME TpInv, NEW i \in Int, NEW p \in Poll \cup {NoPoll}, Replace(i, p)
  PROVE  /\ telCmds' \in [1..MaxTelPolls -> Poll \cup {NoPoll}] /\ telPolls' \in Nat
         /\ \A j \in 1..MaxTelPolls : j > telPolls' => telCmds'[j] = NoPoll
         /\ \A j \in Outstanding' : (j \in Outstanding /\ j # i) \/ (p # NoPoll /\ j = telPolls + 1)
<1>1. /\ telCmds \in [1..MaxTelPolls -> Poll \cup {NoPoll}] /\ telPolls \in Nat
      /\ \A j \in 1..MaxTelPolls : j > telPolls => telCmds[j] = NoPoll
  BY DEF TpInv, TpType
<1>2. /\ telCmds' = [j \in 1..MaxTelPolls |-> IF j = i THEN NoPoll
                       ELSE IF p # NoPoll /\ j = telPolls + 1 THEN p ELSE telCmds[j]]
      /\ telPolls' = IF p # NoPoll THEN telPolls + 1 ELSE telPolls
  BY <1>1 DEF Replace
<1> QED
  BY <1>1, <1>2 DEF Outstanding

\* Taking the one outstanding poll off, or finding none, leaves room for one.
LEMMA RoomForOne ==
  ASSUME TpInv, telOpen, NEW i \in Int, NEW p \in Poll \cup {NoPoll}, Replace(i, p),
         i \in Outstanding \/ ~polling
  PROVE  \A j \in Outstanding' : p # NoPoll /\ j = telPolls + 1
<1>1. \A j \in Outstanding : j = i
  BY DEF TpInv, SinglePoll
<1> QED
  BY <1>1, ReplaceFacts

LEMMA TpInvNext == TpInv /\ [TpNext]_tpVars => TpInv'
<1> SUFFICES ASSUME TpInv, [TpNext]_tpVars PROVE TpInv'
  OBVIOUS
<1>0. /\ TpType /\ RowSelected /\ SinglePoll /\ DetailFollows
      /\ telCmds \in [1..MaxTelPolls -> Poll \cup {NoPoll}]
      /\ fleetRows \in SUBSET FleetDev /\ selected \in FleetDev \cup {NoDev}
      /\ reporting \in SUBSET FleetDev
      /\ polling \in BOOLEAN /\ pollErr \in BOOLEAN /\ telOpen \in BOOLEAN
  BY DEF TpInv, TpType
<1>1. ASSUME NEW i \in 1..MaxTelPolls, NEW b \in BOOLEAN, RunPoll(i, b) PROVE TpInv'
  <2>1. telCmds[i] \in Poll
    BY <1>0, <1>1 DEF RunPoll, NoPoll
  <2>2. PICK y \in Poll : y = telCmds[i]
    BY <2>1
  <2>3. PICK z \in Poll : /\ z = [y EXCEPT !.pc = IF b THEN "ok" ELSE "err",
                                          !.rows = IF b /\ y.kind = "fleet" THEN reporting ELSE {}]
                          /\ z # NoPoll
    <3>1. [y EXCEPT !.pc = IF b THEN "ok" ELSE "err",
                    !.rows = IF b /\ y.kind = "fleet" THEN reporting ELSE {}] \in Poll
      BY <1>0 DEF Poll
    <3>2. NoPoll \notin Poll
      BY DEF NoPoll, Poll
    <3> QED
      BY <3>1, <3>2
  <2>4. telCmds' = [telCmds EXCEPT ![i] = z]
    BY <1>0, <1>1, <2>2, <2>3 DEF RunPoll, LatestFleet
  <2>5. NoPoll \notin Poll
    BY DEF NoPoll, Poll
  <2>6. telCmds' \in [1..MaxTelPolls -> Poll \cup {NoPoll}] /\ Outstanding' = Outstanding
    BY <1>0, <2>1, <2>3, <2>4, <2>5 DEF Outstanding
  <2>7. \A j \in 1..MaxTelPolls : j > telPolls => telCmds'[j] = NoPoll
    BY <1>0, <2>1, <2>4, <2>5 DEF TpType
  <2>8. UNCHANGED <<unpack, reporting, spawnArg, telPolls, polling, pollErr, fleetRows, selected, detailSerial, telOpen>>
    BY <1>1 DEF RunPoll, telV
  <2>9. TpType' /\ RowSelected' /\ DetailFollows'
    BY <1>0, <2>6, <2>7, <2>8 DEF TpType, RowSelected, DetailFollows
  <2> QED
    BY <1>0, <2>6, <2>8, <2>9 DEF TpInv, SinglePoll
<1>2. ASSUME NEW i \in 1..MaxTelPolls, NEW b \in BOOLEAN, OnFleet(i, b) PROVE TpInv'
  <2>1. PICK s \in SyncSelected(telCmds[i].rows) :
          /\ Settle(i, MaybePollDevice(FALSE, s, detailSerial, b), telOpen)
          /\ IF telOpen THEN /\ fleetRows' = telCmds[i].rows /\ pollErr' = FALSE /\ selected' = s
                        ELSE UNCHANGED <<fleetRows, pollErr, selected>>
    BY <1>2 DEF OnFleet
  <2>2. telCmds[i] \in Poll /\ telCmds[i].rows \in SUBSET FleetDev /\ i \in Outstanding
    BY <1>0, <1>2 DEF OnFleet, NoPoll, Poll, Outstanding
  <2>3. s \in FleetDev \cup {NoDev} /\ (telCmds[i].rows # {} => s \in FleetDev)
    BY <1>0, <2>2 DEF SyncSelected
  <2>4. PICK p \in Poll \cup {NoPoll} :
          /\ p = MaybePollDevice(FALSE, s, detailSerial, b)
          /\ p = NoPoll => s = NoDev \/ detailSerial = s
    BY <2>3, PollFacts DEF MaybePollDevice
  <2>5. PICK q \in Poll \cup {NoPoll} : q = IF telOpen THEN p ELSE NoPoll
    BY <2>4
  <2>6. Replace(i, q) /\ polling' = (IF telOpen THEN p # NoPoll ELSE polling)
    BY <2>1, <2>4, <2>5 DEF Settle
  <2>7. UNCHANGED <<unpack, reporting, spawnArg, detailSerial, telOpen>>
    BY <1>2 DEF OnFleet
  <2>8. TpType'
    <3>1. polling' \in BOOLEAN /\ pollErr' \in BOOLEAN /\ telOpen' \in BOOLEAN
      BY <1>0, <2>1, <2>6, <2>7
    <3>2. fleetRows' \in SUBSET FleetDev /\ selected' \in FleetDev \cup {NoDev}
      BY <1>0, <2>1, <2>2, <2>3
    <3> QED
      BY <1>0, <2>6, <2>7, <3>1, <3>2, ReplaceFacts DEF TpType
  <2>9. RowSelected' /\ DetailFollows'
    BY <1>0, <2>1, <2>3, <2>4, <2>6, <2>7, TpAssumption DEF RowSelected, DetailFollows, NoDev
  <2>10. SinglePoll'
    <3> SUFFICES ASSUME telOpen PROVE SinglePoll'
      BY <2>7 DEF SinglePoll
    <3>1. i \in Int /\ q = p
      BY <2>5
    <3>2. \A j \in Outstanding' : q # NoPoll /\ j = telPolls + 1
      BY <2>2, <2>6, <3>1, RoomForOne
    <3> QED
      BY <2>6, <3>1, <3>2 DEF SinglePoll
  <2> QED
    BY <2>8, <2>9, <2>10 DEF TpInv
<1>3. ASSUME NEW i \in 1..MaxTelPolls, NEW b \in BOOLEAN, OnDevice(i, b) PROVE TpInv'
  <2>1. PICK det : det = IF telCmds[i].serial = selected THEN selected ELSE detailSerial
    OBVIOUS
  <2>2. telCmds[i] \in Poll /\ i \in Outstanding
    BY <1>0, <1>3 DEF OnDevice, NoPoll, Poll, Outstanding
  <2>3. PICK p \in Poll \cup {NoPoll} :
          /\ p = MaybePollDevice(FALSE, selected, det, b)
          /\ p = NoPoll => selected = NoDev \/ det = selected
    BY <1>0, PollFacts DEF MaybePollDevice
  <2>4. PICK q \in Poll \cup {NoPoll} : q = IF telOpen THEN p ELSE NoPoll
    BY <2>3
  <2>5. /\ Replace(i, q) /\ polling' = (IF telOpen THEN p # NoPoll ELSE polling)
        /\ detailSerial' = (IF telOpen THEN det ELSE detailSerial)
        /\ pollErr' = (pollErr /\ ~telOpen)
    BY <1>3, <2>1, <2>3, <2>4 DEF Settle, OnDevice
  <2>6. UNCHANGED <<unpack, reporting, spawnArg, fleetRows, selected, telOpen>>
    BY <1>3 DEF OnDevice
  <2>7. TpType'
    <3>1. polling' \in BOOLEAN /\ pollErr' \in BOOLEAN /\ telOpen' \in BOOLEAN
      BY <1>0, <2>5, <2>6
    <3> QED
      BY <1>0, <2>5, <2>6, <3>1, ReplaceFacts DEF TpType
  <2>8. RowSelected' /\ DetailFollows'
    BY <1>0, <2>3, <2>5, <2>6 DEF RowSelected, DetailFollows
  <2>9. SinglePoll'
    <3> SUFFICES ASSUME telOpen PROVE SinglePoll'
      BY <2>6 DEF SinglePoll
    <3>1. i \in Int /\ q = p
      BY <2>4
    <3>2. \A j \in Outstanding' : q # NoPoll /\ j = telPolls + 1
      BY <2>2, <2>5, <3>1, RoomForOne
    <3> QED
      BY <2>5, <3>1, <3>2 DEF SinglePoll
  <2> QED
    BY <2>7, <2>8, <2>9 DEF TpInv
<1>4. ASSUME NEW i \in 1..MaxTelPolls, OnPollErr(i) PROVE TpInv'
  <2>1. i \in Outstanding
    BY <1>0, <1>4 DEF OnPollErr, NoPoll, Outstanding
  <2>2. /\ Replace(i, NoPoll) /\ polling' = (IF telOpen THEN FALSE ELSE polling)
        /\ pollErr' = (pollErr \/ telOpen)
        /\ UNCHANGED <<unpack, reporting, spawnArg, fleetRows, selected, detailSerial, telOpen>>
    BY <1>4 DEF Settle, OnPollErr
  <2>3. TpType'
    <3>1. polling' \in BOOLEAN /\ pollErr' \in BOOLEAN /\ telOpen' \in BOOLEAN
      BY <1>0, <2>2
    <3> QED
      <4>1. /\ telCmds' \in [1..MaxTelPolls -> Poll \cup {NoPoll}] /\ telPolls' \in Nat
            /\ \A j \in 1..MaxTelPolls : j > telPolls' => telCmds'[j] = NoPoll
        BY <2>2, ReplaceFacts
      <4> QED
        BY <1>0, <2>2, <3>1, <4>1 DEF TpType
  <2>4. RowSelected' /\ DetailFollows'
    BY <1>0, <2>2 DEF RowSelected, DetailFollows
  <2>5. SinglePoll'
    BY <2>1, <2>2, RoomForOne DEF SinglePoll
  <2> QED
    BY <2>3, <2>4, <2>5 DEF TpInv
<1>5. ASSUME NEW b \in BOOLEAN, OnTelTick(b) \/ RefreshFleet, ~polling, polling' = TRUE PROVE TpInv'
  <2>1. PICK q \in Poll \cup {NoPoll} : Replace(0, q)
    BY <1>5, PollFacts DEF OnTelTick, RefreshFleet, Due
  <2>2. UNCHANGED <<unpack, reporting, spawnArg, pollErr, fleetRows, selected, detailSerial, telOpen>> /\ telOpen
    BY <1>5 DEF OnTelTick, RefreshFleet
  <2>3. TpType'
    BY <1>0, <1>5, <2>1, <2>2, ReplaceFacts DEF TpType
  <2>4. RowSelected' /\ DetailFollows'
    BY <1>0, <1>5, <2>2 DEF RowSelected, DetailFollows
  <2>5. SinglePoll'
    BY <1>5, <2>1, <2>2, RoomForOne DEF SinglePoll
  <2> QED
    BY <2>3, <2>4, <2>5 DEF TpInv
<1>6. ASSUME NEW d \in fleetRows, NEW b \in BOOLEAN, MoveCursor(d, b) PROVE TpInv'
  <2>1. d \in FleetDev /\ d # NoDev
    BY <1>0, TpAssumption DEF NoDev
  <2>2. PICK p \in Poll \cup {NoPoll} :
          /\ p = MaybePollDevice(polling, d, detailSerial, b)
          /\ p = NoPoll => polling \/ detailSerial = d
          /\ polling => p = NoPoll
    BY <2>1, PollFacts DEF MaybePollDevice
  <2>3. /\ Replace(0, p) /\ polling' = (polling \/ p # NoPoll) /\ selected' = d /\ telOpen
        /\ UNCHANGED <<unpack, reporting, spawnArg, pollErr, fleetRows, detailSerial, telOpen>>
    BY <1>6, <2>2 DEF MoveCursor
  <2>4. TpType'
    <3>1. polling' \in BOOLEAN
      BY <1>0, <2>3
    <3> QED
      BY <1>0, <2>1, <2>3, <3>1, ReplaceFacts DEF TpType
  <2>5. RowSelected' /\ DetailFollows'
    BY <1>0, <2>1, <2>2, <2>3 DEF RowSelected, DetailFollows
  <2>6. SinglePoll'
    <3>1. CASE polling
      <4>1. \A j \in Outstanding' : j \in Outstanding
        <5>1. Replace(0, p)
          BY <2>3
        <5>2. p = NoPoll
          BY <2>2, <3>1, Zenon
        <5> QED
          BY <5>1, <5>2, ReplaceFacts
      <4> QED
        BY <1>0, <2>3, <3>1, <4>1 DEF SinglePoll
    <3>2. CASE ~polling
      <4>1. \A j \in Outstanding' : p # NoPoll /\ j = telPolls + 1
        <5>1. Replace(0, p) /\ 0 \in Int /\ telOpen
          BY <2>3
        <5> QED
          BY <3>2, <5>1, RoomForOne
      <4> QED
        BY <2>3, <4>1 DEF SinglePoll
    <3> QED
      BY <1>0, <3>1, <3>2
  <2> QED
    BY <2>4, <2>5, <2>6 DEF TpInv
<1>7. CASE OnSpawnArgs
  <2>1. UNCHANGED <<unpack, reporting, telCmds, telPolls, polling, pollErr, fleetRows, detailSerial, telOpen>>
    BY <1>7 DEF OnSpawnArgs
  <2>2. PICK y \in [serial : FleetDev, pc : {"sent", "taken", "late"}] : y = spawnArg
    BY <1>0, <1>7 DEF OnSpawnArgs, TpType
  <2>3. /\ spawnArg' \in [serial : FleetDev, pc : {"sent", "taken", "late"}]
        /\ spawnArg'.serial = y.serial /\ (~polling => spawnArg'.pc = "late")
    BY <1>7, <2>2 DEF OnSpawnArgs
  <2>4. selected' = (IF telOpen THEN y.serial ELSE selected) /\ y.serial \in FleetDev /\ y.serial # NoDev
    BY <1>7, <2>2, TpAssumption DEF OnSpawnArgs, NoDev
  <2>5. TpType'
    BY <1>0, <2>1, <2>3, <2>4 DEF TpType
  <2>6. RowSelected' /\ DetailFollows'
    BY <1>0, <2>1, <2>3, <2>4 DEF RowSelected, DetailFollows
  <2> QED
    BY <1>0, <2>1, <2>5, <2>6 DEF TpInv, SinglePoll, Outstanding
<1>8. CASE TelClose
  <2>1. TpType'
    BY <1>0, <1>8 DEF TelClose, TpType
  <2> QED
    BY <1>0, <1>8, <2>1 DEF TpInv, TelClose, RowSelected, SinglePoll, DetailFollows
<1>9. ASSUME NEW d \in FleetDev, FleetChanges(d) PROVE TpInv'
  <2>1. reporting' \in SUBSET FleetDev
    BY <1>0, <1>9 DEF FleetChanges
  <2> QED
    BY <1>0, <1>9, <2>1 DEF TpInv, TpType, FleetChanges, telV, RowSelected, SinglePoll, DetailFollows, Outstanding
<1>10. CASE UNCHANGED tpVars
  BY <1>0, <1>10 DEF TpInv, TpType, tpVars, telV, RowSelected, SinglePoll, DetailFollows, Outstanding
<1>11. ASSUME NEW b \in BOOLEAN, OnTelTick(b), ~Due(b) PROVE TpInv'
  BY <1>0, <1>11 DEF OnTelTick, TpInv, TpType, RowSelected, SinglePoll, DetailFollows, Outstanding
<1>12. ASSUME NEW b \in BOOLEAN, OnTelTick(b) PROVE TpInv'
  BY <1>5, <1>11, <1>12 DEF OnTelTick, Due
<1>13. CASE RefreshFleet
  BY <1>5, <1>13 DEF RefreshFleet
<1> QED
  BY <1>1, <1>2, <1>3, <1>4, <1>6, <1>7, <1>8, <1>9, <1>10, <1>12, <1>13 DEF TpNext

\* The telemetry pane has one poll outstanding at most and shows the detail of the
\* device that is selected (pane.go), for any fleet and any number of polls.
THEOREM PollsAreSound == TpSpec => []PollsSound
<1>1. TpInv => PollsSound
  <2> SUFFICES ASSUME TpInv PROVE OnePoll
    BY DEF PollsSound, TpInv
  <2> SUFFICES ASSUME telOpen PROVE Cardinality(Outstanding) <= 1
    BY DEF OnePoll, TpInv, SinglePoll
  <2>1. CASE Outstanding = {}
    BY <2>1, FS_EmptySet
  <2>2. CASE Outstanding # {}
    <3>1. PICK i \in Outstanding : TRUE
      BY <2>2
    <3>2. Outstanding = {i}
      BY <3>1 DEF TpInv, SinglePoll
    <3> QED
      BY <3>2, FS_Singleton
  <2> QED
    BY <2>1, <2>2
<1> QED
  BY <1>1, TpInvInit, TpInvNext, PTL DEF TpSpec

----------------------------------------------------------------------------
(* The console (ConInv).                                                   *)

LEMMA AppendFacts ==
  ASSUME NEW S, NEW q \in Seq(S), NEW x \in S
  PROVE  /\ Append(q, x) \in Seq(S) /\ Len(q) \in Nat /\ DOMAIN q = 1..Len(q)
         /\ DOMAIN Append(q, x) = 1..(Len(q) + 1)
         /\ \A i \in DOMAIN q : Append(q, x)[i] = q[i] /\ q[i] \in S
         /\ Append(q, x)[Len(q) + 1] = x
OBVIOUS

LEMMA TailFacts ==
  ASSUME NEW S, NEW q \in Seq(S), q # <<>>
  PROVE  /\ Tail(q) \in Seq(S) /\ Head(q) = q[1] /\ Head(q) \in S /\ 1 \in DOMAIN q
         /\ Len(q) \in Nat /\ DOMAIN q = 1..Len(q) /\ DOMAIN Tail(q) = 1..(Len(q) - 1)
         /\ \A i \in DOMAIN Tail(q) : Tail(q)[i] = q[i + 1] /\ i + 1 \in DOMAIN q
OBVIOUS

LEMMA StoppedFacts ==
  ASSUME LinkInv
  PROVE  /\ Stopped(proc, conRun) \in [Runs -> {"none", "live", "dying", "gone"}]
         /\ \A r \in Runs : /\ Stopped(proc, conRun)[r] # "live"
                            /\ proc[r] \in {"live", "dying"} => Stopped(proc, conRun)[r] = "dying"
BY DEF LinkInv, LinkType, NoLeakedChild, Stopped, Runs

LEMMA BoxRuns ==
  ASSUME LinkType PROVE \A i \in DOMAIN conBox : conBox[i].run \in Runs
<1>1. \A i \in DOMAIN conBox : conBox[i] \in Message
  BY DEF LinkType
<1> QED
  BY <1>1 DEF Message

\* A message comes last; a line comes from a run that is to exit.
LEMMA BoxGrows ==
  ASSUME LinkType, LinesEnd, NEW m \in Message, conBox' = Append(conBox, m),
         \A r \in Runs : proc[r] \in {"live", "dying"} => proc'[r] \in {"live", "dying"} \/ m.k = "exit",
         m.k = "exit" \/ proc'[m.run] \in {"live", "dying"}
  PROVE  LinesEnd' /\ conBox' \in Seq(Message) /\ (ExitAfter(0) \/ m.k = "exit" => ExitAfter(0)')
<1>1. conBox \in Seq(Message)
  BY DEF LinkType
<1>2. /\ conBox' \in Seq(Message) /\ Len(conBox) \in Nat /\ DOMAIN conBox = 1..Len(conBox)
      /\ DOMAIN conBox' = 1..(Len(conBox) + 1)
      /\ \A i \in DOMAIN conBox : conBox'[i] = conBox[i] /\ conBox[i] \in Message
      /\ conBox'[Len(conBox) + 1] = m
  BY <1>1, AppendFacts
<1>3. \A i \in DOMAIN conBox : ExitAfter(i) => ExitAfter(i)'
  BY <1>2 DEF ExitAfter
<1>4. ExitAfter(0) => ExitAfter(0)'
  BY <1>2 DEF ExitAfter
<1>5. CASE m.k = "exit"
  <2>1. \A i \in DOMAIN conBox : ExitAfter(i)'
    BY <1>2, <1>5 DEF ExitAfter
  <2>2. ExitAfter(0)'
    BY <1>2, <1>5 DEF ExitAfter
  <2> QED
    BY <1>2, <1>5, <2>1, <2>2 DEF LinesEnd
<1>6. CASE m.k # "exit"
  <2>1. ASSUME NEW i \in DOMAIN conBox', conBox'[i].k = "line"
        PROVE  proc'[conBox'[i].run] \in {"live", "dying"} \/ ExitAfter(i)'
    <3>1. CASE i = Len(conBox) + 1
      BY <1>2, <1>6, <3>1
    <3>2. CASE i \in DOMAIN conBox
      <4>1. conBox[i].run \in Runs
        BY <1>2, <3>2 DEF Message
      <4> QED
        BY <1>2, <1>3, <1>6, <2>1, <3>2, <4>1 DEF LinesEnd
    <3> QED
      BY <1>2, <3>1, <3>2
  <2> QED
    BY <1>2, <1>4, <1>6, <2>1 DEF LinesEnd
<1> QED
  BY <1>5, <1>6

\* The first message is taken.
LEMMA BoxShrinks ==
  ASSUME LinkType, LinesEnd, conBox # <<>>, conBox' = Tail(conBox),
         \A r \in Runs : proc[r] \in {"live", "dying"} => proc'[r] \in {"live", "dying"}
  PROVE  /\ LinesEnd' /\ conBox' \in Seq(Message) /\ Head(conBox) \in Message
         /\ ExitAfter(0) /\ Head(conBox).k = "line" => ExitAfter(0)'
         /\ Head(conBox).k = "line" => proc[Head(conBox).run] \in {"live", "dying"} \/ ExitAfter(0)'
<1>1. conBox \in Seq(Message)
  BY DEF LinkType
<1>2. /\ conBox' \in Seq(Message) /\ Head(conBox) = conBox[1] /\ Head(conBox) \in Message /\ 1 \in DOMAIN conBox
      /\ Len(conBox) \in Nat /\ DOMAIN conBox = 1..Len(conBox) /\ DOMAIN conBox' = 1..(Len(conBox) - 1)
      /\ \A i \in DOMAIN conBox' : conBox'[i] = conBox[i + 1] /\ i + 1 \in DOMAIN conBox
  BY <1>1, TailFacts
<1>3. ASSUME NEW i \in Nat, ExitAfter(i + 1) PROVE ExitAfter(i)'
  <2>1. PICK j \in DOMAIN conBox : j > i + 1 /\ conBox[j].k = "exit"
    BY <1>3 DEF ExitAfter
  <2>2. j - 1 \in DOMAIN conBox' /\ j - 1 > i /\ (j - 1) + 1 = j
    BY <1>2, <2>1
  <2>3. conBox'[j - 1].k = "exit"
    BY <1>2, <2>1, <2>2
  <2> QED
    BY <2>2, <2>3 DEF ExitAfter
<1>4. LinesEnd'
  <2> SUFFICES ASSUME NEW i \in DOMAIN conBox', conBox'[i].k = "line"
               PROVE  proc'[conBox'[i].run] \in {"live", "dying"} \/ ExitAfter(i)'
    BY DEF LinesEnd
  <2>1. i \in Nat /\ i + 1 \in DOMAIN conBox /\ conBox[i + 1] = conBox'[i] /\ conBox[i + 1] \in Message
    BY <1>1, <1>2
  <2>2. proc[conBox[i + 1].run] \in {"live", "dying"} \/ ExitAfter(i + 1)
    BY <2>1 DEF LinesEnd
  <2>3. conBox[i + 1].run \in Runs
    BY <2>1 DEF Message
  <2> QED
    BY <1>3, <2>1, <2>2, <2>3
<1>5. ASSUME ExitAfter(0), Head(conBox).k = "line" PROVE ExitAfter(0)'
  <2>1. PICK j \in DOMAIN conBox : j > 0 /\ conBox[j].k = "exit"
    BY <1>5 DEF ExitAfter
  <2>2. j > 0 + 1
    BY <1>2, <1>5, <2>1
  <2>3. ExitAfter(0 + 1)
    BY <2>1, <2>2 DEF ExitAfter
  <2> QED
    BY <1>3, <2>3
<1>6. ASSUME Head(conBox).k = "line" PROVE proc[Head(conBox).run] \in {"live", "dying"} \/ ExitAfter(0)'
  <2>1. proc[conBox[1].run] \in {"live", "dying"} \/ ExitAfter(1)
    BY <1>2, <1>6 DEF LinesEnd
  <2>2. ExitAfter(1) => ExitAfter(0)'
    <3>1. 0 \in Nat /\ 0 + 1 = 1
      OBVIOUS
    <3> QED
      BY <1>3, <3>1
  <2> QED
    BY <1>2, <2>1, <2>2
<1> QED
  BY <1>2, <1>4, <1>5, <1>6

\* A run starts, or fails to, in a pane without one.
LEMMA StartKeepsLink ==
  ASSUME LinkInv, conRun = 0, paneOpen, UNCHANGED <<paneOpen, reconnects>>, timers' \in Nat,
         StartRun("resetting")
  PROVE  LinkInv'
<1>0. LinkType /\ NoLeakedChild /\ LinkShown /\ LinesEnd
  BY DEF LinkInv
<1>1. PICK r \in Unused :
      \/ /\ conRun' = r /\ closing' = FALSE
         /\ proc' = [proc EXCEPT ![r] = "live"]
         /\ conState' = "resetting" /\ conBox' = conBox
      \/ /\ proc' = [proc EXCEPT ![r] = "gone"]
         /\ conBox' \in {conBox, Append(conBox, Exited(r, TRUE))}
         /\ conState' = "error" /\ UNCHANGED <<conRun, closing>>
  BY DEF StartRun, StartRunInteractive
<1>2. r \in Runs /\ proc[r] = "none" /\ r # 0
  BY DEF Unused, Runs
<1>3. /\ proc \in [Runs -> {"none", "live", "dying", "gone"}] /\ conBox \in Seq(Message)
      /\ closing \in BOOLEAN
  BY <1>0 DEF LinkType
<1>4. CASE conRun' = r /\ closing' = FALSE /\ proc' = [proc EXCEPT ![r] = "live"]
           /\ conState' = "resetting" /\ conBox' = conBox
  <2>1. LinkType'
    <3>1. closing' \in BOOLEAN
      BY <1>4, Zenon
    <3> QED
      BY <1>0, <1>2, <1>3, <1>4, <3>1 DEF LinkType, Up
  <2>2. NoLeakedChild'
    BY <1>0, <1>2, <1>3, <1>4 DEF NoLeakedChild
  <2>3. LinesEnd'
    <3>1. \A i \in DOMAIN conBox : conBox[i].run \in Runs
      BY <1>0, BoxRuns
    <3> QED
      BY <1>0, <1>2, <1>3, <1>4, <3>1 DEF LinesEnd, ExitAfter
  <2> QED
    BY <1>2, <1>4, <2>1, <2>2, <2>3 DEF LinkInv, LinkShown, Up
<1>5. CASE proc' = [proc EXCEPT ![r] = "gone"] /\ conBox' \in {conBox, Append(conBox, Exited(r, TRUE))}
           /\ conState' = "error" /\ UNCHANGED <<conRun, closing>>
  <2>1. LinesEnd' /\ conBox' \in Seq(Message)
    <3>1. CASE conBox' = conBox
      <4>1. \A i \in DOMAIN conBox : conBox[i].run \in Runs
        BY <1>0, BoxRuns
      <4> QED
        BY <1>0, <1>2, <1>3, <1>5, <3>1, <4>1 DEF LinesEnd, ExitAfter
    <3>2. CASE conBox' = Append(conBox, Exited(r, TRUE))
      <4>1. PICK m \in Message : m = Exited(r, TRUE) /\ m.k = "exit"
        <5>1. TRUE \in BOOLEAN /\ "exit" \in {"line", "exit"}
          OBVIOUS
        <5>2. Exited(r, TRUE) \in Message
          BY <1>2, <5>1, Zenon DEF Exited, Message
        <5> QED
          BY <5>2 DEF Exited
      <4> QED
        BY <1>0, <3>2, <4>1, BoxGrows
    <3> QED
      BY <1>5, <3>1, <3>2
  <2>2. LinkType'
    BY <1>0, <1>2, <1>3, <1>5, <2>1 DEF LinkType, Up
  <2>3. NoLeakedChild'
    BY <1>0, <1>2, <1>3, <1>5 DEF NoLeakedChild
  <2> QED
    BY <1>5, <2>1, <2>2, <2>3 DEF LinkInv, LinkShown, Up
<1> QED
  BY <1>1, <1>4, <1>5

LEMMA LinkStep ==
  ASSUME LinkInv, [ConNext]_conVars
  PROVE  LinkInv'
<1>0. /\ LinkType /\ NoLeakedChild /\ LinkShown /\ LinesEnd
      /\ proc \in [Runs -> {"none", "live", "dying", "gone"}] /\ conBox \in Seq(Message)
      /\ conRun \in Runs \cup {0}
      /\ timers \in Nat /\ reconnects \in Nat /\ closing \in BOOLEAN /\ paneOpen \in BOOLEAN
      /\ conState \in Up \cup {"idle", "error", "closed", "sleeping", "reconnecting"}
  BY DEF LinkInv, LinkType
<1>1. ASSUME NEW r \in Runs, NEW b \in BOOLEAN, Pump(r, b) PROVE LinkInv'
  <2>1. PICK m \in Message : m = Line(r, b) /\ m.k = "line" /\ m.run = r
    <3>1. "line" \in {"line", "exit"}
      OBVIOUS
    <3>2. Line(r, b) \in Message
      BY <3>1, Zenon DEF Line, Message
    <3> QED
      BY <3>2 DEF Line
  <2>2. /\ conBox' = (IF paneOpen THEN Append(conBox, m) ELSE conBox) /\ proc[r] \in {"live", "dying"}
        /\ UNCHANGED <<conState, conRun, closing, reconnects, proc, timers, paneOpen>>
    BY <1>1, <2>1 DEF Pump
  <2>3. CASE paneOpen
    <3>1. LinesEnd' /\ conBox' \in Seq(Message) /\ (ExitAfter(0) => ExitAfter(0)')
      BY <1>0, <2>1, <2>2, <2>3, BoxGrows
    <3>2. LinkType'
      BY <1>0, <2>2, <3>1 DEF LinkType
    <3>3. ExitComes => ExitComes'
      BY <2>2, <3>1 DEF ExitComes
    <3> QED
      BY <1>0, <2>2, <3>1, <3>2, <3>3 DEF LinkInv, LinkShown, NoLeakedChild
  <2>4. CASE ~paneOpen
    BY <1>0, <2>2, <2>4 DEF LinkInv, LinkShown, NoLeakedChild, LinkType, LinesEnd, ExitAfter
  <2> QED
    BY <2>3, <2>4
<1>2. ASSUME NEW r \in Runs, NEW b \in BOOLEAN, Reap(r, b) PROVE LinkInv'
  <2>1. PICK m \in Message : m = Exited(r, b) /\ m.k = "exit"
    <3>1. "exit" \in {"line", "exit"}
      OBVIOUS
    <3>2. Exited(r, b) \in Message
      BY <3>1, Zenon DEF Exited, Message
    <3> QED
      BY <3>2 DEF Exited
  <2>2. /\ conBox' = (IF paneOpen THEN Append(conBox, m) ELSE conBox)
        /\ proc' = [proc EXCEPT ![r] = "gone"]
        /\ UNCHANGED <<conState, conRun, closing, reconnects, timers, paneOpen>>
    BY <1>2, <2>1 DEF Reap
  <2>3. NoLeakedChild' /\ proc' \in [Runs -> {"none", "live", "dying", "gone"}]
    BY <1>0, <2>2 DEF NoLeakedChild
  <2>4. CASE paneOpen
    <3>1. LinesEnd' /\ conBox' \in Seq(Message) /\ ExitAfter(0)'
      BY <1>0, <2>1, <2>2, <2>4, BoxGrows
    <3>2. LinkType'
      BY <1>0, <2>2, <2>3, <3>1 DEF LinkType
    <3> QED
      BY <1>0, <2>2, <2>3, <3>1, <3>2 DEF LinkInv, LinkShown, ExitComes
  <2>5. CASE ~paneOpen
    BY <1>0, <2>2, <2>3, <2>5 DEF LinkInv, LinkShown, LinkType, LinesEnd
  <2> QED
    BY <2>4, <2>5
<1>3. ASSUME NEW c, Connect(c) PROVE LinkInv'
  <2>1. CASE StartRun("resetting")
    BY <1>0, <1>3, <2>1, StartKeepsLink DEF Connect
  <2>2. CASE ~StartRun("resetting")
    <3>1. /\ UNCHANGED <<conRun, closing, proc, conBox, timers, reconnects, paneOpen>> /\ conRun = 0
          /\ conState' \in {conState, "error"}
      BY <1>3, <2>2 DEF Connect
    <3> QED
      BY <1>0, <3>1 DEF LinkInv, LinkType, LinkShown, LinesEnd, NoLeakedChild, ExitComes, ExitAfter, Up
  <2> QED
    BY <2>1, <2>2
<1>4. CASE OnReconnectKey \/ AutoConnect
  BY <1>3, <1>4 DEF OnReconnectKey, AutoConnect
<1>5. /\ Stopped(proc, conRun) \in [Runs -> {"none", "live", "dying", "gone"}]
      /\ \A r \in Runs : /\ Stopped(proc, conRun)[r] # "live"
                         /\ proc[r] \in {"live", "dying"} => Stopped(proc, conRun)[r] = "dying"
  BY StoppedFacts
<1>6. CASE OnDisconnectKey \/ ReleaseDevicePort
  <2>1. /\ closing' = TRUE /\ conRun' = 0 /\ proc' = Stopped(proc, conRun) /\ conState' = "closed"
        /\ reconnects' \in {0, reconnects} /\ UNCHANGED <<conBox, timers, paneOpen>>
    BY <1>6 DEF OnDisconnectKey, ReleaseDevicePort, StopRun
  <2>2. LinkType'
    <3>1. closing' \in BOOLEAN
      BY <2>1, Zenon
    <3> QED
      BY <1>0, <1>5, <2>1, <3>1 DEF LinkType
  <2>3. NoLeakedChild'
    BY <1>5, <2>1 DEF NoLeakedChild
  <2>4. LinesEnd'
    <3>1. \A i \in DOMAIN conBox : conBox[i].run \in Runs
      BY <1>0, BoxRuns
    <3> QED
      BY <1>0, <1>5, <2>1, <3>1 DEF LinesEnd, ExitAfter
  <2> QED
    BY <2>1, <2>2, <2>3, <2>4 DEF LinkInv, LinkShown, Up
<1>7. CASE ApplyData
  <2>1. /\ conBox # <<>> /\ Head(conBox).k = "line" /\ conBox' = Tail(conBox)
        /\ conState' = OnLine(conState, Head(conBox).flag)
        /\ UNCHANGED <<conRun, closing, reconnects, proc, timers, paneOpen>>
    BY <1>7 DEF ApplyData
  <2>2. /\ LinesEnd' /\ conBox' \in Seq(Message) /\ Head(conBox) \in Message
        /\ ExitAfter(0) => ExitAfter(0)'
        /\ proc[Head(conBox).run] \in {"live", "dying"} \/ ExitAfter(0)'
    BY <1>0, <2>1, BoxShrinks
  <2>3. conState' \in {conState, "attached"}
    BY <2>1 DEF OnLine
  <2>4. LinkType'
    BY <1>0, <2>1, <2>2, <2>3 DEF LinkType, Up
  <2>5. conRun = 0 => ExitComes'
    <3> SUFFICES ASSUME conRun = 0, ~ExitAfter(0)' PROVE \E r \in Runs : proc'[r] = "dying"
      BY DEF ExitComes
    <3>1. Head(conBox).run \in Runs
      BY <2>2 DEF Message
    <3>2. Head(conBox).run # 0
      BY <3>1 DEF Runs
    <3> QED
      BY <1>0, <2>1, <2>2, <3>1, <3>2 DEF NoLeakedChild
  <2> QED
    BY <1>0, <2>1, <2>2, <2>3, <2>4, <2>5 DEF LinkInv, LinkShown, NoLeakedChild, Up
<1>8. CASE ApplyExit
  <2>1. /\ conBox # <<>> /\ conBox' = Tail(conBox) /\ conRun' = 0 /\ proc' = Stopped(proc, conRun)
        /\ UNCHANGED <<closing, paneOpen>>
    BY <1>8 DEF ApplyExit
  <2>2. /\ conState' \in {"reconnecting", "closed", "error", "sleeping"}
        /\ timers' \in Nat /\ (conState' = "reconnecting" => timers' > 0) /\ reconnects' \in Nat
    BY <1>0, <1>8 DEF ApplyExit, OnExit
  <2>3. LinesEnd' /\ conBox' \in Seq(Message)
    BY <1>0, <1>5, <2>1, BoxShrinks
  <2>4. LinkType'
    BY <1>0, <1>5, <2>1, <2>2, <2>3 DEF LinkType
  <2>5. NoLeakedChild'
    BY <1>5, <2>1 DEF NoLeakedChild
  <2> QED
    BY <2>1, <2>2, <2>3, <2>4, <2>5 DEF LinkInv, LinkShown, Up
<1>9. CASE OnReconnect
  <2>1. timers' \in Nat /\ UNCHANGED <<reconnects, paneOpen>>
    BY <1>0, <1>9 DEF OnReconnect
  <2>2. CASE conRun = 0 /\ paneOpen /\ StartRun("resetting")
    BY <2>1, <2>2, StartKeepsLink
  <2>3. CASE (conRun # 0 \/ ~paneOpen) /\ UNCHANGED <<conState, conRun, closing, proc, conBox>>
    <3>1. LinkType' /\ NoLeakedChild'
      BY <1>0, <2>1, <2>3 DEF LinkType, NoLeakedChild
    <3> QED
      BY <1>0, <2>1, <2>3, <3>1 DEF LinkInv, LinkShown, LinesEnd, ExitComes, ExitAfter, Up
  <2> QED
    BY <1>9, <2>2, <2>3 DEF OnReconnect
<1>10. CASE OnQuietTick
  <2>1. /\ conState' \in {conState, "quiet"} /\ conRun # 0
        /\ UNCHANGED <<conRun, closing, reconnects, proc, conBox, timers, paneOpen>>
    BY <1>10 DEF OnQuietTick, OnSilence
  <2> QED
    BY <1>0, <2>1 DEF LinkInv, LinkType, LinkShown, LinesEnd, NoLeakedChild, ExitComes, ExitAfter, Up
<1>11. CASE ClosePane
  <2>1. /\ closing' = TRUE /\ conRun' = 0 /\ proc' = Stopped(proc, conRun) /\ conBox' = <<>>
        /\ paneOpen' = FALSE /\ UNCHANGED <<conState, reconnects, timers>>
    BY <1>11 DEF ClosePane, StopRun
  <2>2. closing' \in BOOLEAN /\ paneOpen' \in BOOLEAN
    BY <2>1, Zenon
  <2>3. conBox' \in Seq(Message)
    BY <2>1
  <2>4. LinkType'
    BY <1>0, <1>5, <2>1, <2>2, <2>3 DEF LinkType
  <2> QED
    BY <1>5, <2>1, <2>4 DEF LinkInv, LinkShown, NoLeakedChild, LinesEnd
<1>12. ASSUME UNCHANGED <<conState, conRun, closing, reconnects, proc, conBox, timers, paneOpen>> PROVE LinkInv'
  BY <1>0, <1>12 DEF LinkInv, LinkType, LinkShown, LinesEnd, NoLeakedChild, ExitComes, ExitAfter
<1>13. CASE Unfocus \/ Submit \/ (\E o \in overflow : Unpark(o)) \/ (\E r \in Runs : WriteLoop(r)) \/ UNCHANGED conVars
  BY <1>12, <1>13 DEF Unfocus, Submit, SendLine, Unpark, WriteLoop, conVars
<1> QED
  BY <1>1, <1>2, <1>4, <1>6, <1>7, <1>8, <1>9, <1>10, <1>11, <1>13 DEF ConNext

\* The lines of one run: in the channel, parked and written; they are of the run
\* and apart.
LEMMA SendKeepsLines ==
  ASSUME LinkInv, LinesInv, conRun # 0, SendLine
  PROVE  LinesInv'
<1>0. /\ LineType /\ LinesApart /\ ParkedApart /\ conRun \in Runs
      /\ inputCh \in [Runs -> Seq(Nat)] /\ typed \in Seq(Runs) /\ written' = written
      /\ overflow \in SUBSET [ch : Runs, line : Nat] /\ written \in [Runs -> Seq(Nat)]
  BY DEF LinesInv, LinkInv, LinkType, LineType, SendLine
<1>1. PICK n \in Nat, c \in Runs : n = Len(typed) + 1 /\ c = conRun
  BY <1>0
<1>2. /\ typed' \in Seq(Runs) /\ n \notin DOMAIN typed /\ n \in DOMAIN typed' /\ typed'[n] = c
      /\ \A l \in DOMAIN typed : l \in DOMAIN typed' /\ typed'[l] = typed[l]
  BY <1>0, <1>1, AppendFacts DEF SendLine
<1>3. \A l, r : TypedIn(l, r) => TypedIn(l, r)' /\ l # n
  BY <1>2 DEF TypedIn
<1>4. TypedIn(n, c)'
  BY <1>2 DEF TypedIn
<1>5. CASE inputCh' = [inputCh EXCEPT ![c] = Append(@, n)] /\ overflow' = overflow
  <2>1. PICK q \in Seq(Nat) : q = inputCh[c]
    BY <1>0
  <2>2. /\ Append(q, n) \in Seq(Nat) /\ Len(q) \in Nat /\ DOMAIN q = 1..Len(q)
        /\ DOMAIN Append(q, n) = 1..(Len(q) + 1)
        /\ \A i \in DOMAIN q : Append(q, n)[i] = q[i]
        /\ Append(q, n)[Len(q) + 1] = n
    BY AppendFacts
  <2>3. PICK z \in Seq(Nat) : z = Append(q, n)
    BY <2>2
  <2>4. \A i \in DOMAIN z : (i \in DOMAIN q /\ z[i] = q[i]) \/ (i = Len(q) + 1 /\ z[i] = n)
    BY <2>2, <2>3
  <2>5. inputCh' = [inputCh EXCEPT ![c] = z]
    BY <1>5, <2>1, <2>3
  <2>6. LineType'
    BY <1>0, <1>2, <1>5, <2>5 DEF LineType
  <2>7. ASSUME NEW i \in DOMAIN z
        PROVE  /\ TypedIn(z[i], c)'
               /\ \A j \in DOMAIN z : i # j => z[i] # z[j]
               /\ \A j \in DOMAIN written[c] : written[c][j] # z[i]
    <3>1. \A j \in DOMAIN q : TypedIn(q[j], c) /\ \A h \in DOMAIN q : j # h => q[j] # q[h]
      BY <1>0, <2>1 DEF LinesApart
    <3>2. \A j \in DOMAIN written[c] : /\ TypedIn(written[c][j], c)
                                            /\ \A h \in DOMAIN q : written[c][j] # q[h]
      BY <1>0, <2>1 DEF LinesApart
    <3>3. TypedIn(z[i], c)'
      BY <1>3, <1>4, <2>4, <3>1
    <3>4. \A j \in DOMAIN z : i # j => z[i] # z[j]
      BY <1>3, <2>4, <3>1
    <3>5. \A j \in DOMAIN written[c] : written[c][j] # z[i]
      BY <1>3, <2>4, <3>2
    <3> QED
      BY <3>3, <3>4, <3>5
  <2>8. LinesApart'
    <3> SUFFICES ASSUME NEW r \in Runs
                 PROVE  (/\ \A i \in DOMAIN written[r] : TypedIn(written[r][i], r)
                         /\ \A i \in DOMAIN inputCh[r] : TypedIn(inputCh[r][i], r)
                         /\ \A i, j \in DOMAIN written[r] : i # j => written[r][i] # written[r][j]
                         /\ \A i, j \in DOMAIN inputCh[r] : i # j => inputCh[r][i] # inputCh[r][j]
                         /\ \A i \in DOMAIN written[r], j \in DOMAIN inputCh[r] : written[r][i] # inputCh[r][j])'
      BY DEF LinesApart
    <3>1. CASE r = c
      <4>1. inputCh'[r] = z
        BY <1>0, <2>5, <3>1
      <4> QED
        BY <1>0, <1>3, <2>7, <3>1, <4>1 DEF LinesApart
    <3>2. CASE r # c
      <4>1. inputCh'[r] = inputCh[r]
        BY <1>0, <2>5, <3>2
      <4> QED
        BY <1>0, <1>3, <4>1 DEF LinesApart
    <3> QED
      BY <3>1, <3>2
  <2>9. ParkedApart'
    <3>1. ASSUME NEW o \in overflow
          PROVE  /\ TypedIn(o.line, o.ch)'
                 /\ \A i \in DOMAIN written'[o.ch] : written'[o.ch][i] # o.line
                 /\ \A i \in DOMAIN inputCh'[o.ch] : inputCh'[o.ch][i] # o.line
      <4>1. o.ch \in Runs /\ TypedIn(o.line, o.ch) /\ o.line # n
        BY <1>0, <1>3 DEF ParkedApart
      <4>2. \A i \in DOMAIN inputCh'[o.ch] : inputCh'[o.ch][i] # o.line
        <5>1. CASE o.ch = c
          <6>1. inputCh'[o.ch] = z /\ \A j \in DOMAIN q : q[j] # o.line
            BY <1>0, <2>1, <2>5, <5>1 DEF ParkedApart
          <6> QED
            BY <2>4, <4>1, <6>1
        <5>2. CASE o.ch # c
          BY <1>0, <2>5, <4>1, <5>2 DEF ParkedApart
        <5> QED
          BY <5>1, <5>2
      <4> QED
        BY <1>0, <1>3, <4>1, <4>2 DEF ParkedApart
    <3> QED
      BY <1>0, <1>5, <3>1 DEF ParkedApart
  <2> QED
    BY <2>6, <2>8, <2>9 DEF LinesInv
<1>6. CASE overflow' = overflow \cup {[ch |-> c, line |-> n]} /\ inputCh' = inputCh
  <2>1. PICK x : x = [ch |-> c, line |-> n]
    OBVIOUS
  <2>1a. x \in [ch : Runs, line : Nat] /\ x.ch = c /\ x.line = n
    BY <2>1
  <2>2. overflow' = overflow \cup {x}
    BY <1>6, <2>1
  <2>3. LineType'
    BY <1>0, <1>2, <1>6, <2>1a, <2>2 DEF LineType
  <2>4. LinesApart'
    BY <1>0, <1>3, <1>6 DEF LinesApart
  <2>5. \A i \in DOMAIN written[c] : written[c][i] # n
    BY <1>0, <1>3 DEF LinesApart
  <2>6. \A i \in DOMAIN inputCh[c] : inputCh[c][i] # n
    BY <1>0, <1>3 DEF LinesApart
  <2>7. \A o \in overflow : TypedIn(o.line, o.ch)' /\ o.line # n
    BY <1>0, <1>3 DEF ParkedApart
  <2>8. ASSUME NEW o \in overflow'
        PROVE  /\ TypedIn(o.line, o.ch)'
               /\ \A i \in DOMAIN written'[o.ch] : written'[o.ch][i] # o.line
               /\ \A i \in DOMAIN inputCh'[o.ch] : inputCh'[o.ch][i] # o.line
    <3>1. CASE o = x
      BY <1>0, <1>4, <1>6, <2>1a, <2>5, <2>6, <3>1
    <3>2. CASE o \in overflow
      BY <1>0, <1>6, <2>7, <3>2 DEF ParkedApart
    <3> QED
      BY <2>2, <3>1, <3>2
  <2>9. ASSUME NEW o \in overflow', NEW p \in overflow', o.ch = p.ch, o.line = p.line PROVE o = p
    BY <1>0, <2>1a, <2>2, <2>7, <2>9 DEF ParkedApart
  <2>10. ParkedApart'
    BY <2>8, <2>9 DEF ParkedApart
  <2> QED
    BY <2>3, <2>4, <2>10 DEF LinesInv
<1> QED
  BY <1>0, <1>1, <1>5, <1>6 DEF SendLine

LEMMA UnparkKeepsLines ==
  ASSUME LinesInv, NEW o \in overflow, Unpark(o)
  PROVE  LinesInv'
<1>0. /\ LineType /\ LinesApart /\ ParkedApart /\ typed' = typed /\ written' = written
      /\ inputCh \in [Runs -> Seq(Nat)] /\ overflow \in SUBSET [ch : Runs, line : Nat]
  BY DEF LinesInv, LineType, Unpark
<1>1. PICK n \in Nat, c \in Runs : n = o.line /\ c = o.ch
  BY <1>0
<1>2. \A l, r : TypedIn(l, r)' <=> TypedIn(l, r)
  BY <1>0 DEF TypedIn
<1>3. PICK q \in Seq(Nat) : q = inputCh[c]
  BY <1>0
<1>4. /\ Append(q, n) \in Seq(Nat) /\ Len(q) \in Nat /\ DOMAIN q = 1..Len(q)
      /\ DOMAIN Append(q, n) = 1..(Len(q) + 1)
      /\ \A i \in DOMAIN q : Append(q, n)[i] = q[i]
      /\ Append(q, n)[Len(q) + 1] = n
  BY AppendFacts
<1>5. PICK z \in Seq(Nat) : z = Append(q, n)
  BY <1>4
<1>6. \A i \in DOMAIN z : (i \in DOMAIN q /\ z[i] = q[i]) \/ (i = Len(q) + 1 /\ z[i] = n)
  BY <1>4, <1>5
<1>7. inputCh' = [inputCh EXCEPT ![c] = z] /\ overflow' = overflow \ {o}
  BY <1>1, <1>3, <1>5 DEF Unpark
<1>8. LineType'
  BY <1>0, <1>7 DEF LineType
<1>9. /\ TypedIn(n, c)
      /\ \A i \in DOMAIN written[c] : written[c][i] # n
      /\ \A i \in DOMAIN q : q[i] # n
  BY <1>0, <1>1, <1>3 DEF ParkedApart
<1>10. /\ \A i \in DOMAIN q : TypedIn(q[i], c)
       /\ \A i, j \in DOMAIN q : i # j => q[i] # q[j]
       /\ \A i \in DOMAIN written[c], j \in DOMAIN q : written[c][i] # q[j]
  BY <1>0, <1>3 DEF LinesApart
<1>11. /\ \A i \in DOMAIN z : TypedIn(z[i], c)
       /\ \A i, j \in DOMAIN z : i # j => z[i] # z[j]
       /\ \A i \in DOMAIN written[c], j \in DOMAIN z : written[c][i] # z[j]
  BY <1>6, <1>9, <1>10
<1>12. LinesApart'
  <2> SUFFICES ASSUME NEW r \in Runs
               PROVE  (/\ \A i \in DOMAIN written[r] : TypedIn(written[r][i], r)
                       /\ \A i \in DOMAIN inputCh[r] : TypedIn(inputCh[r][i], r)
                       /\ \A i, j \in DOMAIN written[r] : i # j => written[r][i] # written[r][j]
                       /\ \A i, j \in DOMAIN inputCh[r] : i # j => inputCh[r][i] # inputCh[r][j]
                       /\ \A i \in DOMAIN written[r], j \in DOMAIN inputCh[r] : written[r][i] # inputCh[r][j])'
    BY DEF LinesApart
  <2>1. CASE r = c
    <3>1. inputCh'[r] = z
      BY <1>0, <1>7, <2>1
    <3> QED
      BY <1>0, <1>2, <1>11, <2>1, <3>1 DEF LinesApart
  <2>2. CASE r # c
    <3>1. inputCh'[r] = inputCh[r]
      BY <1>0, <1>7, <2>2
    <3> QED
      BY <1>0, <1>2, <3>1 DEF LinesApart
  <2> QED
    BY <2>1, <2>2
<1>13. ParkedApart'
  <2>1. ASSUME NEW p \in overflow'
        PROVE  /\ TypedIn(p.line, p.ch)'
               /\ \A i \in DOMAIN written'[p.ch] : written'[p.ch][i] # p.line
               /\ \A i \in DOMAIN inputCh'[p.ch] : inputCh'[p.ch][i] # p.line
    <3>1. p \in overflow /\ p # o /\ p.ch \in Runs
      BY <1>0, <1>7
    <3>2. TypedIn(p.line, p.ch) /\ \A i \in DOMAIN inputCh[p.ch] : inputCh[p.ch][i] # p.line
      BY <1>0, <3>1 DEF ParkedApart
    <3>3. CASE p.ch = c
      <4>1. p.line # n
        BY <1>0, <1>1, <3>1, <3>3 DEF ParkedApart
      <4>2. inputCh'[p.ch] = z
        BY <1>0, <1>7, <3>3
      <4> QED
        BY <1>0, <1>2, <1>3, <1>6, <3>1, <3>2, <3>3, <4>1, <4>2 DEF ParkedApart
    <3>4. CASE p.ch # c
      <4>1. inputCh'[p.ch] = inputCh[p.ch]
        BY <1>0, <1>7, <3>1, <3>4
      <4> QED
        BY <1>0, <1>2, <3>1, <3>2, <4>1 DEF ParkedApart
    <3> QED
      BY <3>3, <3>4
  <2> QED
    BY <1>0, <1>7, <2>1 DEF ParkedApart
<1> QED
  BY <1>8, <1>12, <1>13 DEF LinesInv

LEMMA WriteKeepsLines ==
  ASSUME LinesInv, NEW c \in Runs, WriteLoop(c)
  PROVE  LinesInv'
<1>0. /\ LineType /\ LinesApart /\ ParkedApart /\ UNCHANGED <<typed, overflow>>
      /\ inputCh \in [Runs -> Seq(Nat)] /\ written \in [Runs -> Seq(Nat)]
      /\ overflow \in SUBSET [ch : Runs, line : Nat]
  BY DEF LinesInv, LineType, WriteLoop
<1>1. PICK q \in Seq(Nat), w \in Seq(Nat) : q = inputCh[c] /\ w = written[c]
  BY <1>0
<1>2. q # <<>>
  BY <1>1 DEF WriteLoop
<1>3. /\ Tail(q) \in Seq(Nat) /\ Head(q) = q[1] /\ Head(q) \in Nat /\ 1 \in DOMAIN q
      /\ Len(q) \in Nat /\ DOMAIN q = 1..Len(q) /\ DOMAIN Tail(q) = 1..(Len(q) - 1)
      /\ \A i \in DOMAIN Tail(q) : Tail(q)[i] = q[i + 1] /\ i + 1 \in DOMAIN q
  BY <1>2, TailFacts
<1>4. PICK n \in Nat, t \in Seq(Nat) : n = Head(q) /\ t = Tail(q)
  BY <1>3
<1>5. /\ Append(w, n) \in Seq(Nat) /\ Len(w) \in Nat /\ DOMAIN w = 1..Len(w)
      /\ DOMAIN Append(w, n) = 1..(Len(w) + 1)
      /\ \A i \in DOMAIN w : Append(w, n)[i] = w[i]
      /\ Append(w, n)[Len(w) + 1] = n
  BY AppendFacts
<1>6. PICK z \in Seq(Nat) : z = Append(w, n)
  BY <1>5
<1>7. \A i \in DOMAIN z : (i \in DOMAIN w /\ z[i] = w[i]) \/ (i = Len(w) + 1 /\ z[i] = n)
  BY <1>5, <1>6
<1>8. \A i \in DOMAIN t : i + 1 \in DOMAIN q /\ t[i] = q[i + 1] /\ i + 1 # 1
  BY <1>3, <1>4
<1>9. inputCh' = [inputCh EXCEPT ![c] = t] /\ written' = [written EXCEPT ![c] = z]
  BY <1>1, <1>4, <1>6 DEF WriteLoop
<1>10. LineType'
  BY <1>0, <1>9 DEF LineType
<1>11. \A l, r : TypedIn(l, r)' <=> TypedIn(l, r)
  BY <1>0 DEF TypedIn
<1>12. /\ \A i \in DOMAIN w : TypedIn(w[i], c)
       /\ \A i \in DOMAIN q : TypedIn(q[i], c)
       /\ \A i, j \in DOMAIN w : i # j => w[i] # w[j]
       /\ \A i, j \in DOMAIN q : i # j => q[i] # q[j]
       /\ \A i \in DOMAIN w, j \in DOMAIN q : w[i] # q[j]
  BY <1>0, <1>1 DEF LinesApart
<1>13. n = q[1] /\ 1 \in DOMAIN q
  BY <1>3, <1>4
<1>14. \A i, j \in DOMAIN t : i # j => t[i] # t[j]
  <2> SUFFICES ASSUME NEW i \in DOMAIN t, NEW j \in DOMAIN t, i # j PROVE t[i] # t[j]
    OBVIOUS
  <2>1. i \in Nat /\ j \in Nat
    BY <1>3, <1>4
  <2>2. i + 1 # j + 1
    BY <2>1
  <2> QED
    BY <1>8, <1>12, <2>2
<1>15. /\ \A i \in DOMAIN z : TypedIn(z[i], c)
       /\ \A i \in DOMAIN t : TypedIn(t[i], c)
       /\ \A i, j \in DOMAIN z : i # j => z[i] # z[j]
       /\ \A i \in DOMAIN z, j \in DOMAIN t : z[i] # t[j]
  <2>1. TypedIn(n, c) /\ \A i \in DOMAIN w : w[i] # n
    BY <1>12, <1>13
  <2>2. \A i \in DOMAIN z : TypedIn(z[i], c)
    BY <1>7, <1>12, <2>1
  <2>3. \A i \in DOMAIN t : TypedIn(t[i], c) /\ t[i] # n
    BY <1>8, <1>12, <1>13
  <2>4. \A i, j \in DOMAIN z : i # j => z[i] # z[j]
    BY <1>7, <1>12, <2>1
  <2>5. \A i \in DOMAIN w, j \in DOMAIN t : w[i] # t[j]
    BY <1>8, <1>12
  <2>6. \A i \in DOMAIN z, j \in DOMAIN t : z[i] # t[j]
    BY <1>7, <2>3, <2>5
  <2> QED
    BY <2>2, <2>3, <2>4, <2>6
<1>16. ASSUME NEW r \in Runs
       PROVE  IF r = c THEN inputCh'[r] = t /\ written'[r] = z
              ELSE inputCh'[r] = inputCh[r] /\ written'[r] = written[r]
  BY <1>0, <1>9
<1>17. LinesApart'
  <2> SUFFICES ASSUME NEW r \in Runs
               PROVE  (/\ \A i \in DOMAIN written[r] : TypedIn(written[r][i], r)
                       /\ \A i \in DOMAIN inputCh[r] : TypedIn(inputCh[r][i], r)
                       /\ \A i, j \in DOMAIN written[r] : i # j => written[r][i] # written[r][j]
                       /\ \A i, j \in DOMAIN inputCh[r] : i # j => inputCh[r][i] # inputCh[r][j]
                       /\ \A i \in DOMAIN written[r], j \in DOMAIN inputCh[r] : written[r][i] # inputCh[r][j])'
    BY DEF LinesApart
  <2>1. CASE r = c
    <3>1. inputCh'[r] = t /\ written'[r] = z
      BY <1>16, <2>1
    <3>2. (\A i \in DOMAIN written[r] : TypedIn(written[r][i], r))'
      BY <1>11, <1>15, <2>1, <3>1
    <3>3. (\A i \in DOMAIN inputCh[r] : TypedIn(inputCh[r][i], r))'
      BY <1>11, <1>15, <2>1, <3>1
    <3>4. (\A i, j \in DOMAIN written[r] : i # j => written[r][i] # written[r][j])'
      BY <1>15, <3>1
    <3>5. (\A i, j \in DOMAIN inputCh[r] : i # j => inputCh[r][i] # inputCh[r][j])'
      BY <1>14, <3>1
    <3>6. (\A i \in DOMAIN written[r], j \in DOMAIN inputCh[r] : written[r][i] # inputCh[r][j])'
      BY <1>15, <3>1
    <3> QED
      BY <3>2, <3>3, <3>4, <3>5, <3>6
  <2>2. CASE r # c
    <3>1. inputCh'[r] = inputCh[r] /\ written'[r] = written[r]
      BY <1>16, <2>2
    <3>2. /\ \A i \in DOMAIN written[r] : TypedIn(written[r][i], r)
          /\ \A i \in DOMAIN inputCh[r] : TypedIn(inputCh[r][i], r)
          /\ \A i, j \in DOMAIN written[r] : i # j => written[r][i] # written[r][j]
          /\ \A i, j \in DOMAIN inputCh[r] : i # j => inputCh[r][i] # inputCh[r][j]
          /\ \A i \in DOMAIN written[r], j \in DOMAIN inputCh[r] : written[r][i] # inputCh[r][j]
      BY <1>0 DEF LinesApart
    <3> QED
      BY <1>11, <3>1, <3>2
  <2> QED
    BY <2>1, <2>2
<1>18. ParkedApart'
  <2>1. ASSUME NEW p \in overflow
        PROVE  /\ TypedIn(p.line, p.ch)'
               /\ \A i \in DOMAIN written'[p.ch] : written'[p.ch][i] # p.line
               /\ \A i \in DOMAIN inputCh'[p.ch] : inputCh'[p.ch][i] # p.line
    <3>1. /\ TypedIn(p.line, p.ch) /\ p.ch \in Runs
          /\ \A i \in DOMAIN written[p.ch] : written[p.ch][i] # p.line
          /\ \A i \in DOMAIN inputCh[p.ch] : inputCh[p.ch][i] # p.line
      BY <1>0 DEF ParkedApart
    <3>2. CASE p.ch = c
      <4>1. /\ \A i \in DOMAIN z : z[i] # p.line
            /\ \A i \in DOMAIN t : t[i] # p.line
        <5>1. (\A i \in DOMAIN w : w[i] # p.line) /\ (\A i \in DOMAIN q : q[i] # p.line)
          BY <1>1, <3>1, <3>2
        <5>2. \A i \in DOMAIN z : z[i] # p.line
          BY <1>7, <1>13, <5>1
        <5>3. \A i \in DOMAIN t : t[i] # p.line
          BY <1>8, <5>1
        <5> QED
          BY <5>2, <5>3
      <4>2. inputCh'[p.ch] = t /\ written'[p.ch] = z
        BY <1>16, <3>1, <3>2
      <4> QED
        BY <1>11, <3>1, <4>1, <4>2
    <3>3. CASE p.ch # c
      BY <1>11, <1>16, <3>1, <3>3
    <3> QED
      BY <3>2, <3>3
  <2> QED
    BY <1>0, <2>1 DEF ParkedApart
<1> QED
  BY <1>10, <1>17, <1>18 DEF LinesInv

LEMMA LinesStep ==
  ASSUME LinkInv, LinesInv, [ConNext]_conVars
  PROVE  LinesInv'
<1>1. CASE Submit
  BY <1>1, SendKeepsLines DEF Submit
<1>2. ASSUME NEW o \in overflow, Unpark(o) PROVE LinesInv'
  BY <1>2, UnparkKeepsLines
<1>3. ASSUME NEW r \in Runs, WriteLoop(r) PROVE LinesInv'
  BY <1>3, WriteKeepsLines
<1>4. ASSUME UNCHANGED linesV PROVE LinesInv'
  BY <1>4 DEF LinesInv, LineType, LinesApart, ParkedApart, TypedIn, linesV
<1>5. ASSUME NEW r \in Runs, NEW b \in BOOLEAN, Pump(r, b) \/ Reap(r, b) PROVE LinesInv'
  BY <1>4, <1>5 DEF Pump, Reap
<1>6. CASE OnReconnectKey \/ AutoConnect
  BY <1>4, <1>6 DEF OnReconnectKey, AutoConnect, Connect
<1>7. CASE OnDisconnectKey \/ ReleaseDevicePort \/ ApplyData \/ ApplyExit
  BY <1>4, <1>7 DEF OnDisconnectKey, ReleaseDevicePort, ApplyData, ApplyExit
<1>8. CASE OnReconnect \/ OnQuietTick \/ Unfocus \/ ClosePane \/ UNCHANGED conVars
  BY <1>4, <1>8 DEF OnReconnect, OnQuietTick, Unfocus, ClosePane, conVars
<1> QED
  BY <1>1, <1>2, <1>3, <1>5, <1>6, <1>7, <1>8 DEF ConNext

LEMMA ConInvInit == ConInit => ConInv
<1> SUFFICES ASSUME ConInit PROVE ConInv
  OBVIOUS
<1>1. LinkType
  <2>1. closing \in BOOLEAN /\ paneOpen \in BOOLEAN
    BY Zenon DEF ConInit
  <2> QED
    BY <2>1 DEF ConInit, LinkType
<1>2. NoLeakedChild /\ LinesEnd /\ LinkShown
  BY DEF ConInit, NoLeakedChild, LinesEnd, LinkShown, Up
<1>3. LinesInv
  BY DEF ConInit, LinesInv, LineType, LinesApart, ParkedApart
<1> QED
  BY <1>1, <1>2, <1>3 DEF ConInv, LinkInv

\* The console never leaves a child process running that it does not hold, shows a
\* link only while there is one or an exit is on its way, and a line typed into one
\* run reaches the device in that run or not at all (session.go, state.go), for any
\* number of runs, reconnects and lines.
THEOREM ConsolesAreSound == ConSpec => []ConsoleSound
<1>1. ConInv => ConsoleSound
  <2> SUFFICES ASSUME ConInv PROVE ConsoleSound
    OBVIOUS
  <2>1. ShownLinkIsReal
    <3> SUFFICES ASSUME paneOpen, conBox = <<>>, \A r \in Runs : proc[r] # "dying"
                 PROVE  /\ conState \in Up <=> conRun # 0
                        /\ conState = "reconnecting" => timers > 0
      BY DEF ShownLinkIsReal, Up
    <3>1. ~ExitComes
      BY DEF ExitComes, ExitAfter
    <3> QED
      BY <3>1 DEF ConInv, LinkInv, LinkShown
  <2>2. LineToItsRun
    BY DEF ConInv, LinesInv, LinesApart, TypedIn, LineToItsRun
  <2> QED
    BY <2>1, <2>2 DEF ConsoleSound, ConInv, LinkInv
<1>2. ConInv /\ [ConNext]_conVars => ConInv'
  BY LinkStep, LinesStep DEF ConInv
<1> QED
  BY <1>1, <1>2, ConInvInit, PTL DEF ConSpec

----------------------------------------------------------------------------
(* The shell (ShInv). *)

LEMMA ShInvInit == ShInit => ShInv
<1> SUFFICES ASSUME ShInit PROVE ShInv
  OBVIOUS
<1>1. TabsApart /\ OneFocus
  BY DEF ShInit, TabsApart, OneFocus
<1>2. file = [ver |-> 0, ok |-> TRUE, watch |-> TRUE] /\ 0 \in good
  BY DEF ShInit
<1>3. ReloadType
  <2>1. file \in [ver : Nat, ok : BOOLEAN, watch : BOOLEAN] /\ file.ver = 0
    BY <1>2
  <2>2. reloads = << >>
    BY DEF ShInit
  <2>3. reloads \in Seq([ver : Nat, ok : BOOLEAN, watch : BOOLEAN]) /\ Len(reloads) = 0
        /\ DOMAIN reloads = {}
    BY <2>2
  <2>4. watcher = "idle"
    BY DEF ShInit
  <2> QED
    BY <1>2, <2>1, <2>3, <2>4 DEF ReloadType
<1>4. LastGoodConfig /\ ReloadAlive
  BY DEF ShInit, LastGoodConfig, ReloadAlive
<1> QED
  BY <1>1, <1>3, <1>4 DEF ShInv

\* Tabs.Remove takes out one tab and keeps the keyboard where it is.
LEMMA RemovedTab ==
  ASSUME TabsApart, NEW p \in Live, Len(tabs) > 1, NEW t, t = Without(p)
  PROVE  /\ t \in Seq(1..spawns) /\ Len(t) = Len(tabs) - 1 /\ DOMAIN t = 1..Len(t)
         /\ \A i, j \in DOMAIN t : t[i] = t[j] => i = j
         /\ \A q \in Live : q # p => \E i \in DOMAIN t : t[i] = q
         /\ focused \in DOMAIN tabs =>
              /\ FocusAfter(p) \in DOMAIN t
              /\ p # tabs[focused] => t[FocusAfter(p)] = tabs[focused]
<1>1. DOMAIN tabs = 1..Len(tabs) /\ Len(tabs) \in Nat /\ \A i \in 1..Len(tabs) : tabs[i] \in 1..spawns
  BY DEF TabsApart
<1>2. IndexOf(p) \in 1..Len(tabs) /\ tabs[IndexOf(p)] = p
  <2>1. \E i \in DOMAIN tabs : tabs[i] = p
    BY DEF Live
  <2> QED
    BY <1>1, <2>1 DEF IndexOf
<1>3. PICK k \in 1..Len(tabs) : k = IndexOf(p) /\ tabs[k] = p
  BY <1>2
<1>4. PICK n \in Nat : n = Len(tabs) - 1 /\ n >= 1
  <2>1. Len(tabs) - 1 \in Nat /\ Len(tabs) - 1 >= 1
    BY <1>1
  <2> QED
    BY <2>1
<1>5. t = [i \in 1..n |-> IF i < k THEN tabs[i] ELSE tabs[i + 1]]
  BY <1>3, <1>4 DEF Without
<1>6. \A i \in 1..n : i \in 1..Len(tabs) /\ i + 1 \in 1..Len(tabs)
  BY <1>1, <1>4
<1>7. t \in [1..n -> 1..spawns]
  BY <1>1, <1>5, <1>6
<1>8. t \in Seq(1..spawns) /\ Len(t) = n /\ DOMAIN t = 1..n
  <2>1. DOMAIN t = 1..n
    BY <1>7
  <2>2. t \in Seq(1..spawns)
    <3>1. PICK S : S = 1..spawns
      OBVIOUS
    <3>2. t \in [1..n -> S]
      BY <1>7, <3>1
    <3>3. t \in Seq(S)
      BY <1>4, <3>2
    <3> QED
      BY <3>1, <3>3
  <2> QED
    BY <1>4, <2>1, <2>2
<1>9. \A i, j \in 1..n : t[i] = t[j] => i = j
  <2> SUFFICES ASSUME NEW i \in 1..n, NEW j \in 1..n, t[i] = t[j] PROVE i = j
    OBVIOUS
  <2>1. \A x, y \in 1..Len(tabs) : tabs[x] = tabs[y] => x = y
    BY <1>1 DEF TabsApart
  <2>2. (IF i < k THEN tabs[i] ELSE tabs[i + 1]) = (IF j < k THEN tabs[j] ELSE tabs[j + 1])
    BY <1>5
  <2> QED
    BY <1>6, <2>1, <2>2
<1>10. ASSUME NEW q \in Live, q # p PROVE \E i \in 1..n : t[i] = q
  <2>1. PICK x \in 1..Len(tabs) : tabs[x] = q
    BY <1>1 DEF Live
  <2>2. x # k
    BY <1>3, <1>10, <2>1
  <2>3. CASE x < k
    <3>1. x \in 1..n
      BY <1>4, <2>3
    <3> QED
      BY <1>5, <2>1, <2>3, <3>1
  <2>4. CASE x > k
    <3>1. x - 1 \in 1..n /\ ~(x - 1 < k) /\ (x - 1) + 1 = x
      BY <1>4, <2>4
    <3> QED
      BY <1>5, <2>1, <3>1
  <2> QED
    BY <2>2, <2>3, <2>4
<1>11. ASSUME focused \in DOMAIN tabs
       PROVE  FocusAfter(p) \in 1..n /\ (p # tabs[focused] => t[FocusAfter(p)] = tabs[focused])
  <2>1. PICK f \in 1..Len(tabs) : f = focused
    BY <1>1, <1>11
  <2>2. FocusAfter(p) = IF f > k THEN f - 1 ELSE IF f > n THEN n ELSE f
    BY <1>3, <1>4, <2>1 DEF FocusAfter
  <2>3. FocusAfter(p) \in 1..n
    BY <1>4, <2>2
  <2>4. ASSUME p # tabs[f] PROVE t[FocusAfter(p)] = tabs[f]
    <3>1. f # k
      BY <1>3, <2>4
    <3>2. CASE f > k
      <4>1. FocusAfter(p) = f - 1 /\ f - 1 \in 1..n /\ ~(f - 1 < k) /\ (f - 1) + 1 = f
        BY <1>4, <2>2, <3>2
      <4> QED
        BY <1>5, <4>1
    <3>3. CASE f < k
      <4>1. FocusAfter(p) = f /\ f \in 1..n
        BY <1>4, <2>2, <3>3
      <4> QED
        BY <1>5, <3>3, <4>1
    <3> QED
      BY <3>1, <3>2, <3>3
  <2> QED
    BY <2>1, <2>3, <2>4
<1> QED
  BY <1>4, <1>8, <1>9, <1>10, <1>11

LEMMA PaneStep ==
  ASSUME TabsApart, OneFocus, ShPanes
  PROVE  TabsApart' /\ OneFocus' /\ KeyboardStays
<1>0. DOMAIN tabs = 1..Len(tabs) /\ Len(tabs) \in Nat /\ spawns \in Nat
  BY DEF TabsApart
<1>1. ASSUME NEW b \in BOOLEAN, Spawn(b) PROVE TabsApart' /\ OneFocus' /\ KeyboardStays
  <2>1. PICK t : t = Append(tabs, spawns + 1)
    OBVIOUS
  <2>2. PICK f : f = IF b THEN Len(tabs) + 1 ELSE focused
    OBVIOUS
  <2>3. /\ tabs' = t /\ focused' = f /\ hasFocus' = (IF f = 0 THEN {} ELSE {t[f]})
        /\ spawns' = spawns + 1 /\ ~quitting /\ quitting' = quitting
    BY <1>1, <2>1, <2>2 DEF Spawn, ApplyFocus
  <2>4. tabs \in Seq(1..(spawns + 1)) /\ spawns + 1 \in 1..(spawns + 1)
        /\ \A i \in 1..Len(tabs) : tabs[i] \in 1..spawns
    BY <1>0 DEF TabsApart
  <2>5. /\ t \in Seq(1..(spawns + 1)) /\ Len(t) = Len(tabs) + 1 /\ DOMAIN t = 1..Len(t)
        /\ t[Len(t)] = spawns + 1 /\ \A i \in 1..Len(tabs) : t[i] = tabs[i]
    BY <2>1, <2>4
  <2>6. \A i, j \in DOMAIN t : t[i] = t[j] => i = j
    <3>1. \A i \in DOMAIN t : i = Len(t) \/ (i \in 1..Len(tabs) /\ t[i] = tabs[i] /\ tabs[i] # spawns + 1)
      BY <1>0, <2>4, <2>5
    <3> QED
      BY <1>0, <2>5, <3>1 DEF TabsApart
  <2>7. f \in Nat /\ f \in DOMAIN t
    BY <1>0, <2>2, <2>3, <2>5 DEF TabsApart, OneFocus
  <2>8. f # 0 /\ TabsApart' /\ OneFocus'
    BY <1>0, <2>3, <2>5, <2>6, <2>7 DEF TabsApart, OneFocus
  <2>9. Live \subseteq Live'
    BY <1>0, <2>3, <2>5 DEF Live
  <2> QED
    BY <2>8, <2>9 DEF KeyboardStays
<1>2. ASSUME NEW p \in Live, ClosePaneMsg(p) PROVE TabsApart' /\ OneFocus' /\ KeyboardStays
  <2>1. ~quitting /\ quitting' = quitting /\ focused \in DOMAIN tabs /\ hasFocus = {tabs[focused]}
    BY <1>2 DEF ClosePaneMsg, OneFocus
  <2>2. CASE Len(tabs) = 1
    <3>1. tabs' = <<spawns + 1>> /\ focused' = 1 /\ spawns' = spawns + 1 /\ hasFocus' = {spawns + 1}
      BY <1>2, <2>2 DEF ClosePaneMsg, ApplyFocus
    <3>2. DOMAIN tabs' = {1} /\ tabs'[1] = spawns + 1 /\ tabs' \in Seq(1..(spawns + 1))
      BY <1>0, <3>1
    <3>3. TabsApart' /\ OneFocus'
      BY <1>0, <3>1, <3>2 DEF TabsApart, OneFocus
    <3>4. \A q \in Live : q \in hasFocus
      BY <1>0, <2>1, <2>2 DEF Live
    <3> QED
      BY <3>3, <3>4 DEF KeyboardStays
  <2>3. CASE Len(tabs) # 1
    <3>1. Len(tabs) > 1
      BY <1>0, <2>1, <2>3
    <3>2. PICK t : t = Without(p)
      OBVIOUS
    <3>3. PICK f : f = FocusAfter(p)
      OBVIOUS
    <3>4. /\ t \in Seq(1..spawns) /\ Len(t) = Len(tabs) - 1 /\ DOMAIN t = 1..Len(t)
          /\ \A i, j \in DOMAIN t : t[i] = t[j] => i = j
          /\ \A q \in Live : q # p => \E i \in DOMAIN t : t[i] = q
          /\ f \in DOMAIN t /\ (p # tabs[focused] => t[f] = tabs[focused])
      BY <2>1, <3>1, <3>2, <3>3, RemovedTab
    <3>5. tabs' = t /\ focused' = f /\ spawns' = spawns /\ hasFocus' = (IF f = 0 THEN {} ELSE {t[f]})
      BY <1>2, <2>3, <3>2, <3>3 DEF ClosePaneMsg, ApplyFocus
    <3>6. f # 0 /\ f \in Nat
      BY <1>0, <3>4
    <3>7. TabsApart' /\ OneFocus'
      BY <1>0, <3>4, <3>5, <3>6 DEF TabsApart, OneFocus
    <3>8. \A q \in Live : q \notin Live' => q = p
      BY <3>4, <3>5 DEF Live
    <3>9. KeyboardStays
      BY <2>1, <3>4, <3>5, <3>6, <3>8 DEF KeyboardStays
    <3> QED
      BY <3>7, <3>9
  <2> QED
    BY <2>2, <2>3
<1>3. ASSUME NEW i \in DOMAIN tabs, MoveFocus(i) PROVE TabsApart' /\ OneFocus' /\ KeyboardStays
  <2>1. i # 0 /\ i \in Nat
    BY <1>0
  <2> QED
    BY <1>0, <1>3, <2>1 DEF MoveFocus, ApplyFocus, TabsApart, OneFocus, KeyboardStays, Live
<1>4. ASSUME UNCHANGED <<tabs, focused, hasFocus, spawns, quitting>>
      PROVE  TabsApart' /\ OneFocus' /\ KeyboardStays
  BY <1>4 DEF TabsApart, OneFocus, KeyboardStays, Live
<1>5. CASE BeginQuit
  <2>1. CASE quitting'
    <3>1. \/ UNCHANGED <<tabs, focused, spawns>>
          \/ tabs' = << >> /\ focused' = 0 /\ spawns' = spawns
      BY <1>5 DEF BeginQuit, ApplyFocus
    <3>2. TabsApart'
      <4>1. CASE UNCHANGED <<tabs, focused, spawns>>
        BY <4>1 DEF TabsApart
      <4>2. CASE tabs' = << >> /\ focused' = 0 /\ spawns' = spawns
        <5>1. PICK e : e = << >>
          OBVIOUS
        <5>2. e \in Seq(1..spawns) /\ DOMAIN e = {}
          BY <5>1
        <5>3. tabs' \in Seq(1..spawns') /\ DOMAIN tabs' = {}
          BY <4>2, <5>1, <5>2
        <5>4. focused' \in Nat /\ spawns' \in Nat
          BY <1>0, <4>2
        <5> QED
          BY <5>3, <5>4 DEF TabsApart
      <4> QED
        BY <3>1, <4>1, <4>2
    <3> QED
      BY <2>1, <3>2 DEF OneFocus, KeyboardStays
  <2>2. CASE ~quitting'
    BY <1>4, <1>5, <2>2 DEF BeginQuit, OneFocus
  <2> QED
    BY <2>1, <2>2
<1> QED
  BY <1>1, <1>2, <1>3, <1>4, <1>5 DEF ShPanes, OtherKey, WorkChanges

\* What the reload half needs of a step that is about panes only.
LEMMA ReloadKept ==
  ASSUME ReloadType, LastGoodConfig, ReloadAlive, UNCHANGED cfgV
  PROVE  ReloadType' /\ LastGoodConfig' /\ ReloadAlive'
BY DEF cfgV, ReloadType, LastGoodConfig, ReloadAlive

\* The message a load of the file, or a watcher that could not start, sends.
LEMMA OneReload ==
  ASSUME NEW m \in [ver : Nat, ok : BOOLEAN, watch : BOOLEAN]
  PROVE  \E r : /\ r = <<m>> /\ r # << >> /\ Len(r) = 1 /\ DOMAIN r = {1} /\ r[1] = m
               /\ r \in Seq([ver : Nat, ok : BOOLEAN, watch : BOOLEAN])
<1>1. PICK r : r = <<m>>
  OBVIOUS
<1>2. /\ r \in Seq([ver : Nat, ok : BOOLEAN, watch : BOOLEAN]) /\ Len(r) = 1
      /\ DOMAIN r = {1} /\ r[1] = m /\ r # << >>
  BY <1>1
<1> QED
  BY <1>1, <1>2

LEMMA NoReload ==
  \E r : /\ r = << >> /\ Len(r) = 0 /\ r \in Seq([ver : Nat, ok : BOOLEAN, watch : BOOLEAN])
        /\ DOMAIN r = {}
<1>1. PICK r : r = << >>
  OBVIOUS
<1>2. r \in Seq([ver : Nat, ok : BOOLEAN, watch : BOOLEAN]) /\ Len(r) = 0 /\ DOMAIN r = {}
  BY <1>1
<1> QED
  BY <1>1, <1>2

LEMMA ReloadStep ==
  ASSUME ReloadType, LastGoodConfig, ReloadAlive, ShReload
  PROVE  ReloadType' /\ LastGoodConfig' /\ ReloadAlive'
<1>0. /\ file \in [ver : Nat, ok : BOOLEAN, watch : BOOLEAN]
      /\ watcher \in {"none", "idle", "noted"} /\ Len(reloads) \in {0, 1}
      /\ reloads \in Seq([ver : Nat, ok : BOOLEAN, watch : BOOLEAN])
      /\ file.ok => file.ver \in good
      /\ \A i \in DOMAIN reloads : reloads[i].ok => reloads[i].ver \in good
  BY DEF ReloadType
<1>1. ASSUME NEW o \in BOOLEAN, NEW w \in BOOLEAN, EditFile(o, w)
      PROVE  ReloadType' /\ LastGoodConfig' /\ ReloadAlive'
  <2>1. /\ file' = [ver |-> file.ver + 1, ok |-> o, watch |-> w]
        /\ good' = (IF o THEN good \cup {file.ver + 1} ELSE good)
        /\ watcher' = (IF watcher = "idle" THEN "noted" ELSE watcher)
        /\ UNCHANGED <<config, reloads>>
    BY <1>1 DEF EditFile
  <2>2. /\ file' \in [ver : Nat, ok : BOOLEAN, watch : BOOLEAN] /\ file'.ver = file.ver + 1
        /\ file'.ok = o
    BY <1>0, <2>1
  <2>3. good \subseteq good' /\ (file'.ok => file'.ver \in good')
    BY <2>1, <2>2
  <2>4. watcher' \in {"none", "idle", "noted"} /\ (watcher' # "none" <=> watcher # "none")
    BY <1>0, <2>1
  <2>5. ReloadType'
    BY <1>0, <2>1, <2>2, <2>3, <2>4 DEF ReloadType
  <2>6. LastGoodConfig'
    BY <2>1, <2>3 DEF LastGoodConfig
  <2> QED
    BY <2>1, <2>4, <2>5, <2>6 DEF ReloadAlive
<1>2. CASE Debounced
  <2>1. /\ reloads' = <<[ver |-> file.ver, ok |-> file.ok, watch |-> file.watch]>>
        /\ watcher' = "none" /\ UNCHANGED <<file, config, good>>
    BY <1>2 DEF Debounced
  <2>2. PICK m : m = [ver |-> file.ver, ok |-> file.ok, watch |-> file.watch]
    OBVIOUS
  <2>3. /\ m \in [ver : Nat, ok : BOOLEAN, watch : BOOLEAN]
        /\ m.ver = file.ver /\ m.ok = file.ok
    BY <1>0, <2>2
  <2>4. PICK r : /\ r = <<m>> /\ r # << >> /\ Len(r) = 1 /\ DOMAIN r = {1} /\ r[1] = m
                 /\ r \in Seq([ver : Nat, ok : BOOLEAN, watch : BOOLEAN])
    BY <2>3, OneReload
  <2>5. reloads' = r
    BY <2>1, <2>2, <2>4
  <2>6. ReloadType'
    BY <1>0, <2>1, <2>3, <2>4, <2>5 DEF ReloadType
  <2> QED
    BY <2>1, <2>4, <2>5, <2>6 DEF LastGoodConfig, ReloadAlive
<1>3. CASE OnReload
  <2>1. /\ config' = (IF Head(reloads).ok
                        THEN [ver |-> Head(reloads).ver, watch |-> Head(reloads).watch] ELSE config)
        /\ ReArm(Head(reloads).ok) /\ UNCHANGED <<file, good>> /\ reloads # << >>
    BY <1>3 DEF OnReload
  <2>2. Head(reloads).ok => Head(reloads).ver \in good
    <3>1. 1 \in DOMAIN reloads /\ Head(reloads) = reloads[1]
      BY <1>0, <2>1
    <3> QED
      BY <1>0, <3>1
  <2>3. LastGoodConfig'
    BY <2>1, <2>2 DEF LastGoodConfig
  <2>4. CASE reloads' = << >> /\ watcher' \in {"none", "idle"} /\ (watcher' = "none" => ~config'.watch)
    <3>1. PICK r : /\ r = << >> /\ Len(r) = 0 /\ DOMAIN r = {}
                   /\ r \in Seq([ver : Nat, ok : BOOLEAN, watch : BOOLEAN])
      BY NoReload
    <3>2. reloads' = r
      BY <2>4, <3>1
    <3>3. ReloadType'
      BY <1>0, <2>1, <2>4, <3>1, <3>2 DEF ReloadType
    <3> QED
      BY <2>3, <2>4, <3>3 DEF ReloadAlive
  <2>5. CASE /\ watcher' = "none"
             /\ reloads' = <<[ver |-> file.ver, ok |-> FALSE, watch |-> TRUE]>>
    <3>1. PICK m : m = [ver |-> file.ver, ok |-> FALSE, watch |-> TRUE]
      OBVIOUS
    <3>2. m \in [ver : Nat, ok : BOOLEAN, watch : BOOLEAN] /\ m.ok = FALSE
      BY <1>0, <3>1
    <3>3. PICK r : /\ r = <<m>> /\ r # << >> /\ Len(r) = 1 /\ DOMAIN r = {1} /\ r[1] = m
                   /\ r \in Seq([ver : Nat, ok : BOOLEAN, watch : BOOLEAN])
      BY <3>2, OneReload
    <3>4. reloads' = r
      BY <2>5, <3>1, <3>3
    <3>5. ReloadType'
      BY <1>0, <2>1, <2>5, <3>2, <3>3, <3>4 DEF ReloadType
    <3> QED
      BY <2>3, <2>5, <3>3, <3>4, <3>5 DEF ReloadAlive
  <2> QED
    BY <2>1, <2>4, <2>5 DEF ReArm
<1>4. CASE BeginQuit
  <2>1. UNCHANGED cfgV
    BY <1>4 DEF BeginQuit
  <2> QED
    BY <2>1, ReloadKept
<1> QED
  BY <1>1, <1>2, <1>3, <1>4 DEF ShReload

LEMMA ShellSteps ==
  ASSUME ShInv, [ShPanes \/ ShReload]_shVars
  PROVE  ShInv' /\ [ShellStep]_shVars
<1>1. CASE ShPanes
  <2>1. UNCHANGED cfgV
    BY <1>1 DEF ShPanes, Spawn, ClosePaneMsg, WorkChanges, MoveFocus, OtherKey, BeginQuit
  <2> QED
    BY <1>1, <2>1, PaneStep, ReloadKept DEF ShInv, ShellStep
<1>2. CASE ShReload
  <2>1. CASE BeginQuit
    BY <1>1, <2>1 DEF ShPanes
  <2>2. CASE ~BeginQuit
    <3>1. UNCHANGED paneV
      BY <1>2, <2>2 DEF ShReload, EditFile, Debounced, OnReload
    <3>2. TabsApart' /\ OneFocus' /\ KeyboardStays
      BY <3>1 DEF ShInv, paneV, TabsApart, OneFocus, KeyboardStays, Live
    <3> QED
      BY <1>2, <3>2, ReloadStep DEF ShInv, ShellStep
  <2> QED
    BY <2>1, <2>2
<1>3. CASE UNCHANGED shVars
  BY <1>3, ReloadKept DEF ShInv, shVars, paneV, TabsApart, OneFocus
<1> QED
  BY <1>1, <1>2, <1>3

\* For every number of panes, edits and watchers: until the shell quits exactly one
\* open pane holds the keyboard and it is the focused tab's, closing another pane
\* does not move it, the config in use is one that loaded, and while it asks for hot
\* reload the file is watched or a reload is on its way.
THEOREM ShellIsSound == ShSpec => ShellSound
<1>1. ShInit => ShInv
  BY ShInvInit
<1>2. ShInv /\ [ShPanes \/ ShReload]_shVars => ShInv' /\ [ShellStep]_shVars
  BY ShellSteps
<1> QED
  BY <1>1, <1>2, PTL DEF ShSpec, ShellSound

----------------------------------------------------------------------------
(* The host registry and its panes (HoInv). *)

LEMMA HoInvInit == HoInit => HoInv
<1> SUFFICES ASSUME HoInit PROVE HoInv
  OBVIOUS
<1>1. /\ \A h \in Host : /\ worker[h] = [pc |-> "timer", state |-> "connecting", fails |-> 0, found |-> Nothing]
                         /\ store[h] = [state |-> "connecting", found |-> Nothing]
      /\ target = 0 /\ opening = 0 /\ hostBox = << >>
  BY DEF HoInit
<1>2. [pc |-> "timer", state |-> "connecting", fails |-> 0, found |-> Nothing] \in Polled
  BY DEF Polled, HostState, Listing
<1>3. worker \in [Host -> Polled]
  BY <1>2 DEF HoInit
<1>4. [state |-> "connecting", found |-> Nothing] \in HostRow /\ [state |-> "none", found |-> Nothing] \in HostRow
  BY DEF HostRow, HostState, Listing
<1>5. store \in [Host -> HostRow] /\ view \in [Views -> [Host -> HostRow]]
  BY <1>4 DEF HoInit, NoRows
<1>6. hostBox \in Seq(Note) /\ DOMAIN hostBox = {}
  BY <1>1
<1>7. HoType
  BY <1>1, <1>3, <1>5, <1>6 DEF HoType
<1>8. FailsCounted /\ StoreFollows
  BY <1>1 DEF FailsCounted, StoreFollows
<1>9. BoxFollows /\ RowComes
  BY <1>1, <1>6 DEF BoxFollows, RowComes
<1> QED
  BY <1>7, <1>8, <1>9 DEF HoInv

\* What a post does to the messages on their way.
LEMMA PostedFacts ==
  ASSUME HoType, NEW h \in Host, NEW s \in HostState, NEW k \in {"state", "poll"}, NEW f \in Listing
  PROVE  \E b \in Seq(Note) :
           /\ b = Posted(HostMessage(h, s, k, f)) /\ (target = 0 => b = hostBox)
           /\ \A i \in DOMAIN b : b[i].host # h => \E j \in DOMAIN hostBox : b[i] = hostBox[j]
           /\ \A i \in DOMAIN b : b[i].host = h =>
                \/ \E j \in DOMAIN hostBox : b[i] = hostBox[j]
                \/ b[i].kind = k /\ b[i].state = s /\ b[i].found = f
           /\ \A j \in DOMAIN hostBox : \E i \in DOMAIN b : b[i] = hostBox[j]
           /\ target # 0 => \E i \in DOMAIN b : b[i].host = h /\ b[i].to = target
<1>0. hostBox \in Seq(Note) /\ target \in Views \cup {0}
  BY DEF HoType
<1>1. CASE target = 0
  BY <1>0, <1>1 DEF Posted
<1>2. CASE target # 0
  <2>1. PICK m : m = HostMessage(h, s, k, f)
    OBVIOUS
  <2>2. m \in Note /\ m.host = h /\ m.to = target /\ m.kind = k /\ m.state = s /\ m.found = f
    BY <1>0, <1>2, <2>1 DEF HostMessage, Note
  <2>3. PICK b : b = Append(hostBox, m)
    OBVIOUS
  <2>4. /\ b \in Seq(Note) /\ Len(b) = Len(hostBox) + 1 /\ b[Len(b)] = m /\ DOMAIN b = 1..Len(b)
        /\ \A i \in 1..Len(hostBox) : b[i] = hostBox[i]
    BY <1>0, <2>2, <2>3
  <2>5. DOMAIN hostBox = 1..Len(hostBox) /\ Len(hostBox) \in Nat
    BY <1>0
  <2>6. \A i \in DOMAIN b : i \in DOMAIN hostBox \/ b[i] = m
    BY <2>4, <2>5
  <2>7. \A i \in DOMAIN hostBox : i \in DOMAIN b /\ b[i] = hostBox[i]
    BY <2>4, <2>5
  <2>8. Len(b) \in DOMAIN b
    BY <2>4, <2>5
  <2>9. b = Posted(HostMessage(h, s, k, f))
    BY <1>2, <2>1, <2>3 DEF Posted
  <2>10. \A i \in DOMAIN b : b[i] = m \/ \E j \in DOMAIN hostBox : b[i] = hostBox[j]
    BY <2>6, <2>7
  <2>11. /\ \A i \in DOMAIN b : b[i].host # h => \E j \in DOMAIN hostBox : b[i] = hostBox[j]
         /\ \A i \in DOMAIN b : b[i].host = h =>
              \/ \E j \in DOMAIN hostBox : b[i] = hostBox[j]
              \/ b[i].kind = k /\ b[i].state = s /\ b[i].found = f
    BY <2>2, <2>10
  <2>12. \E i \in DOMAIN b : b[i].host = h /\ b[i].to = target
    BY <2>2, <2>4, <2>8
  <2> QED
    BY <1>2, <2>4, <2>7, <2>9, <2>11, <2>12
<1> QED
  BY <1>1, <1>2

\* A worker's row is replaced.
LEMMA WorkerMoves ==
  ASSUME HoType, NEW h \in Host, NEW w \in Polled, worker' = [worker EXCEPT ![h] = w]
  PROVE  /\ worker' \in [Host -> Polled] /\ worker'[h] = w
         /\ \A g \in Host \ {h} : worker'[g] = worker[g]
BY DEF HoType

LEMMA BeginPollInv == ASSUME HoInv, NEW h \in Host, BeginPoll(h) PROVE HoInv'
<1>1. PICK w : w = [worker[h] EXCEPT !.pc = "listing"]
  OBVIOUS
<1>2. /\ w \in Polled /\ w.pc = "listing" /\ w.state = worker[h].state /\ w.found = worker[h].found
      /\ w.fails = worker[h].fails
  BY <1>1 DEF HoInv, HoType, Polled
<1>3. /\ worker' = [worker EXCEPT ![h] = w] /\ worker[h].pc = "timer" /\ Sent(h)
      /\ UNCHANGED <<store, target, view, opening, hostBox>>
  BY <1>1 DEF BeginPoll
<1>4. /\ worker' \in [Host -> Polled] /\ worker'[h] = w
      /\ \A g \in Host \ {h} : worker'[g] = worker[g]
  BY <1>2, <1>3, WorkerMoves DEF HoInv
<1>5. HoType'
  BY <1>3, <1>4 DEF HoInv, HoType
<1>6. FailsCounted' /\ StoreFollows'
  BY <1>2, <1>3, <1>4 DEF HoInv, FailsCounted, StoreFollows
<1>7. BoxFollows'
  BY <1>3, <1>4 DEF HoInv, BoxFollows, Sent
<1>8. RowComes'
  BY <1>3, <1>4 DEF HoInv, RowComes
<1> QED
  BY <1>5, <1>6, <1>7, <1>8 DEF HoInv

LEMMA PollOnceInv ==
  ASSUME HoInv, NEW h \in Host, NEW ok \in BOOLEAN, NEW f \in Found, PollOnce(h, ok, f)
  PROVE  HoInv'
<1> DEFINE n == NextFails(h, ok)
           s == IF ok THEN "up" ELSE IF n >= FailThreshold THEN "down" ELSE "backoff"
<1>0. /\ worker[h] \in Polled /\ worker[h].pc = "listing" /\ f \in Listing
      /\ UNCHANGED <<store, target, view, opening>>
  BY DEF HoInv, HoType, PollOnce, Listing
<1>1. n \in Nat /\ s \in HostState /\ (s = "up" <=> n = 0) /\ s # "connecting"
      /\ (s = "down" => n >= FailThreshold) /\ n <= worker[h].fails + 1
  BY <1>0 DEF NextFails, HostState, Polled
<1>2. PICK w : w = [pc |-> "set", state |-> s, fails |-> n, found |-> f]
  OBVIOUS
<1>3. /\ worker' = [worker EXCEPT ![h] = w]
      /\ hostBox' = IF s # worker[h].state THEN Posted(HostMessage(h, s, "state", f)) ELSE hostBox
  BY <1>2 DEF PollOnce
<1> HIDE DEF n, s
<1>4. w \in Polled /\ w.pc = "set" /\ w.state = s /\ w.fails = n /\ w.found = f
  BY <1>0, <1>1, <1>2 DEF Polled
<1>5. /\ worker' \in [Host -> Polled] /\ worker'[h] = w
      /\ \A g \in Host \ {h} : worker'[g] = worker[g]
  BY <1>3, <1>4, WorkerMoves DEF HoInv
<1>6. PICK b \in Seq(Note) :
        /\ b = Posted(HostMessage(h, s, "state", f)) /\ (target = 0 => b = hostBox)
        /\ \A i \in DOMAIN b : b[i].host # h => \E j \in DOMAIN hostBox : b[i] = hostBox[j]
        /\ \A j \in DOMAIN hostBox : \E i \in DOMAIN b : b[i] = hostBox[j]
  <2>1. PICK z \in HostState : z = s
    BY <1>1
  <2>2. \E b \in Seq(Note) :
          /\ b = Posted(HostMessage(h, z, "state", f)) /\ (target = 0 => b = hostBox)
          /\ \A i \in DOMAIN b : b[i].host # h => \E j \in DOMAIN hostBox : b[i] = hostBox[j]
          /\ \A j \in DOMAIN hostBox : \E i \in DOMAIN b : b[i] = hostBox[j]
    BY <1>0, PostedFacts DEF HoInv
  <2> QED
    BY <2>1, <2>2
<1>7. /\ hostBox' \in Seq(Note)
      /\ \A i \in DOMAIN hostBox' : hostBox'[i].host # h => \E j \in DOMAIN hostBox : hostBox'[i] = hostBox[j]
      /\ \A j \in DOMAIN hostBox : \E i \in DOMAIN hostBox' : hostBox'[i] = hostBox[j]
  BY <1>3, <1>6 DEF HoInv, HoType
<1>8. HoType'
  BY <1>0, <1>5, <1>7 DEF HoInv, HoType
<1>9. StoreFollows' /\ BoxFollows'
  <2>1. StoreFollows'
    BY <1>0, <1>4, <1>5 DEF HoInv, StoreFollows
  <2>2. BoxFollows'
    <3> SUFFICES ASSUME NEW g \in Host, NEW i \in DOMAIN hostBox', hostBox'[i].host = g
                 PROVE  /\ worker'[g].pc \in {"timer", "set"}
                        /\ worker'[g].pc = "timer" => /\ hostBox'[i].kind = "poll"
                                                    /\ hostBox'[i].state = store'[g].state
                                                    /\ hostBox'[i].found = store'[g].found
      BY DEF BoxFollows
    <3>1. CASE g = h
      BY <1>4, <1>5, <3>1
    <3>2. CASE g # h
      <4>1. PICK j \in DOMAIN hostBox : hostBox'[i] = hostBox[j]
        BY <1>7, <3>2
      <4> QED
        BY <1>0, <1>5, <3>2, <4>1 DEF HoInv, BoxFollows
    <3> QED
      BY <3>1, <3>2
  <2> QED
    BY <2>1, <2>2
<1>10. FailsCounted'
  <2>1. ASSUME s = "down", store[h].state # "down"
        PROVE  store[h].state = "backoff" \/ FailThreshold <= 1
    <3>1. store[h].state = worker[h].state
      BY <1>0 DEF HoInv, StoreFollows
    <3>2. CASE worker[h].state \in {"connecting", "up"}
      <4>1. worker[h].fails = 0
        BY <3>2 DEF HoInv, FailsCounted
      <4> QED
        BY <1>1, <2>1, <4>1, HoAssumption
    <3> QED
      BY <1>0, <2>1, <3>1, <3>2 DEF Polled, HostState
  <2> QED
    BY <1>0, <1>1, <1>4, <1>5, <2>1 DEF HoInv, FailsCounted
<1>11. RowComes'
  <2> SUFFICES ASSUME NEW g \in Host, target' # 0, opening' = 0, worker'[g].pc \in {"timer", "listing"}
               PROVE  \/ view'[target'][g] = store'[g]
                      \/ \E i \in DOMAIN hostBox' : hostBox'[i].host = g /\ hostBox'[i].to = target'
    BY DEF RowComes
  <2>1. g # h /\ worker'[g] = worker[g]
    BY <1>4, <1>5
  <2>2. \/ view[target][g] = store[g]
        \/ \E i \in DOMAIN hostBox : hostBox[i].host = g /\ hostBox[i].to = target
    BY <1>0, <2>1 DEF HoInv, RowComes
  <2> QED
    BY <1>0, <1>7, <2>2
<1> QED
  BY <1>8, <1>9, <1>10, <1>11 DEF HoInv

LEMMA SetStoreInv == ASSUME HoInv, NEW h \in Host, SetStore(h) PROVE HoInv' /\ DownIsEarned
<1>0. worker[h] \in Polled /\ store \in [Host -> HostRow]
  BY DEF HoInv, HoType
<1>1. PICK w : w = [worker[h] EXCEPT !.pc = "emit"]
  OBVIOUS
<1>2. /\ w \in Polled /\ w.pc = "emit" /\ w.state = worker[h].state /\ w.found = worker[h].found
      /\ w.fails = worker[h].fails
  BY <1>0, <1>1 DEF Polled
<1>3. PICK x : x = [state |-> worker[h].state, found |-> worker[h].found]
  OBVIOUS
<1>4. x \in HostRow /\ x.state = worker[h].state /\ x.found = worker[h].found
  BY <1>0, <1>3 DEF HostRow, Polled
<1>5. /\ worker' = [worker EXCEPT ![h] = w] /\ worker[h].pc = "set" /\ Sent(h)
      /\ store' = [store EXCEPT ![h] = x] /\ UNCHANGED <<target, view, opening, hostBox>>
  BY <1>1, <1>3 DEF SetStore
<1>6. /\ worker' \in [Host -> Polled] /\ worker'[h] = w
      /\ \A g \in Host \ {h} : worker'[g] = worker[g]
  BY <1>2, <1>5, WorkerMoves DEF HoInv
<1>7. /\ store' \in [Host -> HostRow] /\ store'[h] = x
      /\ \A g \in Host \ {h} : store'[g] = store[g]
  BY <1>0, <1>4, <1>5
<1>8. HoType'
  BY <1>5, <1>6, <1>7 DEF HoInv, HoType
<1>9. FailsCounted' /\ StoreFollows'
  BY <1>2, <1>4, <1>6, <1>7 DEF HoInv, FailsCounted, StoreFollows
<1>10. BoxFollows'
  BY <1>5, <1>6, <1>7 DEF HoInv, BoxFollows, Sent
<1>11. RowComes'
  BY <1>2, <1>5, <1>6, <1>7 DEF HoInv, RowComes
<1>12. DownIsEarned
  BY <1>4, <1>5, <1>7 DEF HoInv, FailsCounted, DownIsEarned
<1> QED
  BY <1>8, <1>9, <1>10, <1>11, <1>12 DEF HoInv

LEMMA EmitPollInv == ASSUME HoInv, NEW h \in Host, EmitPoll(h) PROVE HoInv'
<1>0. /\ worker[h] \in Polled /\ worker[h].pc = "emit" /\ UNCHANGED <<store, target, view, opening>>
      /\ store[h].state = worker[h].state /\ store[h].found = worker[h].found
  BY DEF HoInv, HoType, EmitPoll, StoreFollows
<1>1. PICK w : w = [worker[h] EXCEPT !.pc = "timer"]
  OBVIOUS
<1>2. /\ w \in Polled /\ w.pc = "timer" /\ w.state = worker[h].state /\ w.found = worker[h].found
      /\ w.fails = worker[h].fails
  BY <1>0, <1>1 DEF Polled
<1>3. PICK s \in HostState, f \in Listing : s = worker[h].state /\ f = worker[h].found
  BY <1>0 DEF Polled
<1>4. worker' = [worker EXCEPT ![h] = w] /\ hostBox' = Posted(HostMessage(h, s, "poll", f))
  BY <1>1, <1>3 DEF EmitPoll
<1>5. /\ worker' \in [Host -> Polled] /\ worker'[h] = w
      /\ \A g \in Host \ {h} : worker'[g] = worker[g]
  BY <1>2, <1>4, WorkerMoves DEF HoInv
<1>6. PICK b \in Seq(Note) :
        /\ b = Posted(HostMessage(h, s, "poll", f)) /\ (target = 0 => b = hostBox)
        /\ \A i \in DOMAIN b : b[i].host # h => \E j \in DOMAIN hostBox : b[i] = hostBox[j]
        /\ \A i \in DOMAIN b : b[i].host = h =>
             \/ \E j \in DOMAIN hostBox : b[i] = hostBox[j]
             \/ b[i].kind = "poll" /\ b[i].state = s /\ b[i].found = f
        /\ \A j \in DOMAIN hostBox : \E i \in DOMAIN b : b[i] = hostBox[j]
        /\ target # 0 => \E i \in DOMAIN b : b[i].host = h /\ b[i].to = target
  BY PostedFacts DEF HoInv
<1>7. hostBox' = b
  BY <1>4, <1>6
<1>8. HoType'
  BY <1>0, <1>5, <1>7 DEF HoInv, HoType
<1>9. FailsCounted' /\ StoreFollows'
  BY <1>0, <1>2, <1>5 DEF HoInv, FailsCounted, StoreFollows
<1>10. BoxFollows'
  <2> SUFFICES ASSUME NEW g \in Host, NEW i \in DOMAIN b, b[i].host = g
               PROVE  /\ worker'[g].pc \in {"timer", "set"}
                      /\ worker'[g].pc = "timer" => /\ b[i].kind = "poll"
                                                  /\ b[i].state = store'[g].state
                                                  /\ b[i].found = store'[g].found
    BY <1>7 DEF BoxFollows
  <2>1. CASE g = h
    <3>1. ~\E j \in DOMAIN hostBox : b[i] = hostBox[j]
      BY <1>0, <2>1 DEF HoInv, BoxFollows
    <3>2. b[i].kind = "poll" /\ b[i].state = s /\ b[i].found = f
      BY <1>6, <2>1, <3>1
    <3> QED
      BY <1>0, <1>2, <1>3, <1>5, <2>1, <3>2
  <2>2. CASE g # h
    <3>1. PICK j \in DOMAIN hostBox : b[i] = hostBox[j]
      BY <1>6, <2>2
    <3> QED
      BY <1>0, <1>5, <2>2, <3>1 DEF HoInv, BoxFollows
  <2> QED
    BY <2>1, <2>2
<1>11. RowComes'
  <2> SUFFICES ASSUME NEW g \in Host, target # 0, opening = 0, worker'[g].pc \in {"timer", "listing"}
               PROVE  \/ view[target][g] = store[g]
                      \/ \E i \in DOMAIN b : b[i].host = g /\ b[i].to = target
    BY <1>0, <1>7 DEF RowComes
  <2>1. CASE g = h
    BY <1>6, <2>1
  <2>2. CASE g # h
    <3>1. \/ view[target][g] = store[g]
          \/ \E i \in DOMAIN hostBox : hostBox[i].host = g /\ hostBox[i].to = target
      BY <1>5, <2>2 DEF HoInv, RowComes
    <3> QED
      BY <1>6, <3>1
  <2> QED
    BY <2>1, <2>2
<1> QED
  BY <1>8, <1>9, <1>10, <1>11 DEF HoInv

LEMMA AdoptStreamInv == ASSUME HoInv, NEW v \in Views, AdoptStream(v) PROVE HoInv'
<1>0. v # 0 /\ HoType /\ UNCHANGED <<worker, store, hostBox>>
  BY DEF HoInv, AdoptStream, Views
<1>1. FailsCounted' /\ StoreFollows' /\ BoxFollows'
  BY <1>0 DEF HoInv, FailsCounted, StoreFollows, BoxFollows
<1>2. CASE opening = 0 /\ opening' = v /\ target' = v /\ UNCHANGED view
  BY <1>0, <1>1, <1>2 DEF HoInv, HoType, RowComes
<1>3. CASE opening = v /\ opening' = 0 /\ view' = [view EXCEPT ![v] = store] /\ UNCHANGED target
  <2>1. target = v
    BY <1>0, <1>3 DEF HoType
  <2>2. view' \in [Views -> [Host -> HostRow]] /\ view'[v] = store
    BY <1>0, <1>3 DEF HoType
  <2>3. HoType'
    BY <1>0, <1>3, <2>2 DEF HoType
  <2>4. RowComes'
    BY <1>0, <1>3, <2>1, <2>2 DEF RowComes
  <2> QED
    BY <1>1, <2>3, <2>4 DEF HoInv
<1> QED
  BY <1>2, <1>3 DEF AdoptStream

LEMMA HostUpdateInv == ASSUME HoInv, HostUpdate PROVE HoInv'
<1>0. /\ hostBox \in Seq(Note) /\ hostBox # << >> /\ view \in [Views -> [Host -> HostRow]]
      /\ UNCHANGED <<worker, store, target, opening>> /\ hostBox' = Tail(hostBox)
  BY DEF HoInv, HoType, HostUpdate
<1>1. PICK m \in Note : m = Head(hostBox) /\ m = hostBox[1] /\ 1 \in DOMAIN hostBox
  BY <1>0
<1>2. m.to \in Views /\ m.host \in Host
  BY <1>1 DEF Note
<1>3. PICK x : x = Redrawn(m, view[m.to][m.host])
  OBVIOUS
<1>4. x \in HostRow /\ x.state = m.state /\ (m.kind = "poll" => x = [state |-> m.state, found |-> m.found])
  <2>1. view[m.to][m.host] \in HostRow
    BY <1>0, <1>2
  <2> QED
    BY <1>1, <1>3, <2>1 DEF Redrawn, HostRow, Note
<1>5. view' = [view EXCEPT ![m.to][m.host] = x]
  BY <1>1, <1>3 DEF HostUpdate
<1>6. /\ view' \in [Views -> [Host -> HostRow]]
      /\ \A v \in Views : \A g \in Host :
           view'[v][g] = IF v = m.to /\ g = m.host THEN x ELSE view[v][g]
  <2>1. PICK row : row = [view[m.to] EXCEPT ![m.host] = x]
    OBVIOUS
  <2>2. row \in [Host -> HostRow] /\ \A g \in Host : row[g] = IF g = m.host THEN x ELSE view[m.to][g]
    BY <1>0, <1>2, <1>4, <2>1
  <2>3. view' = [view EXCEPT ![m.to] = row]
    BY <1>5, <2>1
  <2> QED
    BY <1>0, <1>2, <2>2, <2>3
<1>7. /\ hostBox' \in Seq(Note)
      /\ \A i \in DOMAIN hostBox' : i + 1 \in DOMAIN hostBox /\ hostBox'[i] = hostBox[i + 1]
      /\ \A j \in DOMAIN hostBox : j # 1 => j - 1 \in DOMAIN hostBox' /\ hostBox'[j - 1] = hostBox[j]
  BY <1>0
<1>8. HoType'
  BY <1>0, <1>6, <1>7 DEF HoInv, HoType
<1>9. FailsCounted' /\ StoreFollows'
  BY <1>0 DEF HoInv, FailsCounted, StoreFollows
<1>10. BoxFollows'
  BY <1>0, <1>7 DEF HoInv, BoxFollows
<1>11. RowComes'
  <2> SUFFICES ASSUME NEW g \in Host, target # 0, opening = 0, worker[g].pc \in {"timer", "listing"}
               PROVE  \/ view'[target][g] = store[g]
                      \/ \E i \in DOMAIN hostBox' : hostBox'[i].host = g /\ hostBox'[i].to = target
    BY <1>0 DEF RowComes
  <2>0. target \in Views /\ store[g] \in HostRow
    BY DEF HoInv, HoType
  <2>1. CASE m.host = g /\ m.to = target
    <3>1. m.kind = "poll" /\ m.state = store[g].state /\ m.found = store[g].found
      BY <1>1, <2>1 DEF HoInv, BoxFollows
    <3>2. store[g] = [state |-> store[g].state, found |-> store[g].found]
      BY <2>0 DEF HostRow
    <3>3. x = store[g]
      BY <1>4, <3>1, <3>2
    <3> QED
      BY <1>6, <2>0, <2>1, <3>3
  <2>2. CASE ~(m.host = g /\ m.to = target)
    <3>1. CASE view[target][g] = store[g]
      BY <1>6, <2>0, <2>2, <3>1
    <3>2. CASE \E i \in DOMAIN hostBox : hostBox[i].host = g /\ hostBox[i].to = target
      <4>1. PICK i \in DOMAIN hostBox : hostBox[i].host = g /\ hostBox[i].to = target
        BY <3>2
      <4>2. i # 1
        BY <1>1, <2>2, <4>1
      <4>3. i - 1 \in DOMAIN hostBox' /\ hostBox'[i - 1] = hostBox[i]
        BY <1>7, <4>2
      <4> QED
        BY <4>1, <4>3
    <3> QED
      BY <3>1, <3>2 DEF HoInv, RowComes
  <2> QED
    BY <2>1, <2>2
<1> QED
  BY <1>8, <1>9, <1>10, <1>11 DEF HoInv

\* What the invariant says of a pane with nothing on its way.
LEMMA InventoryFollows == ASSUME HoInv PROVE InventoryShown
<1> SUFFICES ASSUME NEW h \in Host, target # 0, opening = 0, hostBox = << >>, worker[h].pc = "timer"
             PROVE  view[target][h] = store[h]
  BY DEF InventoryShown
<1>1. DOMAIN hostBox = {}
  OBVIOUS
<1> QED
  BY <1>1 DEF HoInv, RowComes

LEMMA HostSteps == ASSUME HoInv, [HoNext]_hoVars PROVE HoInv' /\ [HostStep]_hoVars
<1>1. CASE UNCHANGED <<worker, store, target, view, opening, hostBox>>
  <2>1. HoInv'
    BY <1>1 DEF HoInv, HoType, FailsCounted, StoreFollows, BoxFollows, RowComes
  <2>2. DownIsEarned
    BY <1>1 DEF DownIsEarned
  <2>3. InventoryShown'
    BY <1>1, InventoryFollows DEF InventoryShown
  <2> QED
    BY <2>1, <2>2, <2>3 DEF HostStep
<1>2. CASE HoNext
  <2>1. HoInv'
    BY <1>1, <1>2, BeginPollInv, PollOnceInv, SetStoreInv, EmitPollInv, AdoptStreamInv, HostUpdateInv
       DEF HoNext, StopHosts
  <2>2. DownIsEarned
    <3>1. CASE \E h \in Host : SetStore(h)
      BY <3>1, SetStoreInv
    <3>2. CASE UNCHANGED store
      BY <3>2 DEF DownIsEarned
    <3> QED
      BY <1>2, <3>1, <3>2 DEF HoNext, BeginPoll, PollOnce, EmitPoll, AdoptStream, HostUpdate, StopHosts
  <2>3. HoInv' => InventoryShown'
    BY InventoryFollows, PTL
  <2> QED
    BY <2>1, <2>2, <2>3 DEF HostStep
<1> QED
  BY <1>1, <1>2 DEF hoVars

\* For every set of hosts, every limit and number of panes: once a worker is idle
\* and its messages are handled, the hosts pane that adopted the stream last shows
\* what the inventory has, and a host is given up only after it was seen backing off.
THEOREM HostsAreSound == HoSpec => HostsSound
<1>1. HoInit => HoInv
  BY HoInvInit
<1>2. HoInv /\ [HoNext]_hoVars => HoInv' /\ [HostStep]_hoVars
  BY HostSteps
<1> QED
  BY <1>1, <1>2, PTL DEF HoSpec, HostsSound

----------------------------------------------------------------------------
(* The log pane's store (LtInv).                                           *)

\* Every set of numbers has a least one.
LEMMA LeastNumber == ASSUME NEW T, T \subseteq Nat, T # {} PROVE \E x \in T : \A y \in T : x <= y
<1> DEFINE R == StrictSubsetOrdering(Nat)
           S == FiniteSubsetsOf(Nat)
           U == {0..n : n \in T}
<1>1. IsWellFoundedOn(R, S)
  BY FS_StrictSubsetOrderingWellFounded
<1>2. \A n \in T : 0..n \in S
  <2> SUFFICES ASSUME NEW n \in T PROVE 0..n \in S
    OBVIOUS
  <2>1. IsFiniteSet(0..n)
    BY FS_Interval
  <2>2. 0..n \subseteq Nat
    OBVIOUS
  <2> QED
    BY <2>1, <2>2 DEF FiniteSubsetsOf
<1>3. U \subseteq S /\ U # {}
  BY <1>2
<1>4. PICK u \in U : \A v \in U : ~(<<v, u>> \in R)
  <2> HIDE DEF R, S, U
  <2> QED
    BY <1>1, <1>3, WFMin
<1>5. PICK x \in T : u = 0..x
  OBVIOUS
<1>6. ASSUME NEW y \in T, y < x PROVE FALSE
  <2>1. 0..y \subseteq 0..x /\ 0..y # 0..x
    <3>1. x \in 0..x /\ x \notin 0..y
      BY <1>6
    <3> QED
      BY <1>6, <3>1
  <2>2. <<0..y, 0..x>> \in R
    BY <1>2, <2>1 DEF StrictSubsetOrdering, FiniteSubsetsOf
  <2> QED
    BY <1>4, <1>5, <2>2
<1>7. \A y \in T : ~(y < x)
  BY <1>6
<1>8. \A y \in T : x <= y
  BY <1>7
<1> QED
  BY <1>8


LEMMA LtTypes ==
  ASSUME LtType
  PROVE  /\ DOMAIN logRows \subseteq Nat /\ IsFiniteSet(DOMAIN logRows)
         /\ \A i \in DOMAIN logRows : Time(i) \in Nat /\ Time(i) > 0 /\ Key(i) \in Nat
<1>1. logRows \in Seq(LogRow)
  BY DEF LtType
<1>2. DOMAIN logRows = 1..Len(logRows) /\ Len(logRows) \in Nat
  BY <1>1
<1>3. IsFiniteSet(1..Len(logRows))
  BY <1>2, FS_Interval
<1>4. ASSUME NEW i \in DOMAIN logRows PROVE Time(i) \in Nat /\ Time(i) > 0 /\ Key(i) \in Nat
  <2>1. logRows[i] \in LogRow
    BY <1>1
  <2>2. logRows[i].t \in Nat \ {0} /\ logRows[i].seq \in Nat
    BY <2>1 DEF LogRow
  <2> QED
    BY <2>2 DEF Time, Key
<1> QED
  BY <1>2, <1>3, <1>4

\* A sequence that lists a set in the order of time.
Lists(o, S) == o \in Seq(S) /\ InTime(o) /\ \A i \in S : \E k \in DOMAIN o : o[k] = i

\* Rank in a query's order: nobody shares one, and none is left out.
LEMMA OrderedLists ==
  ASSUME LtType, NEW S, S \subseteq DOMAIN logRows
  PROVE  Lists(Ordered(S), S)
<1> DEFINE Under(i) == {j \in S : Before(j, i)}
           n == Cardinality(S)
           f == [i \in S |-> Cardinality(Under(i)) + 1]
           o == Ordered(S)
<1>1. IsFiniteSet(S) /\ n \in Nat
  BY LtTypes, FS_Subset, FS_CardinalityType
<1>2. \A i \in S : ~Before(i, i)
  <2> SUFFICES ASSUME NEW i \in S PROVE ~Before(i, i)
    OBVIOUS
  <2>1. Time(i) \in Int /\ Key(i) \in Int /\ i \in Int
    BY LtTypes
  <2> QED
    BY <2>1 DEF Before
<1>3. \A i, j \in S : i = j \/ Before(i, j) \/ Before(j, i)
  <2> SUFFICES ASSUME NEW i \in S, NEW j \in S PROVE i = j \/ Before(i, j) \/ Before(j, i)
    OBVIOUS
  <2>1. Time(i) \in Int /\ Key(i) \in Int /\ i \in Int /\ Time(j) \in Int /\ Key(j) \in Int /\ j \in Int
    BY LtTypes
  <2> QED
    BY <2>1 DEF Before
<1>4. \A i, j, k \in S : Before(i, j) /\ Before(j, k) => Before(i, k)
  <2> SUFFICES ASSUME NEW i \in S, NEW j \in S, NEW k \in S, Before(i, j), Before(j, k) PROVE Before(i, k)
    OBVIOUS
  <2>1. /\ Time(i) \in Int /\ Key(i) \in Int /\ i \in Int /\ Time(j) \in Int /\ Key(j) \in Int /\ j \in Int
        /\ Time(k) \in Int /\ Key(k) \in Int /\ k \in Int
    BY LtTypes
  <2> QED
    BY <2>1 DEF Before
<1>5. ASSUME NEW i \in S
      PROVE  IsFiniteSet(Under(i)) /\ Cardinality(Under(i)) \in Nat /\ Cardinality(Under(i)) + 1 <= n
  <2>1. Under(i) \subseteq S \ {i}
    BY <1>2
  <2>2. IsFiniteSet(S \ {i}) /\ Cardinality(S \ {i}) = n - 1
    BY <1>1, FS_RemoveElement
  <2> HIDE DEF Under
  <2>3. IsFiniteSet(Under(i)) /\ Cardinality(Under(i)) <= Cardinality(S \ {i})
    BY <2>1, <2>2, FS_Subset
  <2>4. Cardinality(Under(i)) \in Nat
    BY <2>3, FS_CardinalityType
  <2> HIDE DEF n
  <2> QED
    BY <1>1, <2>2, <2>3, <2>4
<1>6. ASSUME NEW i \in S, NEW j \in S, Before(i, j)
      PROVE  Cardinality(Under(i)) < Cardinality(Under(j))
  <2>1. Under(i) \cup {i} \subseteq Under(j) /\ i \notin Under(i)
    BY <1>2, <1>4, <1>6
  <2> HIDE DEF Under
  <2>2. Cardinality(Under(i) \cup {i}) = Cardinality(Under(i)) + 1
    BY <1>5, <2>1, FS_AddElement
  <2>3. Cardinality(Under(i) \cup {i}) <= Cardinality(Under(j))
    BY <1>5, <2>1, FS_Subset
  <2> QED
    BY <1>5, <2>2, <2>3
<1>7. f \in [S -> 1..n] /\ \A i \in S : f[i] = Cardinality(Under(i)) + 1
  <2> HIDE DEF Under, n
  <2>1. \A i \in S : Cardinality(Under(i)) + 1 \in 1..n
    BY <1>1, <1>5
  <2> QED
    BY <2>1
<1>8. \A i \in S : f[i] \in Int
  BY <1>7
<1>9. ASSUME NEW i \in S, NEW j \in S, Before(i, j) PROVE f[i] < f[j]
  <2> HIDE DEF Under, f
  <2> QED
    BY <1>5, <1>6, <1>7, <1>9
<1>10. ASSUME NEW i \in S, NEW j \in S, f[i] = f[j] PROVE i = j
  <2>1. ~Before(i, j) /\ ~Before(j, i)
    <3> HIDE DEF f
    <3> QED
      BY <1>8, <1>9, <1>10
  <2> QED
    BY <1>3, <2>1
<1>11. f \in Surjection(S, 1..n)
  <2> HIDE DEF f
  <2>1. f \in Injection(S, 1..n)
    BY <1>7, <1>10 DEF Injection, IsInjective
  <2>2. IsFiniteSet(1..n) /\ Cardinality(1..n) = n
    BY <1>1, FS_Interval
  <2> QED
    BY <1>1, <2>1, <2>2, FS_Injection
<1>12. DOMAIN o = 1..n /\ \A k \in 1..n : o[k] = CHOOSE i \in S : Cardinality(Under(i)) = k - 1
  BY DEF Ordered
<1>13. ASSUME NEW k \in 1..n PROVE o[k] \in S /\ f[o[k]] = k
  <2>1. PICK i \in S : f[i] = k
    <3> HIDE DEF f
    <3> QED
      BY <1>11, <1>13 DEF Surjection
  <2>2. Cardinality(Under(i)) = k - 1
    <3> HIDE DEF f, Under
    <3> QED
      BY <1>5, <1>7, <2>1
  <2>3. o[k] \in S /\ Cardinality(Under(o[k])) = k - 1
    <3> HIDE DEF o, Under
    <3> QED
      BY <1>12, <2>2
  <2> HIDE DEF f, Under, o
  <2> QED
    BY <1>7, <2>3
<1>14. o \in Seq(S)
  <2>1. o = [k \in 1..n |-> CHOOSE i \in S : Cardinality(Under(i)) = k - 1]
    BY DEF Ordered
  <2> HIDE DEF o, n, f, Under
  <2>2. o = [k \in 1..n |-> o[k]]
    BY <2>1
  <2> QED
    BY <1>1, <1>13, <2>2
<1>15. InTime(o)
  <2> SUFFICES ASSUME NEW k \in 1..n, NEW m \in 1..n, k < m PROVE o[k] # o[m] /\ Time(o[k]) <= Time(o[m])
    BY <1>12 DEF InTime
  <2> HIDE DEF o, f
  <2>1. o[k] \in S /\ o[m] \in S /\ f[o[k]] = k /\ f[o[m]] = m
    BY <1>13
  <2>2. o[k] # o[m]
    BY <2>1
  <2>3. ~Before(o[m], o[k])
    BY <1>9, <2>1
  <2>4. Before(o[k], o[m])
    BY <1>3, <2>1, <2>2, <2>3
  <2>5. Time(o[k]) \in Int /\ Time(o[m]) \in Int
    BY <2>1, LtTypes
  <2> QED
    BY <2>2, <2>4, <2>5 DEF Before
<1>16. ASSUME NEW i \in S PROVE \E k \in DOMAIN o : o[k] = i
  <2> HIDE DEF o, f
  <2>1. f[i] \in 1..n
    BY <1>7
  <2>2. f[o[f[i]]] = f[i] /\ o[f[i]] \in S
    BY <1>13, <2>1
  <2> QED
    BY <1>10, <1>12, <2>1, <2>2
<1> QED
  BY <1>14, <1>15, <1>16 DEF Lists

LEMMA FirstFacts ==
  ASSUME LtType, NEW S, S \subseteq DOMAIN logRows, NEW o, Lists(o, S), NEW n \in Nat
  PROVE  LET rows == FirstRows(o, n) IN
         /\ rows \in Seq(S) /\ InTime(rows)
         /\ \A i \in S : \/ i \in Rows(rows)
                         \/ Len(rows) = n /\ (rows # <<>> => Time(rows[Len(rows)]) <= Time(i))
<1> DEFINE m == Smaller(Len(o), n)
           rows == FirstRows(o, n)
<1>1. o \in Seq(S) /\ Len(o) \in Nat /\ DOMAIN o = 1..Len(o)
  BY DEF Lists
<1>2. m \in Nat /\ m <= Len(o) /\ (m = n \/ m = Len(o))
  BY <1>1 DEF Smaller
<1> HIDE DEF m
<1>3. rows \in Seq(S) /\ Len(rows) = m /\ \A k \in 1..m : rows[k] = o[k]
  <2>1. rows = SubSeq(o, 1, m)
    BY DEF FirstRows, m
  <2> HIDE DEF rows
  <2> QED
    BY <1>1, <1>2, <2>1
<1> HIDE DEF rows
<1>4. DOMAIN rows = 1..m /\ 1..m \subseteq 1..Len(o)
  <2>1. \A k \in 1..m : k \in 1..Len(o)
    <3>1. m \in Nat /\ Len(o) \in Nat /\ m <= Len(o)
      BY <1>1, <1>2
    <3> QED
      BY <3>1
  <2>2. rows \in Seq(S) /\ Len(rows) = m
    BY <1>3
  <2> QED
    BY <2>1, <2>2
<1>5. InTime(rows)
  BY <1>1, <1>3, <1>4 DEF Lists, InTime
<1>6. ASSUME NEW i \in S, i \notin Rows(rows)
      PROVE  Len(rows) = n /\ (rows # <<>> => Time(rows[Len(rows)]) <= Time(i))
  <2>1. PICK k \in DOMAIN o : o[k] = i
    BY DEF Lists
  <2>2. k \notin 1..m
    BY <1>3, <1>4, <1>6, <2>1 DEF Rows
  <2>3. k \in Nat /\ k > m /\ m # Len(o)
    <3>1. k \in 1..Len(o)
      BY <1>1
    <3>2. Len(o) \in Nat
      BY <1>1
    <3> HIDE <1>1
    <3> QED
      BY <1>2, <2>2, <3>1, <3>2
  <2>4. ASSUME rows # <<>> PROVE Time(rows[m]) <= Time(i)
    <3>1. m \in 1..m
      BY <1>2, <1>3, <2>4
    <3> QED
      BY <1>1, <1>3, <1>4, <2>1, <2>3, <3>1 DEF Lists, InTime
  <2> QED
    BY <1>2, <1>3, <2>3, <2>4
<1> QED
  BY <1>3, <1>5, <1>6 DEF rows

LEMMA Suffix ==
  ASSUME NEW S, NEW o \in Seq(S), NEW d \in Nat, d <= Len(o)
  PROVE  /\ SubSeq(o, d + 1, Len(o)) \in Seq(S) /\ Len(SubSeq(o, d + 1, Len(o))) = Len(o) - d
         /\ \A k \in 1..(Len(o) - d) : SubSeq(o, d + 1, Len(o))[k] = o[d + k]
<1>1. Len(o) \in Nat
  OBVIOUS
<1>2. SubSeq(o, d + 1, Len(o)) \in Seq(S)
  BY <1>1
<1>3. Len(SubSeq(o, d + 1, Len(o))) = Len(o) - d
  BY <1>1
<1>4. ASSUME NEW k \in 1..(Len(o) - d) PROVE SubSeq(o, d + 1, Len(o))[k] = o[d + k]
  BY <1>1
<1> QED
  BY <1>2, <1>3, <1>4

LEMMA LastFacts ==
  ASSUME LtType, NEW S, S \subseteq DOMAIN logRows, NEW o, Lists(o, S), NEW n \in Nat
  PROVE  LET rows == LastRows(o, n) IN
         /\ rows \in Seq(S) /\ InTime(rows) /\ Len(rows) = Smaller(Len(o), n)
         /\ \A k \in DOMAIN rows : Len(o) - Len(rows) + k \in DOMAIN o /\ rows[k] = o[Len(o) - Len(rows) + k]
         /\ \A i \in S : \/ i \in Rows(rows)
                         \/ Len(rows) = n /\ (rows # <<>> => Time(i) <= Time(rows[1]))
<1> DEFINE m == Smaller(Len(o), n)
           rows == LastRows(o, n)
           d == Len(o) - m
<1>1. o \in Seq(S) /\ Len(o) \in Nat /\ DOMAIN o = 1..Len(o)
  BY DEF Lists
<1>2. m \in Nat /\ d \in Nat /\ m + d = Len(o) /\ (m = n \/ d = 0)
  BY <1>1 DEF Smaller
<1>3. rows = SubSeq(o, d + 1, Len(o))
  BY DEF LastRows
<1> HIDE DEF m, d
<1>4. rows \in Seq(S) /\ Len(rows) = m /\ \A k \in 1..m : rows[k] = o[d + k] /\ d + k \in 1..Len(o)
  <2> HIDE DEF rows
  <2>2. rows \in Seq(S) /\ Len(rows) = m /\ \A k \in 1..m : rows[k] = o[d + k]
    <3>0. m \in Nat /\ d \in Nat /\ Len(o) \in Nat /\ m + d = Len(o)
      BY <1>1, <1>2
    <3>1. d <= Len(o) /\ Len(o) - d = m
      BY <3>0
    <3>2. d \in Nat /\ o \in Seq(S)
      BY <1>1, <1>2
    <3>3. /\ SubSeq(o, d + 1, Len(o)) \in Seq(S) /\ Len(SubSeq(o, d + 1, Len(o))) = m
          /\ \A k \in 1..m : SubSeq(o, d + 1, Len(o))[k] = o[d + k]
      BY <3>1, <3>2, Suffix, Zenon
    <3> QED
      BY <1>3, <3>3, Zenon
  <2>3. \A k \in 1..m : d + k \in 1..Len(o)
    BY <1>2
  <2> QED
    BY <2>2, <2>3
<1> HIDE DEF rows
<1>5. DOMAIN rows = 1..m
  BY <1>2, <1>4
<1>6. InTime(rows)
  <2> SUFFICES ASSUME NEW k \in 1..m, NEW j \in 1..m, k < j PROVE rows[k] # rows[j] /\ Time(rows[k]) <= Time(rows[j])
    BY <1>5 DEF InTime
  <2>1. d + k < d + j
    BY <1>2
  <2> QED
    BY <1>1, <1>4, <2>1 DEF Lists, InTime
<1>7. ASSUME NEW i \in S, i \notin Rows(rows)
      PROVE  Len(rows) = n /\ (rows # <<>> => Time(i) <= Time(rows[1]))
  <2>1. PICK k \in DOMAIN o : o[k] = i
    BY DEF Lists
  <2>2. k \in Nat /\ k <= d /\ k >= 1
    <3>1. ASSUME k > d PROVE FALSE
      <4>1. k - d \in 1..m /\ d + (k - d) = k
        BY <1>1, <1>2, <3>1
      <4>2. rows[k - d] = i
        BY <1>4, <2>1, <4>1
      <4> QED
        BY <1>5, <1>7, <4>1, <4>2 DEF Rows
    <3> QED
      BY <1>1, <1>2, <3>1
  <2>3. d # 0
    BY <1>2, <2>2
  <2>4. ASSUME rows # <<>> PROVE Time(i) <= Time(rows[1])
    <3>1. 1 \in 1..m
      BY <1>2, <1>4, <2>4
    <3>2. k < d + 1 /\ d + 1 \in 1..Len(o) /\ rows[1] = o[d + 1]
      BY <1>2, <1>4, <2>2, <3>1
    <3> QED
      BY <1>1, <2>1, <3>2 DEF Lists, InTime
  <2> QED
    BY <1>2, <1>4, <2>3, <2>4
<1>8. Len(o) - Len(rows) = d
  BY <1>2, <1>4
<1>9. \A k \in DOMAIN rows : Len(o) - Len(rows) + k \in DOMAIN o /\ rows[k] = o[Len(o) - Len(rows) + k]
  BY <1>1, <1>4, <1>5, <1>8
<1>10. Len(rows) = Smaller(Len(o), n)
  BY <1>4 DEF m
<1> QED
  BY <1>4, <1>6, <1>7, <1>9, <1>10 DEF rows

LEMMA CapType == RingCap \in Nat /\ RingCap >= 1
BY LtAssumption DEF RingCap

\* What the ring keeps of a longer one.
LEMMA TrimFacts ==
  ASSUME LtType, NEW R, R \subseteq DOMAIN logRows, NEW s \in Seq(R), InTime(s)
  PROVE  LET u == Trim(s) IN
         /\ u \in Seq(R) /\ InTime(u) /\ Len(u) = Smaller(Len(s), RingCap) /\ Len(u) <= RingCap
         /\ \A k \in DOMAIN u : Len(s) - Len(u) + k \in DOMAIN s /\ u[k] = s[Len(s) - Len(u) + k]
         /\ Rows(u) \subseteq Rows(s)
         /\ \A i \in Rows(s) : i \in Rows(u) \/ (Len(u) = RingCap /\ Time(i) <= Time(u[1]))
<1> DEFINE S == Rows(s)
           u == Trim(s)
<1>1. Len(s) \in Nat /\ DOMAIN s = 1..Len(s)
  OBVIOUS
<1>2. S \subseteq R /\ s \in Seq(S)
  <2>1. S \subseteq R
    BY DEF Rows
  <2>2. \A k \in 1..Len(s) : s[k] \in S
    BY <1>1 DEF Rows
  <2>3. s = [k \in 1..Len(s) |-> s[k]]
    OBVIOUS
  <2> HIDE DEF S
  <2> QED
    BY <1>1, <2>1, <2>2, <2>3
<1>3. Lists(s, S)
  BY <1>2 DEF Lists, Rows
<1>4. u = LastRows(s, RingCap)
  BY DEF Trim
<1> HIDE DEF u, S
<1>5. /\ u \in Seq(S) /\ InTime(u) /\ Len(u) = Smaller(Len(s), RingCap)
      /\ \A k \in DOMAIN u : Len(s) - Len(u) + k \in DOMAIN s /\ u[k] = s[Len(s) - Len(u) + k]
      /\ \A i \in S : \/ i \in Rows(u)
                      \/ Len(u) = RingCap /\ (u # <<>> => Time(i) <= Time(u[1]))
  <2>1. S \subseteq DOMAIN logRows
    BY <1>2
  <2>2. RingCap \in Nat
    BY CapType
  <2> DEFINE v == LastRows(s, RingCap)
  <2>3. /\ v \in Seq(S) /\ InTime(v) /\ Len(v) = Smaller(Len(s), RingCap)
        /\ \A k \in DOMAIN v : Len(s) - Len(v) + k \in DOMAIN s /\ v[k] = s[Len(s) - Len(v) + k]
        /\ \A i \in S : \/ i \in Rows(v)
                        \/ Len(v) = RingCap /\ (v # <<>> => Time(i) <= Time(v[1]))
    BY <1>3, <2>1, <2>2, LastFacts, Zenon
  <2> HIDE DEF v
  <2>4. u = v
    BY <1>4 DEF v
  <2> QED
    BY <2>3, <2>4, Zenon
<1>6. Len(u) <= RingCap
  <2>1. Len(u) = Smaller(Len(s), RingCap) /\ Len(s) \in Int /\ RingCap \in Int
    BY <1>1, <1>5, CapType
  <2> QED
    BY <2>1 DEF Smaller
<1>7. ASSUME Len(u) = RingCap PROVE u # <<>>
  BY <1>7, CapType
<1>8. u \in Seq(R)
  BY <1>2, <1>5
<1>9. Rows(u) \subseteq S
  BY <1>5 DEF Rows
<1> QED
  BY <1>5, <1>6, <1>7, <1>8, <1>9 DEF u, S

\* s is r with x at its end.
Appended(s, r, x, R) ==
  /\ s \in Seq(R \cup {x}) /\ Len(s) = Len(r) + 1 /\ DOMAIN s = DOMAIN r \cup {Len(r) + 1}
  /\ s[Len(r) + 1] = x /\ \A k \in DOMAIN r : s[k] = r[k]
  /\ Rows(s) = Rows(r) \cup {x}

LEMMA AppendedFacts ==
  ASSUME NEW R, NEW r \in Seq(R), NEW x, NEW s, s = Append(r, x)
  PROVE  Appended(s, r, x, R)
<1>1. s \in Seq(R \cup {x}) /\ Len(s) = Len(r) + 1 /\ Len(r) \in Nat /\ DOMAIN r = 1..Len(r)
  OBVIOUS
<1>2. s[Len(r) + 1] = x
  OBVIOUS
<1>3. \A k \in 1..Len(r) : s[k] = r[k]
  OBVIOUS
<1>4. DOMAIN s = 1..(Len(r) + 1)
  BY <1>1
<1>5. 1..(Len(r) + 1) = 1..Len(r) \cup {Len(r) + 1}
  BY <1>1
<1>6. Rows(s) = Rows(r) \cup {x}
  <2>0. DOMAIN s = DOMAIN r \cup {Len(r) + 1} /\ \A k \in DOMAIN r : s[k] = r[k]
    BY <1>1, <1>3, <1>4, <1>5
  <2>1. ASSUME NEW y \in Rows(s) PROVE y \in Rows(r) \cup {x}
    BY <1>2, <2>0, <2>1 DEF Rows
  <2>2. ASSUME NEW y \in Rows(r) \cup {x} PROVE y \in Rows(s)
    BY <1>2, <2>0, <2>2 DEF Rows
  <2> QED
    BY <2>1, <2>2
<1> QED
  BY <1>1, <1>2, <1>3, <1>4, <1>5, <1>6 DEF Appended

LEMMA AppendHolds ==
  ASSUME LtType, NEW R, R \subseteq DOMAIN logRows, NEW r \in Seq(R), InTime(r), Len(r) <= RingCap, NEW gone,
         NEW x \in DOMAIN logRows, x \notin Rows(r), \A j \in Rows(r) : Time(j) <= Time(x)
  PROVE  LET u == Trim(Append(r, x)) IN
         /\ u \in Seq(R \cup {x}) /\ Len(u) <= RingCap /\ InTime(u) /\ Rows(u) \subseteq Rows(r) \cup {x}
         /\ Held(u, gone, x) /\ \A i \in DOMAIN logRows : Held(r, gone, i) => Held(u, gone, i)
<1> DEFINE s == Append(r, x)
           u == Trim(s)
           Q == R \cup {x}
<1>1. /\ s \in Seq(Q) /\ Len(s) = Len(r) + 1 /\ DOMAIN s = DOMAIN r \cup {Len(r) + 1}
      /\ s[Len(r) + 1] = x /\ \A k \in DOMAIN r : s[k] = r[k]
      /\ Rows(s) = Rows(r) \cup {x}
  <2>1. Appended(s, r, x, R)
    BY AppendedFacts
  <2> HIDE DEF s
  <2> QED
    BY <2>1, Zenon DEF Appended
<1>2. Len(r) \in Nat /\ DOMAIN r = 1..Len(r) /\ Q \subseteq DOMAIN logRows
  OBVIOUS
<1> HIDE DEF s, Q
<1>3. InTime(s)
  <2> SUFFICES ASSUME NEW k \in DOMAIN s, NEW m \in DOMAIN s, k < m PROVE s[k] # s[m] /\ Time(s[k]) <= Time(s[m])
    BY DEF InTime
  <2>1. k \in DOMAIN r
    BY <1>1, <1>2
  <2>2. s[k] = r[k] /\ r[k] \in Rows(r)
    BY <1>1, <2>1 DEF Rows
  <2>3. CASE m \in DOMAIN r
    BY <1>1, <2>1, <2>3 DEF InTime
  <2>4. CASE m = Len(r) + 1
    BY <1>1, <2>2, <2>4
  <2> QED
    BY <1>1, <2>3, <2>4
<1>4. /\ u \in Seq(Q) /\ InTime(u) /\ Len(u) = Smaller(Len(s), RingCap) /\ Len(u) <= RingCap
      /\ \A k \in DOMAIN u : Len(s) - Len(u) + k \in DOMAIN s /\ u[k] = s[Len(s) - Len(u) + k]
      /\ Rows(u) \subseteq Rows(s)
      /\ \A i \in Rows(s) : i \in Rows(u) \/ (Len(u) = RingCap /\ Time(i) <= Time(u[1]))
  BY <1>1, <1>2, <1>3, TrimFacts
<1> HIDE DEF u
<1>5. Held(u, gone, x)
  <2>1. x \in Rows(u) \/ (Len(u) = RingCap /\ Time(x) <= Time(u[1]))
    BY <1>1, <1>4
  <2> QED
    BY <2>1 DEF Held, Same
<1>6. ASSUME NEW i \in DOMAIN logRows, NEW j \in Rows(r) \cup gone, Same(i, j) PROVE Held(u, gone, i)
  BY <1>1, <1>4, <1>6 DEF Held, Same
<1>7. ASSUME NEW i \in DOMAIN logRows, Len(r) = RingCap, Time(i) <= Time(r[1]) PROVE Held(u, gone, i)
  <2>1. Len(u) = RingCap /\ Len(s) - Len(u) = 1 /\ 1 \in DOMAIN u
    <3>1. Len(u) = RingCap
      BY <1>1, <1>2, <1>4, <1>7, CapType DEF Smaller
    <3>2. DOMAIN u = 1..Len(u)
      BY <1>4
    <3> QED
      BY <1>1, <1>7, <3>1, <3>2, CapType
  <2>2. 2 \in DOMAIN s /\ u[1] = s[2]
    BY <1>4, <2>1
  <2>3. 1 \in DOMAIN r /\ 1 \in DOMAIN s /\ s[1] = r[1]
    BY <1>1, <1>2, <1>7, CapType
  <2>4. Time(r[1]) <= Time(u[1])
    BY <1>3, <2>2, <2>3 DEF InTime
  <2>5. Time(i) \in Int /\ Time(r[1]) \in Int /\ Time(u[1]) \in Int
    <3>1. r[1] \in DOMAIN logRows
      BY <1>2, <2>3
    <3>2. u[1] \in DOMAIN logRows
      BY <1>2, <1>4, <2>1
    <3> QED
      BY <3>1, <3>2, LtTypes
  <2>6. Time(i) <= Time(u[1])
    BY <1>7, <2>4, <2>5
  <2> QED
    BY <2>1, <2>6 DEF Held
<1>8. \A i \in DOMAIN logRows : Held(r, gone, i) => Held(u, gone, i)
  BY <1>6, <1>7 DEF Held
<1> QED
  BY <1>1, <1>4, <1>5, <1>8 DEF u, s, Q

\* s is a followed by b.
Joined(s, a, b, R) ==
  /\ s \in Seq(R) /\ Len(s) = Len(a) + Len(b)
  /\ \A k \in 1..Len(a) : s[k] = a[k]
  /\ \A k \in 1..Len(b) : s[Len(a) + k] = b[k]

LEMMA JoinFacts ==
  ASSUME NEW R, NEW a \in Seq(R), NEW b \in Seq(R), NEW s, s = a \o b
  PROVE  Joined(s, a, b, R)
<1>1. s \in Seq(R) /\ Len(s) = Len(a) + Len(b)
  OBVIOUS
<1>2. \A k \in 1..Len(a) : s[k] = a[k]
  OBVIOUS
<1>3. ASSUME NEW k \in 1..Len(b) PROVE s[Len(a) + k] = b[k]
  <2>1. Len(a) \in Nat /\ Len(b) \in Nat
    OBVIOUS
  <2>2. Len(a) + k \in 1..(Len(a) + Len(b)) /\ ~(Len(a) + k <= Len(a)) /\ (Len(a) + k) - Len(a) = k
    BY <2>1
  <2> QED
    BY <2>1, <2>2
<1> QED
  BY <1>1, <1>2, <1>3 DEF Joined

LEMMA JoinedRows ==
  ASSUME NEW R, NEW a \in Seq(R), NEW b \in Seq(R), NEW s, Joined(s, a, b, R)
  PROVE  /\ Rows(s) = Rows(a) \cup Rows(b)
         /\ \A k \in DOMAIN s : (k \in DOMAIN a /\ s[k] = a[k])
                                \/ (k > Len(a) /\ k - Len(a) \in DOMAIN b /\ s[k] = b[k - Len(a)])
<1>1. /\ Len(a) \in Nat /\ Len(b) \in Nat /\ DOMAIN a = 1..Len(a) /\ DOMAIN b = 1..Len(b)
      /\ DOMAIN s = 1..Len(s) /\ Len(s) = Len(a) + Len(b)
  BY DEF Joined
<1>2. ASSUME NEW k \in DOMAIN s
      PROVE  (k \in DOMAIN a /\ s[k] = a[k]) \/ (k > Len(a) /\ k - Len(a) \in DOMAIN b /\ s[k] = b[k - Len(a)])
  <2>1. k \in 1..Len(a) \/ (k > Len(a) /\ k - Len(a) \in 1..Len(b) /\ Len(a) + (k - Len(a)) = k)
    BY <1>1
  <2>2. CASE k \in 1..Len(a)
    BY <1>1, <2>2 DEF Joined
  <2>3. CASE k > Len(a) /\ k - Len(a) \in 1..Len(b) /\ Len(a) + (k - Len(a)) = k
    <3>1. s[Len(a) + (k - Len(a))] = b[k - Len(a)]
      BY <2>3, Zenon DEF Joined
    <3> QED
      BY <1>1, <2>3, <3>1
  <2> QED
    BY <2>1, <2>2, <2>3
<1>3. ASSUME NEW y \in Rows(s) PROVE y \in Rows(a) \cup Rows(b)
  BY <1>2, <1>3 DEF Rows
<1>4. ASSUME NEW y \in Rows(a) PROVE y \in Rows(s)
  <2>1. PICK k \in 1..Len(a) : y = a[k]
    BY <1>1 DEF Rows
  <2>2. k \in DOMAIN s /\ s[k] = a[k]
    <3>1. k \in 1..Len(s)
      BY <1>1
    <3> QED
      BY <1>1, <3>1 DEF Joined
  <2> QED
    BY <2>1, <2>2 DEF Rows
<1>5. ASSUME NEW y \in Rows(b) PROVE y \in Rows(s)
  <2>1. PICK k \in 1..Len(b) : y = b[k]
    BY <1>1 DEF Rows
  <2>2. Len(a) + k \in DOMAIN s /\ s[Len(a) + k] = b[k]
    <3>1. Len(a) + k \in 1..Len(s)
      BY <1>1
    <3> QED
      BY <1>1, <3>1 DEF Joined
  <2> QED
    BY <2>1, <2>2 DEF Rows
<1> QED
  BY <1>2, <1>3, <1>4, <1>5

LEMMA PrependHolds ==
  ASSUME LtType, NEW R, R \subseteq DOMAIN logRows, NEW a \in Seq(R), InTime(a),
         NEW r \in Seq(R), InTime(r), Len(r) <= RingCap, NEW gone,
         \A i \in Rows(a), j \in Rows(r) : Time(i) < Time(j)
  PROVE  LET u == Trim(a \o r) IN
         /\ u \in Seq(R) /\ Len(u) <= RingCap /\ InTime(u) /\ Rows(u) \subseteq Rows(a) \cup Rows(r)
         /\ \A i \in Rows(a) : Held(u, gone, i)
         /\ \A i \in DOMAIN logRows : Held(r, gone, i) => Held(u, gone, i)
<1> DEFINE s == a \o r
           u == Trim(s)
<1>1. Joined(s, a, r, R)
  BY JoinFacts
<1> HIDE DEF s
<1>2. /\ s \in Seq(R) /\ Len(s) = Len(a) + Len(r) /\ Len(a) \in Nat /\ Len(r) \in Nat
      /\ DOMAIN a = 1..Len(a) /\ DOMAIN r = 1..Len(r) /\ DOMAIN s = 1..Len(s)
  BY <1>1 DEF Joined
<1>3. /\ Rows(s) = Rows(a) \cup Rows(r)
      /\ \A k \in DOMAIN s : (k \in DOMAIN a /\ s[k] = a[k])
                             \/ (k > Len(a) /\ k - Len(a) \in DOMAIN r /\ s[k] = r[k - Len(a)])
  BY <1>1, JoinedRows
<1>4. \A i \in R : Time(i) \in Int
  BY LtTypes
<1>5. \A k \in DOMAIN a : a[k] \in Rows(a) /\ a[k] \in R
  BY DEF Rows
<1>6. \A k \in DOMAIN r : r[k] \in Rows(r) /\ r[k] \in R
  BY DEF Rows
<1>7. InTime(s)
  <2> SUFFICES ASSUME NEW k \in DOMAIN s, NEW m \in DOMAIN s, k < m PROVE s[k] # s[m] /\ Time(s[k]) <= Time(s[m])
    BY DEF InTime
  <2>0. k \in Int /\ m \in Int /\ Len(a) \in Int
    BY <1>2
  <2>1. CASE k \in DOMAIN a /\ s[k] = a[k] /\ m \in DOMAIN a /\ s[m] = a[m]
    BY <2>1 DEF InTime
  <2>2. CASE k \in DOMAIN a /\ s[k] = a[k] /\ m - Len(a) \in DOMAIN r /\ s[m] = r[m - Len(a)]
    <3>1. Time(s[k]) < Time(s[m]) /\ Time(s[k]) \in Int /\ Time(s[m]) \in Int
      BY <1>4, <1>5, <1>6, <2>2
    <3> QED
      BY <3>1
  <2>3. CASE /\ k - Len(a) \in DOMAIN r /\ s[k] = r[k - Len(a)] /\ m - Len(a) \in DOMAIN r /\ s[m] = r[m - Len(a)]
    <3>1. k - Len(a) < m - Len(a)
      BY <2>0
    <3> QED
      BY <2>3, <3>1 DEF InTime
  <2>4. ~(k > Len(a) /\ m \in DOMAIN a)
    BY <1>2, <2>0
  <2> QED
    BY <1>3, <2>1, <2>2, <2>3, <2>4
<1>8. /\ u \in Seq(R) /\ InTime(u) /\ Len(u) = Smaller(Len(s), RingCap) /\ Len(u) <= RingCap
      /\ \A k \in DOMAIN u : Len(s) - Len(u) + k \in DOMAIN s /\ u[k] = s[Len(s) - Len(u) + k]
      /\ Rows(u) \subseteq Rows(s)
      /\ \A i \in Rows(s) : i \in Rows(u) \/ (Len(u) = RingCap /\ Time(i) <= Time(u[1]))
  BY <1>2, <1>7, TrimFacts
<1> HIDE DEF u
<1>9. ASSUME NEW i \in Rows(a) PROVE Held(u, gone, i)
  <2>1. i \in Rows(u) \/ (Len(u) = RingCap /\ Time(i) <= Time(u[1]))
    BY <1>3, <1>8
  <2> QED
    BY <2>1 DEF Held, Same
<1>10. ASSUME NEW i, NEW j \in Rows(r) \cup gone, Same(i, j) PROVE Held(u, gone, i)
  <2>1. j \in gone \/ j \in Rows(u) \/ (Len(u) = RingCap /\ Time(j) <= Time(u[1]))
    BY <1>3, <1>8
  <2> QED
    BY <1>10, <2>1 DEF Held, Same
<1>11. ASSUME NEW i, Len(r) = RingCap, Time(i) <= Time(r[1]) PROVE Held(u, gone, i)
  <2>1. Len(u) = RingCap /\ Len(s) - Len(u) = Len(a)
    <3>1. Len(u) = RingCap
      BY <1>2, <1>8, <1>11, CapType DEF Smaller
    <3> QED
      BY <1>2, <1>11, <3>1, CapType
  <2>2. 1 \in DOMAIN u /\ 1 \in 1..Len(r)
    <3>1. DOMAIN u = 1..Len(u)
      BY <1>8
    <3> QED
      BY <1>2, <1>11, <2>1, <3>1, CapType
  <2>3. u[1] = s[Len(a) + 1]
    BY <1>8, <2>1, <2>2
  <2>4. s[Len(a) + 1] = r[1]
    BY <1>1, <2>2 DEF Joined
  <2> QED
    BY <1>11, <2>1, <2>3, <2>4 DEF Held
<1>12. \A i \in DOMAIN logRows : Held(r, gone, i) => Held(u, gone, i)
  BY <1>10, <1>11 DEF Held
<1> QED
  BY <1>3, <1>8, <1>9, <1>12 DEF u, s

LEMMA StoreFields ==
  /\ \A s \in TailStore : /\ s.filter \in SUBSET Serial /\ s.ring \in Seq(Nat) /\ s.cursor \in Nat
                          /\ s.seenAtMax \in SUBSET Nat /\ s.oldest \in Nat /\ s.primed \in BOOLEAN
                          /\ s.exhausted \in BOOLEAN /\ s.backfilled \in Nat
BY DEF TailStore

\* What ingesting row i leaves alone, and what it says of the cursor.
Ingested(t, s, i, read, gone) ==
  /\ t \in TailStore /\ t.filter = s.filter /\ t.oldest = s.oldest /\ t.primed = s.primed
  /\ t.exhausted = s.exhausted /\ t.backfilled = s.backfilled
  /\ t.cursor = Time(i) /\ Key(i) \in t.seenAtMax /\ (t.cursor = s.cursor => s.seenAtMax \subseteq t.seenAtMax)
  /\ StoreSound(t, read \cup {i}, gone)

LEMMA IngestStep ==
  ASSUME LtType, NEW s \in TailStore, NEW read, read \subseteq DOMAIN logRows, NEW gone, gone \subseteq read,
         StoreSound(s, read, gone), NEW i \in DOMAIN logRows,
         Matches(s.filter, i), s.cursor <= Time(i), s.oldest <= Time(i)
  PROVE  Ingested(Ingest(s, i), s, i, read, gone)
<1> DEFINE t == Ingest(s, i)
           newer == Time(i) > s.cursor
           known == IF newer THEN {} ELSE s.seenAtMax
           u == Trim(Append(s.ring, i))
<1>1. /\ s.filter \in SUBSET Serial /\ s.ring \in Seq(Nat) /\ s.cursor \in Nat
      /\ s.seenAtMax \in SUBSET Nat /\ s.oldest \in Nat /\ s.primed \in BOOLEAN
      /\ s.exhausted \in BOOLEAN /\ s.backfilled \in Nat
  BY StoreFields
<1>2. Time(i) \in Nat /\ Time(i) > 0 /\ Key(i) \in Nat /\ i \in Nat
  BY LtTypes
<1>3. /\ s.ring \in Seq(read) /\ Len(s.ring) <= RingCap /\ InTime(s.ring)
      /\ \A j \in read : Matches(s.filter, j) /\ s.oldest <= Time(j) /\ Time(j) <= s.cursor
      /\ \A key \in s.seenAtMax : \E j \in read : Time(j) = s.cursor /\ Key(j) = key
      /\ \A j \in Rows(s.ring) : Time(j) = s.cursor => Key(j) \in s.seenAtMax
      /\ \A j \in read : Held(s.ring, gone, j)
  BY DEF StoreSound, RingSound, CursorSound
<1>4. Rows(s.ring) \subseteq read /\ \A j \in read : Time(j) \in Int
  BY <1>3, LtTypes DEF Rows
<1>5. CASE ~Fresh(s, i)
  <2>1. t = s
    BY <1>5 DEF Ingest
  <2>2. Time(i) = s.cursor /\ Key(i) \in s.seenAtMax
    BY <1>1, <1>2, <1>5 DEF Fresh
  <2>3. PICK j \in read : Time(j) = s.cursor /\ Key(j) = Key(i)
    BY <1>3, <2>2
  <2>4. Held(s.ring, gone, i)
    <3>1. Held(s.ring, gone, j)
      BY <1>3
    <3> QED
      BY <2>2, <2>3, <3>1 DEF Held, Same
  <2>5. RingSound(s, read \cup {i})
    <3>1. s.ring \in Seq(read \cup {i})
      BY <1>3
    <3> QED
      BY <1>3, <3>1 DEF RingSound
  <2>6. CursorSound(s, read \cup {i})
    BY <1>1, <1>2, <1>3, <2>2 DEF CursorSound
  <2>7. StoreSound(s, read \cup {i}, gone)
    BY <1>3, <2>4, <2>5, <2>6 DEF StoreSound
  <2> HIDE DEF t
  <2> QED
    BY <2>1, <2>2, <2>7 DEF Ingested, t
<1>6. CASE Fresh(s, i)
  <2>1. newer \/ Time(i) = s.cursor
    BY <1>1, <1>2
  <2>2. t = [s EXCEPT !.cursor = Time(i), !.ring = u, !.seenAtMax = known \cup {Key(i)}]
    <3>1. (IF newer THEN Time(i) ELSE s.cursor) = Time(i)
      BY <2>1
    <3> QED
      BY <1>6, <3>1 DEF Ingest
  <2>3. i \notin Rows(s.ring) /\ \A j \in Rows(s.ring) : Time(j) <= Time(i)
    <3>1. \A j \in Rows(s.ring) : Time(j) <= Time(i)
      BY <1>1, <1>2, <1>3, <1>4
    <3>2. CASE newer
      BY <1>1, <1>2, <1>3, <1>4, <3>2
    <3>3. CASE Time(i) = s.cursor
      BY <1>1, <1>2, <1>3, <1>6, <3>1, <3>3 DEF Fresh
    <3> QED
      BY <2>1, <3>1, <3>2, <3>3
  <2>4. /\ u \in Seq(read \cup {i}) /\ Len(u) <= RingCap /\ InTime(u) /\ Rows(u) \subseteq Rows(s.ring) \cup {i}
        /\ Held(u, gone, i) /\ \A j \in DOMAIN logRows : Held(s.ring, gone, j) => Held(u, gone, j)
    BY <1>3, <2>3, AppendHolds
  <2> HIDE DEF u, known, t
  <2>5. read \cup {i} \subseteq Nat
    BY <1>2, LtTypes
  <2>6. u \in Seq(Nat)
    BY <2>4, <2>5
  <2>7. known \in SUBSET Nat /\ known \cup {Key(i)} \in SUBSET Nat
    BY <1>1, <1>2 DEF known
  <2>8. /\ t.cursor = Time(i) /\ t.ring = u /\ t.seenAtMax = known \cup {Key(i)}
        /\ t.filter = s.filter /\ t.oldest = s.oldest /\ t.primed = s.primed
        /\ t.exhausted = s.exhausted /\ t.backfilled = s.backfilled
    BY <2>2 DEF TailStore
  <2>9. t \in TailStore
    BY <1>2, <2>2, <2>6, <2>7 DEF TailStore
  <2>10. RingSound(t, read \cup {i})
    BY <2>4, <2>8 DEF RingSound
  <2>11. CursorSound(t, read \cup {i})
    <3>1. \A j \in read \cup {i} : Matches(s.filter, j) /\ s.oldest <= Time(j) /\ Time(j) <= Time(i)
      BY <1>1, <1>2, <1>3, <1>4
    <3>2. ASSUME NEW key \in known \cup {Key(i)}
          PROVE  \E j \in read \cup {i} : Time(j) = Time(i) /\ Key(j) = key
      <4>1. CASE key = Key(i)
        BY <4>1
      <4>2. CASE key \in known
        <5>1. ~newer /\ key \in s.seenAtMax
          BY <4>2 DEF known
        <5> QED
          BY <1>3, <2>1, <5>1
      <4> QED
        BY <3>2, <4>1, <4>2
    <3>3. ASSUME NEW j \in Rows(u), Time(j) = Time(i) PROVE Key(j) \in known \cup {Key(i)}
      <4>1. CASE j = i
        BY <4>1
      <4>2. CASE j \in Rows(s.ring)
        <5>1. Time(j) <= s.cursor /\ Time(j) \in Int
          BY <1>3, <1>4, <4>2
        <5>2. ~newer /\ Time(i) = s.cursor
          BY <1>1, <1>2, <2>1, <3>3, <5>1
        <5> QED
          BY <1>3, <3>3, <4>2, <5>2 DEF known
      <4> QED
        BY <2>4, <3>3, <4>1, <4>2
    <3> QED
      BY <2>8, <3>1, <3>2, <3>3 DEF CursorSound
  <2>12. \A j \in read \cup {i} : Held(u, gone, j)
    BY <1>3, <2>4
  <2>13. StoreSound(t, read \cup {i}, gone)
    BY <2>8, <2>10, <2>11, <2>12 DEF StoreSound
  <2>14. t.cursor = s.cursor => s.seenAtMax \subseteq t.seenAtMax
    <3>1. Time(i) = s.cursor => ~newer
      BY <1>1, <1>2
    <3> QED
      BY <2>8, <3>1 DEF known
  <2> QED
    BY <2>8, <2>9, <2>13, <2>14 DEF Ingested, t
<1> QED
  BY <1>5, <1>6

\* The store after the first k rows of a batch.
IngestsInto(f, s, rows, n) == f = [k \in 0..n |-> IF k = 0 THEN s ELSE Ingest(f[k - 1], rows[k])]

LEMMA IngestUnfolds ==
  ASSUME NEW s, NEW rows, Len(rows) \in Nat
  PROVE  \E f : IngestsInto(f, s, rows, Len(rows)) /\ IngestForward(s, rows) = f[Len(rows)]
<1> DEFINE Failing == {m \in Nat : ~ \E f : IngestsInto(f, s, rows, m)}
           g == CHOOSE f : IngestsInto(f, s, rows, Len(rows))
<1>1. Failing = {}
  <2> SUFFICES ASSUME Failing # {} PROVE FALSE
    OBVIOUS
  <2>1. PICK m \in Failing : \A y \in Failing : m <= y
    BY LeastNumber
  <2>2. m # 0
    <3>1. IngestsInto([k \in 0..0 |-> s], s, rows, 0)
      BY DEF IngestsInto
    <3> QED
      BY <2>1, <3>1
  <2>3. m - 1 \in Nat /\ ~(m <= m - 1)
    BY <2>2
  <2>4. m - 1 \notin Failing
    <3> HIDE DEF Failing
    <3> QED
      BY <2>1, <2>3
  <2>5. PICK f : IngestsInto(f, s, rows, m - 1)
    BY <2>3, <2>4
  <2> DEFINE h == [k \in 0..m |-> IF k < m THEN f[k] ELSE Ingest(f[m - 1], rows[m])]
  <2>6. ASSUME NEW k \in 0..m PROVE h[k] = IF k = 0 THEN s ELSE Ingest(h[k - 1], rows[k])
    <3>1. CASE k = m
      <4>1. m - 1 \in 0..m /\ m - 1 < m /\ ~(m < m)
        BY <2>3
      <4>2. h[m] = Ingest(f[m - 1], rows[m]) /\ h[m - 1] = f[m - 1]
        BY <2>3, <4>1
      <4> QED
        BY <2>2, <3>1, <4>2
    <3>2. CASE k # m
      <4>1. k \in 0..(m - 1) /\ k < m
        BY <2>3, <3>2
      <4>2. f[k] = IF k = 0 THEN s ELSE Ingest(f[k - 1], rows[k])
        BY <2>5, <4>1, Zenon DEF IngestsInto
      <4>3. h[k] = f[k]
        BY <4>1
      <4>4. k # 0 => h[k - 1] = f[k - 1]
        <5> SUFFICES ASSUME k # 0 PROVE h[k - 1] = f[k - 1]
          OBVIOUS
        <5>1. k - 1 \in 0..m /\ k - 1 < m
          BY <4>1
        <5> QED
          BY <5>1
      <4> HIDE DEF h
      <4> QED
        BY <4>2, <4>3, <4>4
    <3> QED
      BY <3>1, <3>2
  <2>7. h = [k \in 0..m |-> h[k]]
    OBVIOUS
  <2>8. IngestsInto(h, s, rows, m)
    <3> HIDE DEF h
    <3>1. [k \in 0..m |-> h[k]] = [k \in 0..m |-> IF k = 0 THEN s ELSE Ingest(h[k - 1], rows[k])]
      BY <2>6, Zenon
    <3> QED
      BY <2>7, <3>1 DEF IngestsInto
  <2> QED
    BY <2>1, <2>8
<1>2. IngestsInto(g, s, rows, Len(rows))
  BY <1>1
<1>3. IngestForward(s, rows) = g[Len(rows)]
  BY DEF IngestForward, IngestsInto
<1> QED
  BY <1>2, <1>3

\* What ingesting a batch leaves alone, and what it says of the cursor.
BatchIngested(t, s, rows, n, read, gone) ==
  /\ t \in TailStore /\ t.filter = s.filter /\ t.oldest = s.oldest /\ t.primed = s.primed
  /\ t.exhausted = s.exhausted /\ t.backfilled = s.backfilled
  /\ StoreSound(t, read \cup {rows[m] : m \in 1..n}, gone)
  /\ t.cursor = IF n = 0 THEN s.cursor ELSE Time(rows[n])
  /\ t.cursor = s.cursor => /\ \A m \in 1..n : Key(rows[m]) \in t.seenAtMax
                            /\ s.seenAtMax \subseteq t.seenAtMax

LEMMA BatchStep ==
  ASSUME LtType, NEW s \in TailStore, NEW t, NEW read, read \subseteq DOMAIN logRows,
         NEW gone, gone \subseteq read, NEW rows \in Seq(DOMAIN logRows), InTime(rows),
         \A m \in DOMAIN rows : Matches(s.filter, rows[m]) /\ s.cursor <= Time(rows[m]) /\ s.oldest <= Time(rows[m]),
         NEW k \in 1..Len(rows), BatchIngested(t, s, rows, k - 1, read, gone)
  PROVE  BatchIngested(Ingest(t, rows[k]), s, rows, k, read, gone)
<1> DEFINE old == read \cup {rows[m] : m \in 1..(k - 1)}
           u == Ingest(t, rows[k])
<1>0. k \in Nat /\ k # 0 /\ k - 1 \in Nat /\ DOMAIN rows = 1..Len(rows) /\ k \in DOMAIN rows
      /\ 1..(k - 1) \subseteq DOMAIN rows /\ 1..k = 1..(k - 1) \cup {k}
  OBVIOUS
<1>1. rows[k] \in DOMAIN logRows /\ \A m \in 1..(k - 1) : rows[m] \in DOMAIN logRows
  BY <1>0
<1>2. /\ t \in TailStore /\ t.filter = s.filter /\ t.oldest = s.oldest /\ t.primed = s.primed
      /\ t.exhausted = s.exhausted /\ t.backfilled = s.backfilled
      /\ StoreSound(t, old, gone)
      /\ t.cursor = IF k - 1 = 0 THEN s.cursor ELSE Time(rows[k - 1])
      /\ t.cursor = s.cursor => /\ \A m \in 1..(k - 1) : Key(rows[m]) \in t.seenAtMax
                                /\ s.seenAtMax \subseteq t.seenAtMax
  BY DEF BatchIngested
<1>3. old \subseteq DOMAIN logRows /\ gone \subseteq old
  BY <1>1
<1>4. t.cursor <= Time(rows[k])
  <2>1. CASE k = 1
    BY <1>0, <1>2, <2>1
  <2>2. CASE k # 1
    <3>1. k - 1 \in DOMAIN rows /\ k - 1 < k
      BY <1>0, <2>2
    <3>2. Time(rows[k - 1]) <= Time(rows[k])
      BY <1>0, <3>1 DEF InTime
    <3> QED
      BY <1>0, <1>2, <2>2, <3>2
  <2> QED
    BY <2>1, <2>2
<1>5. Matches(t.filter, rows[k]) /\ t.oldest <= Time(rows[k])
  BY <1>0, <1>2
<1> HIDE DEF old
<1>6. Ingested(u, t, rows[k], old, gone)
  BY <1>1, <1>2, <1>3, <1>4, <1>5, IngestStep
<1> HIDE DEF u
<1>7. /\ u \in TailStore /\ u.filter = t.filter /\ u.oldest = t.oldest /\ u.primed = t.primed
      /\ u.exhausted = t.exhausted /\ u.backfilled = t.backfilled
      /\ u.cursor = Time(rows[k]) /\ Key(rows[k]) \in u.seenAtMax
      /\ u.cursor = t.cursor => t.seenAtMax \subseteq u.seenAtMax
      /\ StoreSound(u, old \cup {rows[k]}, gone)
  BY <1>6 DEF Ingested
<1>8. old \cup {rows[k]} = read \cup {rows[m] : m \in 1..k}
  BY <1>0 DEF old
<1>9. ASSUME u.cursor = s.cursor
      PROVE  (\A m \in 1..k : Key(rows[m]) \in u.seenAtMax) /\ s.seenAtMax \subseteq u.seenAtMax
  <2>1. t.cursor = s.cursor
    <3>1. CASE k = 1
      BY <1>2, <3>1
    <3>2. CASE k # 1
      <4>1. k - 1 \in DOMAIN rows
        BY <1>0, <3>2
      <4>2. t.cursor = Time(rows[k - 1]) /\ s.cursor <= Time(rows[k - 1])
        BY <1>0, <1>2, <3>2, <4>1
      <4>3. s.cursor \in Nat /\ Time(rows[k - 1]) \in Nat
        BY <1>1, <4>1, LtTypes, StoreFields
      <4> QED
        BY <1>4, <1>7, <1>9, <4>2, <4>3
    <3> QED
      BY <3>1, <3>2
  <2> QED
    BY <1>0, <1>2, <1>7, <1>9, <2>1
<1>10. u.filter = s.filter /\ u.oldest = s.oldest /\ u.primed = s.primed
       /\ u.exhausted = s.exhausted /\ u.backfilled = s.backfilled
  BY <1>2, <1>7
<1> QED
  BY <1>0, <1>7, <1>8, <1>9, <1>10 DEF BatchIngested, u

LEMMA BatchFacts ==
  ASSUME LtType, NEW s \in TailStore, NEW read, read \subseteq DOMAIN logRows, NEW gone, gone \subseteq read,
         StoreSound(s, read, gone), NEW rows \in Seq(DOMAIN logRows), InTime(rows),
         \A m \in DOMAIN rows : Matches(s.filter, rows[m]) /\ s.cursor <= Time(rows[m]) /\ s.oldest <= Time(rows[m])
  PROVE  BatchIngested(IngestForward(s, rows), s, rows, Len(rows), read, gone)
<1>0. Len(rows) \in Nat
  OBVIOUS
<1>1. PICK f : IngestsInto(f, s, rows, Len(rows)) /\ IngestForward(s, rows) = f[Len(rows)]
  BY <1>0, IngestUnfolds
<1>2. f[0] = s /\ \A k \in 1..Len(rows) : f[k] = Ingest(f[k - 1], rows[k])
  BY <1>0, <1>1 DEF IngestsInto
<1> DEFINE Failing == {k \in 0..Len(rows) : ~BatchIngested(f[k], s, rows, k, read, gone)}
<1>3. BatchIngested(f[0], s, rows, 0, read, gone)
  <2>1. {rows[m] : m \in 1..0} = {} /\ read \cup {} = read
    OBVIOUS
  <2> QED
    BY <1>2, <2>1 DEF BatchIngested
<1>4. Failing = {}
  <2> SUFFICES ASSUME Failing # {} PROVE FALSE
    OBVIOUS
  <2>1. Failing \subseteq Nat
    BY <1>0
  <2>2. PICK k \in Failing : \A y \in Failing : k <= y
    BY <2>1, LeastNumber
  <2>3. k # 0
    BY <1>3, <2>2
  <2>4. k - 1 \in 0..Len(rows) /\ k \in 1..Len(rows) /\ ~(k <= k - 1)
    BY <1>0, <2>2, <2>3
  <2>5. BatchIngested(f[k - 1], s, rows, k - 1, read, gone)
    BY <2>2, <2>4
  <2>6. BatchIngested(Ingest(f[k - 1], rows[k]), s, rows, k, read, gone)
    BY <2>4, <2>5, BatchStep
  <2> QED
    BY <1>2, <2>2, <2>4, <2>6
<1>5. BatchIngested(f[Len(rows)], s, rows, Len(rows), read, gone)
  BY <1>0, <1>4
<1> QED
  BY <1>1, <1>5

\* What each query returns.
LEMMA RecentFacts ==
  ASSUME LtType, NEW f
  PROVE  \E rows \in Seq(DOMAIN logRows) :
           /\ rows = QueryRecent(f) /\ InTime(rows)
           /\ \A m \in DOMAIN rows : Matches(f, rows[m])
           /\ \A i \in DOMAIN logRows : Matches(f, i) =>
                i \in Rows(rows) \/ (Len(rows) = Page /\ (rows # <<>> => Time(i) <= Time(rows[1])))
<1> DEFINE S == {i \in DOMAIN logRows : Matches(f, i)}
           rows == QueryRecent(f)
<1>1. S \subseteq DOMAIN logRows
  OBVIOUS
<1>2. Lists(Ordered(S), S)
  BY <1>1, OrderedLists
<1>3. PICK o : o = Ordered(S)
  OBVIOUS
<1>4. rows = LastRows(o, Page) /\ Page \in Nat
  BY <1>3, LtAssumption DEF QueryRecent
<1>5. Lists(o, S)
  BY <1>2, <1>3
<1> HIDE DEF rows, S
<1>6. /\ rows \in Seq(S) /\ InTime(rows)
      /\ \A i \in S : i \in Rows(rows) \/ (Len(rows) = Page /\ (rows # <<>> => Time(i) <= Time(rows[1])))
  <2> DEFINE v == LastRows(o, Page)
  <2>1. Page \in Nat
    BY <1>4
  <2>2. /\ v \in Seq(S) /\ InTime(v)
        /\ \A i \in S : i \in Rows(v) \/ (Len(v) = Page /\ (v # <<>> => Time(i) <= Time(v[1])))
    BY <1>1, <1>5, <2>1, LastFacts, Zenon
  <2> HIDE DEF v
  <2>3. rows = v
    BY <1>4 DEF v
  <2> QED
    BY <2>2, <2>3
<1>7. rows \in Seq(DOMAIN logRows) /\ \A m \in DOMAIN rows : rows[m] \in S
  BY <1>1, <1>6
<1>8. rows = QueryRecent(f)
  BY DEF rows
<1>9. \A i : i \in S <=> i \in DOMAIN logRows /\ Matches(f, i)
  BY DEF S
<1> QED
  BY <1>6, <1>7, <1>8, <1>9

LEMMA BackfillFacts ==
  ASSUME LtType, NEW f, NEW before
  PROVE  \E rows \in Seq(DOMAIN logRows) :
           /\ rows = QueryBackfill(f, before) /\ InTime(rows)
           /\ \A m \in DOMAIN rows : Matches(f, rows[m]) /\ Time(rows[m]) < before
           /\ \A i \in DOMAIN logRows : Matches(f, i) /\ Time(i) < before =>
                i \in Rows(rows) \/ (Len(rows) = Page /\ (rows # <<>> => Time(i) <= Time(rows[1])))
<1> DEFINE S == {i \in DOMAIN logRows : Matches(f, i) /\ Time(i) < before}
           rows == QueryBackfill(f, before)
<1>1. S \subseteq DOMAIN logRows
  OBVIOUS
<1>2. Lists(Ordered(S), S)
  BY <1>1, OrderedLists
<1>3. PICK o : o = Ordered(S)
  OBVIOUS
<1>4. rows = LastRows(o, Page) /\ Page \in Nat
  BY <1>3, LtAssumption DEF QueryBackfill
<1>5. Lists(o, S)
  BY <1>2, <1>3
<1> HIDE DEF rows, S
<1>6. /\ rows \in Seq(S) /\ InTime(rows)
      /\ \A i \in S : i \in Rows(rows) \/ (Len(rows) = Page /\ (rows # <<>> => Time(i) <= Time(rows[1])))
  <2> DEFINE v == LastRows(o, Page)
  <2>1. Page \in Nat
    BY <1>4
  <2>2. /\ v \in Seq(S) /\ InTime(v)
        /\ \A i \in S : i \in Rows(v) \/ (Len(v) = Page /\ (v # <<>> => Time(i) <= Time(v[1])))
    BY <1>1, <1>5, <2>1, LastFacts, Zenon
  <2> HIDE DEF v
  <2>3. rows = v
    BY <1>4 DEF v
  <2> QED
    BY <2>2, <2>3
<1>7. rows \in Seq(DOMAIN logRows) /\ \A m \in DOMAIN rows : rows[m] \in S
  BY <1>1, <1>6
<1>8. rows = QueryBackfill(f, before)
  BY DEF rows
<1>9. \A i : i \in S <=> i \in DOMAIN logRows /\ Matches(f, i) /\ Time(i) < before
  BY DEF S
<1> QED
  BY <1>6, <1>7, <1>8, <1>9

LEMMA ForwardFacts ==
  ASSUME LtType, NEW f, NEW since
  PROVE  \E rows \in Seq(DOMAIN logRows) :
           /\ rows = QueryForward(f, since) /\ InTime(rows)
           /\ \A m \in DOMAIN rows : Matches(f, rows[m]) /\ Time(rows[m]) >= since
           /\ \A i \in DOMAIN logRows : Matches(f, i) /\ Time(i) >= since =>
                i \in Rows(rows) \/ (Len(rows) = PollBatch /\ (rows # <<>> => Time(rows[Len(rows)]) <= Time(i)))
<1> DEFINE S == {i \in DOMAIN logRows : Matches(f, i) /\ Time(i) >= since}
           rows == QueryForward(f, since)
<1>1. S \subseteq DOMAIN logRows
  OBVIOUS
<1>2. Lists(Ordered(S), S)
  BY <1>1, OrderedLists
<1>3. PICK o : o = Ordered(S)
  OBVIOUS
<1>4. rows = FirstRows(o, PollBatch) /\ PollBatch \in Nat
  BY <1>3, LtAssumption DEF QueryForward
<1>5. Lists(o, S)
  BY <1>2, <1>3
<1> HIDE DEF rows, S
<1>6. /\ rows \in Seq(S) /\ InTime(rows)
      /\ \A i \in S : i \in Rows(rows) \/ (Len(rows) = PollBatch /\ (rows # <<>> => Time(rows[Len(rows)]) <= Time(i)))
  <2> DEFINE v == FirstRows(o, PollBatch)
  <2>1. PollBatch \in Nat
    BY <1>4
  <2>2. /\ v \in Seq(S) /\ InTime(v)
        /\ \A i \in S : i \in Rows(v) \/ (Len(v) = PollBatch /\ (v # <<>> => Time(v[Len(v)]) <= Time(i)))
    BY <1>1, <1>5, <2>1, FirstFacts, Zenon
  <2> HIDE DEF v
  <2>3. rows = v
    BY <1>4 DEF v
  <2> QED
    BY <2>2, <2>3
<1>7. rows \in Seq(DOMAIN logRows) /\ \A m \in DOMAIN rows : rows[m] \in S
  BY <1>1, <1>6
<1>8. rows = QueryForward(f, since)
  BY DEF rows
<1>9. \A i : i \in S <=> i \in DOMAIN logRows /\ Matches(f, i) /\ Time(i) >= since
  BY DEF S
<1> QED
  BY <1>6, <1>7, <1>8, <1>9

\* A sequence in order has as many rows as places.
LEMMA InTimeCardinality ==
  ASSUME NEW S, NEW s \in Seq(S), InTime(s)
  PROVE  IsFiniteSet(Rows(s)) /\ Cardinality(Rows(s)) = Len(s)
<1>1. Len(s) \in Nat /\ DOMAIN s = 1..Len(s)
  OBVIOUS
<1>2. \A k, m \in 1..Len(s) : k # m => s[k] # s[m]
  <2> SUFFICES ASSUME NEW k \in 1..Len(s), NEW m \in 1..Len(s), k # m PROVE s[k] # s[m]
    OBVIOUS
  <2>1. k < m \/ m < k
    BY <1>1
  <2> QED
    BY <1>1, <2>1 DEF InTime
<1>3. s \in Bijection(1..Len(s), Rows(s))
  <2>1. s \in [1..Len(s) -> Rows(s)]
    BY <1>1 DEF Rows
  <2>2. s \in Injection(1..Len(s), Rows(s))
    BY <1>2, <2>1 DEF Injection, IsInjective
  <2>3. s \in Surjection(1..Len(s), Rows(s))
    BY <1>1, <2>1 DEF Surjection, Rows
  <2> QED
    BY <2>2, <2>3 DEF Bijection
<1>4. IsFiniteSet(1..Len(s)) /\ Cardinality(1..Len(s)) = Len(s)
  <2>1. 1 \in Int /\ Len(s) \in Int
    BY <1>1
  <2>2. IsFiniteSet(1..Len(s)) /\ Cardinality(1..Len(s)) = IF 1 > Len(s) THEN 0 ELSE Len(s) - 1 + 1
    BY <2>1, FS_Interval
  <2> QED
    BY <1>1, <2>2
<1>5. IsFiniteSet(Rows(s)) /\ Cardinality(Rows(s)) = Cardinality(1..Len(s))
  <2>1. ExistsBijection(1..Len(s), Rows(s))
    BY <1>3 DEF ExistsBijection
  <2> QED
    BY <1>4, <2>1, FS_Bijection
<1> QED
  BY <1>4, <1>5

LEMMA RingFollows == LtInv => RingIsStretch
<1> SUFFICES ASSUME LtInv PROVE RingIsStretch
  OBVIOUS
<1> DEFINE r == tail.ring
<1>1. LtType /\ TailInv /\ tail \in TailStore
  BY DEF LtInv, LtType
<1>2. CASE ~tail.primed
  <2>1. tail = Blank(tail.filter)
    BY <1>1, <1>2 DEF TailInv
  <2>2. r = <<>>
    BY <2>1 DEF Blank
  <2> HIDE DEF r
  <2>3. Len(r) = 0 /\ Rows(r) = {} /\ DOMAIN r = {}
    BY <2>2 DEF Rows
  <2>4. Cardinality(Rows(r)) = 0
    BY <2>3, FS_EmptySet
  <2> QED
    BY <2>2, <2>3, <2>4, CapType DEF RingIsStretch, r
<1>3. CASE tail.primed
  <2>1. StoreSound(tail, ingested, wiped) /\ NoneSkipped
    BY <1>1, <1>3 DEF TailInv
  <2>2. /\ r \in Seq(ingested) /\ Len(r) <= RingCap /\ InTime(r)
        /\ \A i \in ingested : Matches(tail.filter, i) /\ tail.oldest <= Time(i) /\ Time(i) <= tail.cursor
        /\ \A i \in ingested : Held(r, wiped, i)
    BY <2>1 DEF StoreSound, RingSound, CursorSound
  <2>3. ingested \subseteq DOMAIN logRows /\ \A i \in DOMAIN logRows : Time(i) \in Int
    BY <1>1, LtTypes DEF LtType
  <2>4. tail.oldest \in Int /\ tail.cursor \in Int
    BY <1>1, StoreFields
  <2>5. Len(r) \in Nat /\ DOMAIN r = 1..Len(r) /\ \A k \in DOMAIN r : r[k] \in ingested
    BY <2>2
  <2>6. Cardinality(Rows(r)) = Len(r)
    BY <2>2, InTimeCardinality
  <2> HIDE DEF r
  <2>7. ASSUME NEW k \in DOMAIN r PROVE Matches(tail.filter, r[k]) /\ (k > 1 => Time(r[k - 1]) <= Time(r[k]))
    <3>1. k > 1 => k - 1 \in DOMAIN r /\ k - 1 < k
      BY <2>5
    <3> QED
      BY <2>2, <2>5, <3>1 DEF InTime
  <2>8. ASSUME NEW i \in DOMAIN logRows, r # <<>>, Matches(tail.filter, i), Time(r[1]) < Time(i), Time(i) < Time(r[Len(r)])
        PROVE  i \in Rows(r) \/ i \in wiped \/ Time(i) \in cut \/ Twin(i)
    <3>1. 1 \in DOMAIN r /\ Len(r) \in DOMAIN r
      BY <2>5, <2>8
    <3>2. /\ tail.oldest <= Time(r[1]) /\ Time(r[Len(r)]) <= tail.cursor
          /\ Time(r[1]) \in Int /\ Time(r[Len(r)]) \in Int /\ Time(i) \in Int
      BY <2>2, <2>3, <2>5, <3>1
    <3>3. tail.oldest < Time(i) /\ Time(i) < tail.cursor
      BY <2>4, <2>8, <3>2
    <3>4. Time(i) \in cut \/ i \in ingested
      BY <2>1, <2>8, <3>3 DEF NoneSkipped
    <3>5. ASSUME i \in ingested PROVE i \in Rows(r) \/ i \in wiped \/ Twin(i)
      <4>1. ~(Time(i) <= Time(r[1]))
        BY <2>8, <3>2
      <4>2. PICK j \in Rows(r) \cup wiped : Same(i, j)
        BY <2>2, <3>5, <4>1 DEF Held
      <4>3. j # i => Twin(i)
        BY <4>2 DEF Twin, r
      <4> QED
        BY <4>2, <4>3
    <3> QED
      BY <3>4, <3>5
  <2> QED
    BY <2>2, <2>6, <2>7, <2>8 DEF RingIsStretch, r
<1> QED
  BY <1>2, <1>3

LEMMA NothingFollows == LtInv => NothingLeftBehind
<1> SUFFICES ASSUME LtInv, MaxPerInstant < PollBatch, tail.primed, tailPc = "run",
                    IngestForward(tail, QueryForward(tail.filter, tail.cursor)) = tail,
                    NEW i \in DOMAIN logRows, Matches(tail.filter, i), Time(i) > tail.oldest, Time(i) \notin cut
             PROVE  \E j \in ingested : Same(i, j)
  BY DEF NothingLeftBehind
<1>1. LtType /\ TailInv /\ tail \in TailStore /\ ingested \subseteq DOMAIN logRows
  BY DEF LtInv, LtType
<1>2. wiped \subseteq ingested /\ StoreSound(tail, ingested, wiped) /\ NoneSkipped
  BY <1>1 DEF TailInv
<1>3. /\ \A j \in ingested : Matches(tail.filter, j) /\ tail.oldest <= Time(j) /\ Time(j) <= tail.cursor
      /\ \A key \in tail.seenAtMax : \E j \in ingested : Time(j) = tail.cursor /\ Key(j) = key
      /\ tail.oldest <= tail.cursor
  BY <1>2 DEF StoreSound, CursorSound
<1>4. tail.oldest \in Nat /\ tail.cursor \in Nat /\ \A j \in DOMAIN logRows : Time(j) \in Nat
  BY <1>1, StoreFields, LtTypes
<1>5. CASE Time(i) < tail.cursor
  BY <1>2, <1>5 DEF NoneSkipped, Same
<1>6. CASE Time(i) >= tail.cursor
  <2>1. PICK rows \in Seq(DOMAIN logRows) :
           /\ rows = QueryForward(tail.filter, tail.cursor) /\ InTime(rows)
           /\ \A m \in DOMAIN rows : Matches(tail.filter, rows[m]) /\ Time(rows[m]) >= tail.cursor
           /\ \A j \in DOMAIN logRows : Matches(tail.filter, j) /\ Time(j) >= tail.cursor =>
                j \in Rows(rows) \/ (Len(rows) = PollBatch /\ (rows # <<>> => Time(rows[Len(rows)]) <= Time(j)))
    BY <1>1, ForwardFacts
  <2>2. Len(rows) \in Nat /\ DOMAIN rows = 1..Len(rows) /\ \A m \in DOMAIN rows : rows[m] \in DOMAIN logRows
    BY <2>1
  <2>3. \A m \in DOMAIN rows : Time(rows[m]) \in Nat /\ tail.cursor <= Time(rows[m]) /\ tail.oldest <= Time(rows[m])
    BY <1>3, <1>4, <2>1, <2>2
  <2>4. BatchIngested(IngestForward(tail, rows), tail, rows, Len(rows), ingested, wiped)
    BY <1>1, <1>2, <2>1, <2>3, BatchFacts
  <2>5. IngestForward(tail, rows) = tail
    BY <2>1
  <2>6. /\ tail.cursor = IF Len(rows) = 0 THEN tail.cursor ELSE Time(rows[Len(rows)])
        /\ \A m \in 1..Len(rows) : Key(rows[m]) \in tail.seenAtMax
    BY <2>4, <2>5 DEF BatchIngested
  <2>7. ASSUME NEW m \in DOMAIN rows PROVE Time(rows[m]) = tail.cursor
    <3>1. m \in 1..Len(rows) /\ Len(rows) \in DOMAIN rows /\ Len(rows) # 0
      BY <2>2
    <3>2. Time(rows[m]) <= Time(rows[Len(rows)])
      <4>1. m = Len(rows) \/ m < Len(rows)
        BY <2>2, <3>1
      <4> QED
        BY <2>1, <2>3, <3>1, <4>1 DEF InTime
    <3> QED
      BY <1>4, <2>3, <2>6, <3>1, <3>2
  <2>8. Len(rows) # PollBatch
    <3>1. Rows(rows) \subseteq RowsAt(tail.cursor)
      BY <2>2, <2>7 DEF Rows, RowsAt
    <3>2. IsFiniteSet(RowsAt(tail.cursor))
      <4>1. RowsAt(tail.cursor) \subseteq DOMAIN logRows /\ IsFiniteSet(DOMAIN logRows)
        BY <1>1, LtTypes DEF RowsAt
      <4> QED
        BY <4>1, FS_Subset
    <3>3. Cardinality(Rows(rows)) <= Cardinality(RowsAt(tail.cursor)) /\ Cardinality(RowsAt(tail.cursor)) \in Nat
      BY <3>1, <3>2, FS_Subset, FS_CardinalityType
    <3>4. Cardinality(RowsAt(tail.cursor)) <= MaxPerInstant
      BY <1>1, <1>4 DEF LtType
    <3>5. Cardinality(Rows(rows)) = Len(rows)
      BY <2>1, InTimeCardinality
    <3>6. PICK c \in Nat : c = Cardinality(RowsAt(tail.cursor))
      BY <3>3
    <3>7. Len(rows) <= c /\ c <= MaxPerInstant /\ MaxPerInstant \in Nat /\ PollBatch \in Nat
      BY <3>3, <3>4, <3>5, <3>6, LtAssumption
    <3>8. Len(rows) <= MaxPerInstant
      BY <2>2, <3>7
    <3>9. MaxPerInstant < PollBatch
      OBVIOUS
    <3>10. Len(rows) \in Nat /\ MaxPerInstant \in Nat /\ PollBatch \in Nat
      BY <2>2, <3>7
    <3> QED
      BY <3>8, <3>9, <3>10
  <2>9. PICK m \in DOMAIN rows : rows[m] = i
    BY <1>6, <2>1, <2>8 DEF Rows
  <2>10. Key(i) \in tail.seenAtMax /\ Time(i) = tail.cursor
    BY <2>2, <2>6, <2>7, <2>9
  <2> QED
    BY <1>3, <2>10 DEF Same
<1> QED
  BY <1>4, <1>5, <1>6

LEMMA TailFollows == LtInv => TailSound
BY RingFollows, NothingFollows DEF TailSound, LtInv

\* What a sound store knows depends on the rows it has read only.
LEMMA SoundKept ==
  ASSUME NEW t, NEW rd, NEW gn, tail' = t, ingested' = rd, wiped' = gn, gn \subseteq rd, StoreSound(t, rd, gn),
         \A i \in rd : Time(i)' = Time(i) /\ Key(i)' = Key(i) /\ \A f : Matches(f, i)' <=> Matches(f, i)
  PROVE  StoreSound(tail, ingested, wiped)'
<1>1. /\ t.ring \in Seq(rd) /\ Len(t.ring) <= RingCap /\ InTime(t.ring)
      /\ t.oldest <= t.cursor
      /\ \A i \in rd : Matches(t.filter, i) /\ t.oldest <= Time(i) /\ Time(i) <= t.cursor
      /\ \A key \in t.seenAtMax : \E j \in rd : Time(j) = t.cursor /\ Key(j) = key
      /\ \A j \in Rows(t.ring) : Time(j) = t.cursor => Key(j) \in t.seenAtMax
      /\ \A i \in rd : Held(t.ring, gn, i)
  BY DEF StoreSound, RingSound, CursorSound
<1>2. \A k \in DOMAIN t.ring : t.ring[k] \in rd
  BY <1>1
<1>3. Rows(t.ring) \subseteq rd
  BY <1>2 DEF Rows
<1>4. InTime(tail.ring)'
  BY <1>1, <1>2 DEF InTime
<1>5. RingSound(tail, ingested)'
  BY <1>1, <1>4 DEF RingSound
<1>6. CursorSound(tail, ingested)'
  <2>1. (\A i \in ingested : Matches(tail.filter, i) /\ tail.oldest <= Time(i) /\ Time(i) <= tail.cursor)'
    BY <1>1
  <2>2. (\A key \in tail.seenAtMax : \E j \in ingested : Time(j) = tail.cursor /\ Key(j) = key)'
    BY <1>1
  <2>3. (\A j \in Rows(tail.ring) : Time(j) = tail.cursor => Key(j) \in tail.seenAtMax)'
    BY <1>1, <1>3 DEF Rows
  <2>4. (tail.oldest <= tail.cursor)'
    BY <1>1
  <2> QED
    BY <2>1, <2>2, <2>3, <2>4 DEF CursorSound
<1>7. ASSUME NEW i \in rd PROVE Held(tail.ring, wiped, i)'
  <2>1. CASE Len(t.ring) = RingCap /\ Time(i) <= Time(t.ring[1])
    <3>1. 1 \in DOMAIN t.ring
      BY <1>1, <2>1, CapType
    <3>2. Time(t.ring[1])' = Time(t.ring[1])
      BY <1>2, <3>1
    <3>3. (Time(i) <= Time(tail.ring[1]))' /\ (Len(tail.ring) = RingCap)'
      BY <2>1, <3>2 DEF Time
    <3> QED
      BY <3>3 DEF Held
  <2>2. CASE \E j \in Rows(t.ring) \cup gn : Same(i, j)
    <3>1. PICK j \in Rows(t.ring) \cup gn : Same(i, j)
      BY <2>2
    <3>2. j \in rd
      BY <1>3
    <3>3. Same(i, j)'
      BY <3>1, <3>2 DEF Same
    <3>4. (Rows(tail.ring) \cup wiped)' = Rows(t.ring) \cup gn
      BY DEF Rows
    <3> QED
      BY <3>3, <3>4 DEF Held
  <2> QED
    BY <1>1, <2>1, <2>2 DEF Held
<1>8. (\A i \in ingested : Held(tail.ring, wiped, i))'
  BY <1>7
<1> QED
  BY <1>5, <1>6, <1>8 DEF StoreSound

LEMMA LtInvInit == LtInit => LtInv
<1> SUFFICES ASSUME LtInit PROVE LtInv
  OBVIOUS
<1>1. Blank({}) \in TailStore
  BY DEF Blank, TailStore
<1>2. RowsAt(0) = {} /\ \A t \in Nat : RowsAt(t) = {}
  BY DEF LtInit, RowsAt
<1>3. LtType
  <2>1. \A t \in Nat : Cardinality(RowsAt(t)) <= MaxPerInstant
    BY <1>2, FS_EmptySet, LtAssumption
  <2>2. logRows \in Seq(LogRow) /\ tailReqs \in Seq(TailReq)
    BY DEF LtInit
  <2>3. \A i \in DOMAIN logRows : Time(i) <= instant
    BY DEF LtInit
  <2>4. tail.cursor = 0 /\ 0 <= 1
    BY DEF LtInit, Blank
  <2>5. instant \in Nat \ {0} /\ wiped = {} /\ ingested = {}
    BY DEF LtInit
  <2> QED
    BY <1>1, <2>1, <2>2, <2>3, <2>4, <2>5 DEF LtInit, LtType
<1>4. ViewFollows
  BY DEF LtInit, ViewFollows, Blank
<1>5. TailInv
  BY DEF LtInit, TailInv, Blank
<1> QED
  BY <1>3, <1>4, <1>5 DEF LtInv

\* Steps that leave the table and the store alone.
LEMMA StoreAlone ==
  ASSUME LtInv, UNCHANGED <<logRows, tail, ingested, cut, wiped>>, tailPc' = tailPc \/ tailPc' = "run"
  PROVE  TailInv'
<1>1. TailInv
  BY DEF LtInv
<1>2. tail.primed => StoreSound(tail, ingested, wiped)'
  BY <1>1 DEF TailInv, StoreSound, RingSound, CursorSound, Held, Same, InTime, Rows, Time, Key, Matches
<1>3. NoneSkipped => NoneSkipped'
  BY DEF NoneSkipped, Time, Matches
<1>4. tail = Blank(tail.filter) => (tail = Blank(tail.filter))'
  BY DEF Blank
<1> QED
  BY <1>1, <1>2, <1>3, <1>4 DEF TailInv

LEMMA TypeAlone ==
  ASSUME LtType, UNCHANGED <<logRows, tail, tailPc, ingested, wiped>>,
         instant' \in Nat, instant <= instant', tailReqs' \in Seq(TailReq),
         tailMsg' \in {"none", "rows", "err", "more", "done"}, paneErr' \in BOOLEAN
  PROVE  LtType'
<1>1. \A i \in DOMAIN logRows : Time(i)' = Time(i)
  BY DEF Time
<1>2. \A t \in Nat : RowsAt(t)' = RowsAt(t)
  BY DEF RowsAt, Time
<1>3. \A i \in DOMAIN logRows : Time(i) \in Nat /\ Time(i) <= instant
  BY LtTypes DEF LtType
<1>4. instant \in Nat /\ tail.cursor \in Nat /\ tail.cursor <= instant
  BY StoreFields DEF LtType
<1>5. (\A i \in DOMAIN logRows : Time(i) <= instant)'
  BY <1>1, <1>3, <1>4
<1>6. (tail.cursor <= instant)'
  BY <1>4
<1>7. (\A t \in Nat : Cardinality(RowsAt(t)) <= MaxPerInstant)'
  BY <1>2 DEF LtType
<1> QED
  BY <1>5, <1>6, <1>7 DEF LtType

LEMMA LtTimePasses == ASSUME LtInv, TimePasses PROVE LtInv'
<1>1. UNCHANGED <<logRows, tail, tailPc, ingested, cut, wiped, tailReqs, tailMsg, paneErr, shown>> /\ instant' = instant + 1
  BY DEF TimePasses, tailV, ltPaneV
<1>2. LtType
  BY DEF LtInv
<1>3. LtType'
  BY <1>1, <1>2, TypeAlone DEF LtType
<1>4. ViewFollows'
  BY <1>1 DEF LtInv, ViewFollows, NoMsg
<1>5. TailInv'
  BY <1>1, StoreAlone
<1> QED
  BY <1>3, <1>4, <1>5 DEF LtInv

LEMMA LtPaneUpdate == ASSUME LtInv, PaneUpdate PROVE LtInv'
<1>1. /\ UNCHANGED <<logRows, tail, tailPc, ingested, cut, wiped, tailReqs, instant>> /\ tailMsg' = "none"
      /\ shown' = IF tailMsg # "err" THEN tail.ring ELSE shown
      /\ paneErr' = (tailMsg = "err" \/ (paneErr /\ tailMsg # "rows"))
  BY DEF PaneUpdate, tailV
<1>2. LtType
  BY DEF LtInv
<1>3. LtType'
  <2>1. paneErr' \in BOOLEAN
    BY <1>1
  <2> QED
    BY <1>1, <1>2, <2>1, TypeAlone DEF LtType
<1>4. ViewFollows'
  BY <1>1 DEF ViewFollows
<1>5. TailInv'
  BY <1>1, StoreAlone
<1> QED
  BY <1>3, <1>4, <1>5 DEF LtInv

LEMMA LtOnLogKey == ASSUME LtInv, OnLogKey PROVE LtInv'
<1>1. PICK r \in TailReq : Request(r)
  BY DEF OnLogKey, TailReq
<1>2. /\ UNCHANGED <<logRows, tail, tailPc, ingested, cut, wiped, instant, tailMsg, paneErr, shown>>
      /\ tailReqs' = Append(tailReqs, r)
  BY <1>1 DEF Request, tailV, ltPaneV
<1>3. LtType
  BY DEF LtInv
<1>4. LtType'
  <2>1. tailReqs' \in Seq(TailReq)
    <3>1. tailReqs \in Seq(TailReq)
      BY <1>3 DEF LtType
    <3> QED
      BY <1>2, <3>1
  <2> QED
    BY <1>2, <1>3, <2>1, TypeAlone DEF LtType
<1>5. ViewFollows'
  BY <1>2 DEF LtInv, ViewFollows, NoMsg
<1>6. TailInv'
  BY <1>2, StoreAlone
<1> QED
  BY <1>4, <1>5, <1>6 DEF LtInv

LEMMA LtFocusLogs == ASSUME LtInv, FocusLogs PROVE LtInv'
<1>1. /\ UNCHANGED <<logRows, tail, tailPc, ingested, cut, wiped, tailReqs, instant, tailMsg, paneErr>>
      /\ shown' = tail.ring
  BY DEF FocusLogs, tailV
<1>2. LtType
  BY DEF LtInv
<1>3. LtType'
  BY <1>1, <1>2, TypeAlone DEF LtType
<1>4. ViewFollows'
  BY <1>1 DEF ViewFollows
<1>5. TailInv'
  BY <1>1, StoreAlone
<1> QED
  BY <1>3, <1>4, <1>5 DEF LtInv

LEMMA LtInsertRow == ASSUME LtInv, NEW d \in Serial, InsertRow(d) PROVE LtInv'
<1> DEFINE n == Cardinality({i \in DOMAIN logRows : logRows[i].dev = d})
           row == [t |-> instant, dev |-> d, seq |-> n]
<1>1. /\ UNCHANGED <<tail, tailPc, ingested, cut, wiped, instant, tailReqs, tailMsg, paneErr, shown>>
      /\ logRows' = Append(logRows, row)
      /\ Cardinality(RowsAt(instant)) < MaxPerInstant
  BY DEF InsertRow, tailV, ltPaneV, RowsAt, Time
<1>2. LtType /\ TailInv /\ logRows \in Seq(LogRow) /\ instant \in Nat
  BY DEF LtInv, LtType
<1>3. /\ DOMAIN logRows \subseteq Nat /\ IsFiniteSet(DOMAIN logRows)
      /\ \A i \in DOMAIN logRows : Time(i) \in Nat /\ Time(i) > 0 /\ Key(i) \in Nat /\ Time(i) <= instant
  BY <1>2, LtTypes DEF LtType
<1>4. n \in Nat
  <2>1. {i \in DOMAIN logRows : logRows[i].dev = d} \subseteq DOMAIN logRows
    OBVIOUS
  <2>2. IsFiniteSet({i \in DOMAIN logRows : logRows[i].dev = d})
    BY <1>3, <2>1, FS_Subset
  <2> QED
    BY <2>2, FS_CardinalityType
<1>5. row \in LogRow
  BY <1>2, <1>4 DEF LogRow, LtType
<1> HIDE DEF n, row
<1>50. PICK m : m = Len(logRows) + 1
  OBVIOUS
<1>6. /\ logRows' \in Seq(LogRow) /\ DOMAIN logRows' = DOMAIN logRows \cup {m} /\ m \notin DOMAIN logRows
      /\ \A i \in DOMAIN logRows : logRows'[i] = logRows[i]
      /\ logRows'[m] = row
  BY <1>1, <1>2, <1>5, <1>50
<1>7. /\ \A i \in DOMAIN logRows : Time(i)' = Time(i) /\ Key(i)' = Key(i) /\ \A f : Matches(f, i)' <=> Matches(f, i)
      /\ Time(m)' = instant
  BY <1>6 DEF Time, Key, Matches, row
<1>8. LtType'
  <2>1. (\A i \in DOMAIN logRows : Time(i) <= instant)'
    BY <1>1, <1>2, <1>3, <1>6, <1>7
  <2>2. ASSUME NEW t \in Nat PROVE (Cardinality(RowsAt(t)) <= MaxPerInstant)'
    <3>1. CASE t = instant
      <4>1. RowsAt(t)' = RowsAt(t) \cup {m} /\ m \notin RowsAt(t)
        BY <1>6, <1>7, <3>1 DEF RowsAt
      <4>2. IsFiniteSet(RowsAt(t))
        <5>1. RowsAt(t) \subseteq DOMAIN logRows
          BY DEF RowsAt
        <5> QED
          BY <1>3, <5>1, FS_Subset
      <4>3. PICK c \in Nat : c = Cardinality(RowsAt(t))
        BY <4>2, FS_CardinalityType
      <4>4. Cardinality(RowsAt(t) \cup {m}) = c + 1
        BY <4>1, <4>2, <4>3, FS_AddElement
      <4>5. c < MaxPerInstant /\ MaxPerInstant \in Nat
        BY <1>1, <3>1, <4>3, LtAssumption
      <4>6. c + 1 <= MaxPerInstant
        BY <4>5
      <4> QED
        BY <4>1, <4>4, <4>6
    <3>2. CASE t # instant
      <4>1. RowsAt(t)' = RowsAt(t)
        BY <1>6, <1>7, <3>2 DEF RowsAt
      <4> QED
        BY <1>2, <4>1 DEF LtType
    <3> QED
      BY <3>1, <3>2
  <2>3. wiped' \subseteq DOMAIN logRows' /\ ingested' \subseteq DOMAIN logRows'
    BY <1>1, <1>2, <1>6 DEF LtType
  <2> QED
    BY <1>1, <1>2, <1>6, <2>1, <2>2, <2>3 DEF LtType
<1>9. ViewFollows'
  BY <1>1 DEF LtInv, ViewFollows, NoMsg
<1>10. TailInv'
  <2>1. CASE ~tail.primed
    <3>1. tail = Blank(tail.filter)
      BY <1>2, <2>1 DEF TailInv
    <3>2. tail' = Blank(tail'.filter)
      BY <1>1, <3>1 DEF Blank
    <3> QED
      BY <1>1, <1>2, <2>1, <3>2 DEF TailInv, Blank
  <2>2. CASE tail.primed
    <3>1. wiped \subseteq ingested /\ StoreSound(tail, ingested, wiped) /\ NoneSkipped /\ ingested \subseteq DOMAIN logRows
      BY <1>2, <2>2 DEF TailInv, LtType
    <3>2. PICK t, rd, gn : t = tail /\ rd = ingested /\ gn = wiped
      OBVIOUS
    <3>3. StoreSound(t, rd, gn) /\ tail' = t /\ ingested' = rd /\ wiped' = gn /\ gn \subseteq rd
      BY <1>1, <3>1, <3>2
    <3>4. \A i \in rd : Time(i)' = Time(i) /\ Key(i)' = Key(i) /\ \A f : Matches(f, i)' <=> Matches(f, i)
      BY <1>7, <3>1, <3>2
    <3>5. StoreSound(tail, ingested, wiped)'
      BY <3>3, <3>4, SoundKept
    <3>6. NoneSkipped'
      <4> SUFFICES ASSUME NEW i \in DOMAIN logRows', Matches(t.filter, i)', t.oldest < Time(i)', Time(i)' < t.cursor,
                          Time(i)' \notin cut
                   PROVE  i \in ingested
        BY <1>1, <3>2 DEF NoneSkipped
      <4>1. i # m
        <5>1. t.cursor \in Nat /\ t.cursor <= instant
          BY <1>2, <3>2, StoreFields DEF LtType
        <5> QED
          BY <1>2, <1>7, <5>1
      <4>2. i \in DOMAIN logRows
        BY <1>6, <4>1
      <4> QED
        BY <1>7, <3>1, <3>2, <4>2 DEF NoneSkipped
    <3> QED
      BY <1>1, <1>2, <2>2, <3>1, <3>5, <3>6 DEF TailInv
  <2> QED
    BY <2>1, <2>2
<1> QED
  BY <1>8, <1>9, <1>10 DEF LtInv

\* Steps of the store: what they must show of the type.
LEMMA TypeStore ==
  ASSUME LtType, UNCHANGED <<logRows, instant, paneErr>>,
         tail' \in TailStore, tail'.cursor <= instant, tailPc' \in {"run", "prime"}, tailReqs' \in Seq(TailReq),
         tailMsg' \in {"none", "rows", "err", "more", "done"},
         wiped' \subseteq DOMAIN logRows, ingested' \subseteq DOMAIN logRows
  PROVE  LtType'
<1>1. \A i \in DOMAIN logRows : Time(i)' = Time(i)
  BY DEF Time
<1>2. \A t \in Nat : RowsAt(t)' = RowsAt(t)
  BY DEF RowsAt, Time
<1>3. (\A i \in DOMAIN logRows : Time(i) <= instant)'
  BY <1>1 DEF LtType
<1>4. (\A t \in Nat : Cardinality(RowsAt(t)) <= MaxPerInstant)'
  BY <1>2 DEF LtType
<1> QED
  BY <1>3, <1>4 DEF LtType

\* Every row of a batch, by its place or by the set of them.
LEMMA BatchRows ==
  ASSUME NEW S, NEW rows \in Seq(S)
  PROVE  {rows[m] : m \in 1..Len(rows)} = Rows(rows) /\ Rows(rows) \subseteq S /\ Len(rows) \in Nat
         /\ DOMAIN rows = 1..Len(rows) /\ (rows = <<>> <=> Len(rows) = 0)
BY DEF Rows

LEMMA LtPrimed ==
  ASSUME LtInv, ~tail.primed, Primed(tail), UNCHANGED <<logRows, instant, paneErr>>,
         tailReqs' \in Seq(TailReq), tailPc' = "run"
  PROVE  LtInv'
<1>1. LtType /\ tail \in TailStore /\ tail = Blank(tail.filter)
  BY DEF LtInv, LtType, TailInv
<1>2. PICK s, f : s = tail /\ f = s.filter
  OBVIOUS
<1>3. /\ s \in TailStore /\ s.ring = <<>> /\ s.cursor = 0 /\ s.seenAtMax = {} /\ s.oldest = 0
      /\ s.filter = f
  BY <1>1, <1>2 DEF Blank
<1>4. PICK rows \in Seq(DOMAIN logRows) :
           /\ rows = QueryRecent(f) /\ InTime(rows)
           /\ \A m \in DOMAIN rows : Matches(f, rows[m])
           /\ \A i \in DOMAIN logRows : Matches(f, i) =>
                i \in Rows(rows) \/ (Len(rows) = Page /\ (rows # <<>> => Time(i) <= Time(rows[1])))
  BY <1>1, RecentFacts
<1> DEFINE t == IngestForward(s, rows)
           u == [t EXCEPT !.oldest = IF rows # <<>> THEN Time(rows[1]) ELSE @,
                          !.primed = TRUE, !.exhausted = Len(rows) < Page]
<1>5. /\ tail' = u /\ ingested' = Rows(rows) /\ wiped' = {} /\ tailMsg' = "rows"
      /\ cut' = IF rows # <<>> /\ ~tail'.exhausted THEN {Time(rows[1])} ELSE {}
  BY <1>2, <1>4 DEF Primed
<1>6. Len(rows) \in Nat /\ DOMAIN rows = 1..Len(rows) /\ Rows(rows) \subseteq DOMAIN logRows
      /\ {rows[m] : m \in 1..Len(rows)} = Rows(rows) /\ (rows = <<>> <=> Len(rows) = 0)
  BY BatchRows
<1>7. \A m \in DOMAIN rows : rows[m] \in DOMAIN logRows
  BY <1>4
<1>8. \A i \in DOMAIN logRows : Time(i) \in Nat /\ Time(i) > 0 /\ Time(i) <= instant
  BY <1>1, LtTypes DEF LtType
<1>9. StoreSound(s, {}, {})
  <2>1. RingSound(s, {})
    BY <1>3, CapType DEF RingSound, InTime
  <2>2. CursorSound(s, {})
    BY <1>3 DEF CursorSound, Rows
  <2> QED
    BY <2>1, <2>2 DEF StoreSound
<1>10. BatchIngested(t, s, rows, Len(rows), {}, {})
  <2>1. \A m \in DOMAIN rows : Matches(s.filter, rows[m]) /\ s.cursor <= Time(rows[m]) /\ s.oldest <= Time(rows[m])
    BY <1>3, <1>4, <1>7, <1>8
  <2>2. {} \subseteq DOMAIN logRows
    OBVIOUS
  <2> HIDE DEF t
  <2>3. BatchIngested(IngestForward(s, rows), s, rows, Len(rows), {}, {})
    BY <1>1, <1>3, <1>4, <1>9, <2>1, <2>2, BatchFacts
  <2> QED
    BY <2>3 DEF t
<1> HIDE DEF t
<1>11. /\ t \in TailStore /\ t.filter = f /\ t.oldest = 0 /\ StoreSound(t, Rows(rows), {})
       /\ t.cursor = IF Len(rows) = 0 THEN 0 ELSE Time(rows[Len(rows)])
  <2>1. {} \cup Rows(rows) = Rows(rows)
    OBVIOUS
  <2> QED
    BY <1>3, <1>6, <1>10, <2>1 DEF BatchIngested
<1> DEFINE first == IF rows # <<>> THEN Time(rows[1]) ELSE 0
<1>12. first \in Nat /\ (\A i \in Rows(rows) : first <= Time(i)) /\ first <= t.cursor /\ t.cursor <= instant /\ t.cursor \in Nat
  <2>1. CASE rows = <<>>
    <3>1. t.cursor = 0 /\ Rows(rows) = {} /\ first = 0
      BY <1>6, <1>11, <2>1
    <3> QED
      BY <1>1, <3>1 DEF LtType
  <2>2. CASE rows # <<>>
    <3>1. 1 \in DOMAIN rows /\ Len(rows) \in DOMAIN rows /\ Len(rows) # 0
      BY <1>6, <2>2
    <3>2. first = Time(rows[1]) /\ first \in Nat /\ t.cursor = Time(rows[Len(rows)]) /\ t.cursor \in Nat /\ t.cursor <= instant
      BY <1>7, <1>8, <1>11, <2>2, <3>1
    <3>3. ASSUME NEW m \in DOMAIN rows PROVE Time(rows[1]) <= Time(rows[m])
      <4>1. m = 1 \/ 1 < m
        BY <1>6
      <4> QED
        BY <1>4, <3>1, <3>2, <4>1 DEF InTime
    <3> QED
      BY <1>6, <3>1, <3>2, <3>3
  <2> QED
    BY <2>1, <2>2
<1> HIDE DEF first
<1>13. u = [t EXCEPT !.oldest = first, !.primed = TRUE, !.exhausted = Len(rows) < Page]
  BY <1>11 DEF first
<1> HIDE DEF u
<1>14. /\ u \in TailStore /\ u.filter = f /\ u.ring = t.ring /\ u.cursor = t.cursor /\ u.seenAtMax = t.seenAtMax
       /\ u.oldest = first /\ u.primed = TRUE /\ u.exhausted = (Len(rows) < Page)
  <2>1. t \in TailStore /\ t.filter = f
    BY <1>11
  <2> DEFINE full == Len(rows) < Page
  <2>2. full \in BOOLEAN
    OBVIOUS
  <2>3. u = [t EXCEPT !.oldest = first, !.primed = TRUE, !.exhausted = full]
    BY <1>13
  <2> HIDE DEF full
  <2>4. u \in TailStore
    BY <1>12, <2>1, <2>2, <2>3 DEF TailStore
  <2>5. /\ u.filter = f /\ u.ring = t.ring /\ u.cursor = t.cursor /\ u.seenAtMax = t.seenAtMax
        /\ u.oldest = first /\ u.primed = TRUE /\ u.exhausted = full
    BY <2>1, <2>3 DEF TailStore
  <2> QED
    BY <2>2, <2>4, <2>5 DEF full
<1>15. LtType'
  <2>1. tail' \in TailStore /\ tail'.cursor <= instant
    BY <1>5, <1>12, <1>14
  <2>2. tailPc' \in {"run", "prime"} /\ wiped' \subseteq DOMAIN logRows /\ ingested' \subseteq DOMAIN logRows
        /\ tailMsg' \in {"none", "rows", "err", "more", "done"}
    BY <1>5, <1>6
  <2> QED
    BY <1>1, <2>1, <2>2, TypeStore
<1>16. ViewFollows'
  BY <1>5 DEF ViewFollows, NoMsg
<1>17. StoreSound(u, Rows(rows), {})
  <2>1. RingSound(u, Rows(rows))
    BY <1>11, <1>14 DEF StoreSound, RingSound
  <2>2. CursorSound(u, Rows(rows))
    <3>1. CursorSound(t, Rows(rows))
      BY <1>11 DEF StoreSound
    <3> QED
      BY <1>11, <1>12, <1>14, <3>1 DEF CursorSound
  <2>3. \A i \in Rows(rows) : Held(u.ring, {}, i)
    BY <1>11, <1>14 DEF StoreSound
  <2> QED
    BY <2>1, <2>2, <2>3 DEF StoreSound
<1>18. StoreSound(tail, ingested, wiped)'
  <2>1. \A i \in Rows(rows) : Time(i)' = Time(i) /\ Key(i)' = Key(i) /\ \A g : Matches(g, i)' <=> Matches(g, i)
    BY DEF Time, Key, Matches
  <2>2. PICK v, rd : v = u /\ rd = Rows(rows)
    OBVIOUS
  <2>3. {} \subseteq rd
    OBVIOUS
  <2> QED
    BY <1>5, <1>17, <2>1, <2>2, <2>3, SoundKept
<1>19. NoneSkipped'
  <2> SUFFICES ASSUME NEW i \in DOMAIN logRows, Matches(f, i), first < Time(i), Time(i) < t.cursor PROVE i \in Rows(rows)
    BY <1>5, <1>14 DEF NoneSkipped, Matches, Time
  <2>1. rows # <<>>
    BY <1>6, <1>8, <1>11
  <2>2. first = Time(rows[1])
    BY <2>1 DEF first
  <2> QED
    BY <1>4, <1>8, <1>12, <2>1, <2>2
<1>20. (tail.oldest = 0 \/ tail.exhausted \/ tail.oldest \in cut)'
  BY <1>5, <1>14 DEF first
<1>21. tail'.primed = TRUE /\ wiped' \subseteq ingested'
  BY <1>5, <1>14
<1>22. TailInv'
  <2>1. (tailPc = "prime" => ~tail.primed)' /\ (tail.primed \/ tail = Blank(tail.filter))'
    BY <1>21
  <2>2. (wiped \subseteq ingested)'
    BY <1>21
  <2> QED
    BY <1>18, <1>19, <1>20, <2>1, <2>2, Zenon DEF TailInv
<1> QED
  BY <1>15, <1>16, <1>22 DEF LtInv

LEMMA LtFailed ==
  ASSUME LtInv, Failed, UNCHANGED <<logRows, instant, paneErr>>,
         tailReqs' \in Seq(TailReq), tailPc' = "run"
  PROVE  LtInv'
<1>1. UNCHANGED <<tail, ingested, cut, wiped>> /\ tailMsg' = "err"
  BY DEF Failed
<1>2. LtType'
  <2>1. LtType
    BY DEF LtInv
  <2>2. tail \in TailStore /\ tail.cursor <= instant /\ wiped \subseteq DOMAIN logRows /\ ingested \subseteq DOMAIN logRows
    BY <2>1 DEF LtType
  <2> QED
    BY <1>1, <2>1, <2>2, TypeStore
<1>3. ViewFollows'
  BY <1>1 DEF ViewFollows, NoMsg
<1>4. TailInv'
  BY <1>1, StoreAlone
<1> QED
  BY <1>2, <1>3, <1>4 DEF LtInv

LEMMA LtForward ==
  ASSUME LtInv, tail.primed, NoMsg, tailPc = "run", NEW rows,
         rows = QueryForward(tail.filter, tail.cursor), tail' = IngestForward(tail, rows),
         ingested' = ingested \cup Rows(rows), tailMsg' = IF tail' # tail THEN "rows" ELSE "none",
         UNCHANGED <<cut, wiped, logRows, instant, tailPc, tailReqs, shown, paneErr>>
  PROVE  LtInv'
<1>1. LtType /\ TailInv /\ tail \in TailStore /\ ingested \subseteq DOMAIN logRows
  BY DEF LtInv, LtType
<1>2. /\ wiped \subseteq ingested /\ StoreSound(tail, ingested, wiped) /\ NoneSkipped
      /\ tail.oldest = 0 \/ tail.exhausted \/ tail.oldest \in cut
  BY <1>1 DEF TailInv
<1>3. PICK s, read, gone, t : s = tail /\ read = ingested /\ gone = wiped /\ t = IngestForward(s, rows)
  OBVIOUS
<1>4. \E v \in Seq(DOMAIN logRows) :
           /\ v = QueryForward(s.filter, s.cursor) /\ InTime(v)
           /\ \A m \in DOMAIN v : Matches(s.filter, v[m]) /\ Time(v[m]) >= s.cursor
           /\ \A i \in DOMAIN logRows : Matches(s.filter, i) /\ Time(i) >= s.cursor =>
                i \in Rows(v) \/ (Len(v) = PollBatch /\ (v # <<>> => Time(v[Len(v)]) <= Time(i)))
  BY <1>1, ForwardFacts
<1>5. rows = QueryForward(s.filter, s.cursor)
  BY <1>3
<1>6. /\ rows \in Seq(DOMAIN logRows) /\ InTime(rows)
      /\ \A m \in DOMAIN rows : Matches(s.filter, rows[m]) /\ Time(rows[m]) >= s.cursor
      /\ \A i \in DOMAIN logRows : Matches(s.filter, i) /\ Time(i) >= s.cursor =>
           i \in Rows(rows) \/ (Len(rows) = PollBatch /\ (rows # <<>> => Time(rows[Len(rows)]) <= Time(i)))
  BY <1>4, <1>5
<1>7. Len(rows) \in Nat /\ DOMAIN rows = 1..Len(rows) /\ Rows(rows) \subseteq DOMAIN logRows
      /\ {rows[m] : m \in 1..Len(rows)} = Rows(rows) /\ (rows = <<>> <=> Len(rows) = 0)
  BY <1>6, BatchRows
<1>8. \A i \in DOMAIN logRows : Time(i) \in Nat /\ Time(i) <= instant
  BY <1>1, LtTypes DEF LtType
<1>9. s.cursor \in Nat /\ s.oldest \in Nat /\ s.oldest <= s.cursor
  BY <1>1, <1>2, <1>3, StoreFields DEF StoreSound, CursorSound
<1>10. BatchIngested(t, s, rows, Len(rows), read, gone)
  <2>1. \A m \in DOMAIN rows : Matches(s.filter, rows[m]) /\ s.cursor <= Time(rows[m]) /\ s.oldest <= Time(rows[m])
    <3> SUFFICES ASSUME NEW m \in DOMAIN rows
                 PROVE  Matches(s.filter, rows[m]) /\ s.cursor <= Time(rows[m]) /\ s.oldest <= Time(rows[m])
      OBVIOUS
    <3>1. Time(rows[m]) \in Nat /\ Time(rows[m]) >= s.cursor
      BY <1>6, <1>8
    <3> QED
      BY <1>6, <1>9, <3>1
  <2>2. s \in TailStore /\ read \subseteq DOMAIN logRows /\ gone \subseteq read /\ StoreSound(s, read, gone)
    BY <1>1, <1>2, <1>3
  <2>3. BatchIngested(IngestForward(s, rows), s, rows, Len(rows), read, gone)
    BY <1>1, <1>6, <2>1, <2>2, BatchFacts
  <2> QED
    BY <1>3, <2>3
<1>11. /\ t \in TailStore /\ t.filter = s.filter /\ t.oldest = s.oldest /\ t.primed = s.primed
       /\ t.exhausted = s.exhausted /\ StoreSound(t, read \cup Rows(rows), gone)
       /\ t.cursor = IF Len(rows) = 0 THEN s.cursor ELSE Time(rows[Len(rows)])
  BY <1>7, <1>10 DEF BatchIngested
<1>12. tail' = t /\ ingested' = read \cup Rows(rows)
  BY <1>3
<1>13. t.cursor \in Nat /\ t.cursor <= instant
  <2>1. CASE Len(rows) = 0
    BY <1>1, <1>3, <1>9, <1>11, <2>1 DEF LtType
  <2>2. CASE Len(rows) # 0
    <3>1. rows[Len(rows)] \in DOMAIN logRows
      BY <1>6, <1>7, <2>2
    <3> QED
      BY <1>8, <1>11, <2>2, <3>1
  <2> QED
    BY <2>1, <2>2
<1>14. LtType'
  <2>1. tail' \in TailStore /\ tail'.cursor <= instant
    BY <1>11, <1>12, <1>13
  <2>2. /\ tailPc' \in {"run", "prime"} /\ wiped' \subseteq DOMAIN logRows /\ ingested' \subseteq DOMAIN logRows
        /\ tailMsg' \in {"none", "rows", "err", "more", "done"} /\ tailReqs' \in Seq(TailReq)
    BY <1>1, <1>2, <1>7 DEF LtType
  <2> QED
    BY <1>1, <2>1, <2>2, TypeStore
<1>15. ViewFollows'
  <2>1. CASE tail' = tail
    BY <2>1 DEF LtInv, ViewFollows, NoMsg
  <2>2. CASE tail' # tail
    BY <2>2 DEF ViewFollows, NoMsg
  <2> QED
    BY <2>1, <2>2
<1>16. StoreSound(tail, ingested, wiped)'
  <2>1. PICK rd : rd = read \cup Rows(rows)
    OBVIOUS
  <2>2. StoreSound(t, rd, gone) /\ gone \subseteq rd /\ wiped' = gone /\ ingested' = rd
    BY <1>2, <1>3, <1>11, <2>1
  <2>3. \A i \in rd : Time(i)' = Time(i) /\ Key(i)' = Key(i) /\ \A g : Matches(g, i)' <=> Matches(g, i)
    BY DEF Time, Key, Matches
  <2> QED
    BY <1>12, <2>2, <2>3, SoundKept
<1>17. NoneSkipped'
  <2> SUFFICES ASSUME NEW i \in DOMAIN logRows, Matches(s.filter, i), s.oldest < Time(i), Time(i) < t.cursor, Time(i) \notin cut
               PROVE i \in read \cup Rows(rows)
    BY <1>11, <1>12 DEF NoneSkipped, Matches, Time
  <2>1. CASE Time(i) < s.cursor
    BY <1>2, <1>3, <2>1 DEF NoneSkipped
  <2>2. CASE Time(i) >= s.cursor
    <3>1. rows # <<>> /\ t.cursor = Time(rows[Len(rows)])
      BY <1>7, <1>8, <1>9, <1>11, <2>2
    <3> QED
      BY <1>6, <1>8, <1>13, <2>2, <3>1
  <2> QED
    BY <1>8, <1>9, <2>1, <2>2
<1>18. (tail.oldest = 0 \/ tail.exhausted \/ tail.oldest \in cut)'
  BY <1>2, <1>3, <1>11, <1>12
<1>19. tail'.primed = TRUE /\ tailPc' = "run" /\ wiped' \subseteq ingested'
  BY <1>2, <1>3, <1>11, <1>12
<1>20. TailInv'
  <2>1. (tailPc = "prime" => ~tail.primed)' /\ (tail.primed \/ tail = Blank(tail.filter))'
    BY <1>19
  <2>2. (wiped \subseteq ingested)'
    BY <1>19
  <2> QED
    BY <1>16, <1>17, <1>18, <2>1, <2>2, Zenon DEF TailInv
<1> QED
  BY <1>14, <1>15, <1>20 DEF LtInv

LEMMA SeqWider == ASSUME NEW B, NEW A, A \subseteq B, NEW x \in Seq(A) PROVE x \in Seq(B)
OBVIOUS

LEMMA LtBackfill ==
  ASSUME LtInv, NEW ok, DoBackfill(ok), tailReqs' \in Seq(TailReq), tailPc = "run",
         UNCHANGED <<logRows, instant, tailPc, paneErr>>
  PROVE  LtInv'
<1>1. LtType /\ TailInv /\ tail \in TailStore /\ ingested \subseteq DOMAIN logRows /\ wiped \subseteq DOMAIN logRows
      /\ tail.cursor <= instant
  BY DEF LtInv, LtType
<1>2. CASE tail.oldest = 0 \/ tail.exhausted \/ tail.backfilled >= HistoryMax
  <2>1. tailMsg' = "done" /\ UNCHANGED <<tail, ingested, cut, wiped>>
    BY <1>2 DEF DoBackfill
  <2>2. LtType'
    BY <1>1, <2>1, TypeStore
  <2>3. ViewFollows'
    BY <2>1 DEF ViewFollows, NoMsg
  <2>4. TailInv'
    BY <2>1, StoreAlone
  <2> QED
    BY <2>2, <2>3, <2>4 DEF LtInv
<1>3. CASE Failed
  BY <1>3, LtFailed
<1>4. CASE ~(tail.oldest = 0 \/ tail.exhausted \/ tail.backfilled >= HistoryMax) /\ ~Failed
  <2>1. PICK s, read, gone : s = tail /\ read = ingested /\ gone = wiped
    OBVIOUS
  <2>2. PICK rows \in Seq(DOMAIN logRows) :
           /\ rows = QueryBackfill(s.filter, s.oldest) /\ InTime(rows)
           /\ \A m \in DOMAIN rows : Matches(s.filter, rows[m]) /\ Time(rows[m]) < s.oldest
           /\ \A i \in DOMAIN logRows : Matches(s.filter, i) /\ Time(i) < s.oldest =>
                i \in Rows(rows) \/ (Len(rows) = Page /\ (rows # <<>> => Time(i) <= Time(rows[1])))
    BY <1>1, BackfillFacts
  <2> DEFINE n == s.backfilled + Len(rows)
             done == Len(rows) < Page \/ n >= HistoryMax
             u == Trim(rows \o s.ring)
             first == IF rows # <<>> THEN Time(rows[1]) ELSE s.oldest
             t == [s EXCEPT !.ring = u, !.oldest = first, !.backfilled = n, !.exhausted = done]
  <2>3. /\ tail' = t /\ ingested' = read \cup Rows(rows) /\ wiped' = gone
        /\ cut' = IF rows # <<>> THEN cut \cup {Time(rows[1])} ELSE cut
        /\ tailMsg' = IF done THEN "done" ELSE "more"
    BY <1>4, <2>1, <2>2, Zenon DEF DoBackfill
  <2>4. /\ s \in TailStore /\ s.oldest # 0 /\ ~s.exhausted
        /\ s.ring \in Seq(Nat) /\ s.cursor \in Nat /\ s.oldest \in Nat /\ s.backfilled \in Nat
    BY <1>1, <1>4, <2>1, StoreFields
  <2>5. s.primed /\ tail.primed
    <3>1. tail = Blank(tail.filter) => tail.oldest = 0
      BY DEF Blank
    <3> QED
      BY <1>1, <2>1, <2>4, <3>1 DEF TailInv
  <2>6. gone \subseteq read /\ StoreSound(s, read, gone) /\ NoneSkipped /\ s.oldest \in cut /\ read \subseteq DOMAIN logRows
    BY <1>1, <2>1, <2>4, <2>5 DEF TailInv
  <2>7. /\ s.ring \in Seq(read) /\ Len(s.ring) <= RingCap /\ InTime(s.ring) /\ s.oldest <= s.cursor
        /\ \A j \in read : Matches(s.filter, j) /\ s.oldest <= Time(j) /\ Time(j) <= s.cursor
        /\ \A key \in s.seenAtMax : \E j \in read : Time(j) = s.cursor /\ Key(j) = key
        /\ \A j \in Rows(s.ring) : Time(j) = s.cursor => Key(j) \in s.seenAtMax
        /\ \A j \in read : Held(s.ring, gone, j)
    BY <2>6 DEF StoreSound, RingSound, CursorSound
  <2>8. Len(rows) \in Nat /\ DOMAIN rows = 1..Len(rows) /\ Rows(rows) \subseteq DOMAIN logRows
        /\ (rows = <<>> <=> Len(rows) = 0) /\ rows \in Seq(Rows(rows))
    <3>1. \A k \in 1..Len(rows) : rows[k] \in Rows(rows)
      BY DEF Rows
    <3>2. Len(rows) \in Nat /\ rows = [k \in 1..Len(rows) |-> rows[k]]
      OBVIOUS
    <3>3. rows \in Seq(Rows(rows))
      <4> HIDE DEF Rows
      <4> QED
        BY <3>1, <3>2
    <3> QED
      BY <3>3, BatchRows
  <2>9. \A i \in DOMAIN logRows : Time(i) \in Nat /\ Time(i) > 0
    BY <1>1, LtTypes
  <2>10. \A j \in Rows(rows) : Matches(s.filter, j) /\ Time(j) < s.oldest
    BY <2>2 DEF Rows
  <2>11. Rows(s.ring) \subseteq read
    <3>1. \A k \in DOMAIN s.ring : s.ring[k] \in read
      BY <2>7
    <3> QED
      BY <3>1 DEF Rows
  <2> DEFINE R == read \cup Rows(rows)
  <2>12. R \subseteq DOMAIN logRows /\ rows \in Seq(R) /\ s.ring \in Seq(R)
    BY <2>6, <2>7, <2>8
  <2>13. \A i \in Rows(rows), j \in Rows(s.ring) : Time(i) < Time(j)
    <3> SUFFICES ASSUME NEW i \in Rows(rows), NEW j \in Rows(s.ring) PROVE Time(i) < Time(j)
      OBVIOUS
    <3>1. Time(i) < s.oldest /\ s.oldest <= Time(j) /\ Time(i) \in Nat /\ Time(j) \in Nat
      BY <2>6, <2>7, <2>8, <2>9, <2>10, <2>11
    <3> QED
      BY <2>4, <3>1
  <2>14. PICK b, q : b = R /\ q = s.ring
    OBVIOUS
  <2>15. /\ u \in Seq(R) /\ Len(u) <= RingCap /\ InTime(u) /\ Rows(u) \subseteq Rows(rows) \cup Rows(s.ring)
         /\ \A i \in Rows(rows) : Held(u, gone, i)
         /\ \A i \in DOMAIN logRows : Held(s.ring, gone, i) => Held(u, gone, i)
    <3> DEFINE w == Trim(rows \o q)
    <3>1. /\ w \in Seq(b) /\ Len(w) <= RingCap /\ InTime(w) /\ Rows(w) \subseteq Rows(rows) \cup Rows(q)
          /\ \A i \in Rows(rows) : Held(w, gone, i)
          /\ \A i \in DOMAIN logRows : Held(q, gone, i) => Held(w, gone, i)
      <4>1. b \subseteq DOMAIN logRows /\ rows \in Seq(b) /\ q \in Seq(b)
        BY <2>12, <2>14
      <4>2. InTime(q) /\ Len(q) <= RingCap /\ \A i \in Rows(rows), j \in Rows(q) : Time(i) < Time(j)
        BY <2>7, <2>13, <2>14
      <4>3. InTime(rows)
        BY <2>2
      <4> QED
        BY <1>1, <4>1, <4>2, <4>3, PrependHolds, Zenon
    <3>2. w = u
      BY <2>14
    <3> HIDE DEF w, u, R
    <3> QED
      BY <2>14, <3>1, <3>2
  <2> HIDE DEF u
  <2>16. /\ first \in Nat /\ first <= s.oldest /\ first <= s.cursor
         /\ \A j \in R : Matches(s.filter, j) /\ first <= Time(j) /\ Time(j) <= s.cursor
    <3>1. CASE rows = <<>>
      <4>1. Rows(rows) = {} /\ first = s.oldest
        BY <2>8, <3>1 DEF Rows
      <4> QED
        BY <2>4, <2>7, <4>1
    <3>2. CASE rows # <<>>
      <4>1. 1 \in DOMAIN rows /\ rows[1] \in Rows(rows) /\ first = Time(rows[1])
        BY <2>8, <3>2 DEF Rows
      <4>2. first \in Nat /\ first < s.oldest
        BY <2>8, <2>9, <2>10, <4>1
      <4>3. ASSUME NEW m \in DOMAIN rows PROVE first <= Time(rows[m])
        <5>1. m = 1 \/ 1 < m
          BY <2>8
        <5> QED
          BY <2>2, <4>1, <4>2, <5>1 DEF InTime
      <4>4. ASSUME NEW j \in Rows(rows) PROVE first <= Time(j) /\ Time(j) <= s.cursor
        <5>1. first <= Time(j)
          BY <4>3 DEF Rows
        <5>2. Time(j) < s.oldest /\ Time(j) \in Nat
          BY <2>8, <2>9, <2>10
        <5> QED
          BY <2>4, <2>7, <5>1, <5>2
      <4>5. ASSUME NEW j \in read PROVE first <= Time(j)
        <5>1. s.oldest <= Time(j) /\ Time(j) \in Nat
          BY <2>6, <2>7, <2>9
        <5> QED
          BY <2>4, <4>2, <5>1
      <4>6. first <= s.oldest /\ first <= s.cursor
        BY <2>4, <2>7, <4>2
      <4> HIDE DEF first
      <4> QED
        BY <2>7, <2>10, <4>2, <4>4, <4>5, <4>6
    <3> QED
      BY <3>1, <3>2
  <2> HIDE DEF first
  <2>17. done \in BOOLEAN /\ n \in Nat
    BY <2>4, <2>8
  <2> HIDE DEF done, n
  <2>18. u \in Seq(Nat)
    <3>1. R \subseteq Nat
      BY <1>1, <2>12, LtTypes
    <3>2. u \in Seq(b) /\ b \subseteq Nat
      BY <2>14, <2>15, <3>1, Zenon
    <3>3. PICK v : v = u
      OBVIOUS
    <3>4. v \in Seq(Nat)
      <4>1. v \in Seq(b) /\ b \subseteq Nat
        BY <3>2, <3>3
      <4> QED
        BY <4>1, SeqWider
    <3> QED
      BY <3>3, <3>4
  <2>19. t \in TailStore
    BY <2>4, <2>16, <2>17, <2>18 DEF TailStore
  <2>20. /\ t.filter = s.filter /\ t.ring = u /\ t.cursor = s.cursor /\ t.seenAtMax = s.seenAtMax
         /\ t.oldest = first /\ t.primed = s.primed
    BY <2>4 DEF TailStore
  <2> HIDE DEF t, R
  <2>21. LtType'
    <3>1. tail' \in TailStore /\ tail'.cursor <= instant
      BY <1>1, <2>1, <2>3, <2>19, <2>20
    <3>2. /\ tailPc' \in {"run", "prime"} /\ wiped' \subseteq DOMAIN logRows /\ ingested' \subseteq DOMAIN logRows
          /\ tailMsg' \in {"none", "rows", "err", "more", "done"}
      BY <1>1, <2>1, <2>3, <2>6, <2>8
    <3> QED
      BY <1>1, <3>1, <3>2, TypeStore
  <2>22. ViewFollows'
    BY <2>3 DEF ViewFollows, NoMsg
  <2>23. StoreSound(t, R, gone)
    <3>1. RingSound(t, R)
      BY <2>15, <2>20 DEF RingSound
    <3>2. CursorSound(t, R)
      <4>1. \A key \in s.seenAtMax : \E j \in R : Time(j) = s.cursor /\ Key(j) = key
        BY <2>7 DEF R
      <4>2. ASSUME NEW j \in Rows(u), Time(j) = s.cursor PROVE Key(j) \in s.seenAtMax
        <5>1. CASE j \in Rows(s.ring)
          BY <2>7, <4>2, <5>1
        <5>2. CASE j \in Rows(rows)
          BY <2>4, <2>7, <2>8, <2>9, <2>10, <4>2, <5>2
        <5> QED
          BY <2>15, <5>1, <5>2
      <4> QED
        BY <2>16, <2>20, <4>1, <4>2 DEF CursorSound
    <3>3. \A i \in R : Held(t.ring, gone, i)
      BY <2>6, <2>7, <2>15, <2>20 DEF R
    <3> QED
      BY <3>1, <3>2, <3>3 DEF StoreSound
  <2>24. StoreSound(tail, ingested, wiped)'
    <3>1. PICK v : v = t
      OBVIOUS
    <3>2. StoreSound(v, b, gone) /\ gone \subseteq b /\ tail' = v /\ wiped' = gone /\ ingested' = b
      BY <2>3, <2>6, <2>14, <2>23, <3>1 DEF R
    <3>3. \A i \in b : Time(i)' = Time(i) /\ Key(i)' = Key(i) /\ \A g : Matches(g, i)' <=> Matches(g, i)
      BY DEF Time, Key, Matches
    <3> QED
      BY <3>2, <3>3, SoundKept
  <2>25. NoneSkipped'
    <3> SUFFICES ASSUME NEW i \in DOMAIN logRows, Matches(s.filter, i), first < Time(i), Time(i) < s.cursor, Time(i) \notin cut'
                 PROVE i \in R
      BY <2>3, <2>20 DEF NoneSkipped, Matches, Time, R
    <3>1. Time(i) \notin cut /\ Time(i) # s.oldest
      BY <2>3, <2>6
    <3>2. CASE s.oldest < Time(i)
      BY <2>1, <2>6, <3>1, <3>2 DEF NoneSkipped, R
    <3>3. CASE Time(i) < s.oldest
      <4>1. rows # <<>> /\ first = Time(rows[1])
        BY <2>4, <2>9, <3>3 DEF first
      <4> QED
        BY <2>2, <2>9, <2>16, <3>3, <4>1 DEF R
    <3> QED
      BY <2>4, <2>9, <3>1, <3>2, <3>3
  <2>26. (tail.oldest \in cut)'
    BY <2>3, <2>6, <2>20 DEF first
  <2>27. tail'.primed = TRUE /\ tailPc' = "run" /\ wiped' \subseteq ingested'
    BY <2>3, <2>5, <2>6, <2>20, StoreFields
  <2>28. TailInv'
    <3>1. (tailPc = "prime" => ~tail.primed)' /\ (tail.primed \/ tail = Blank(tail.filter))'
      BY <2>27
    <3>2. (wiped \subseteq ingested)' /\ (tail.oldest = 0 \/ tail.exhausted \/ tail.oldest \in cut)'
      BY <2>26, <2>27
    <3> QED
      BY <2>24, <2>25, <3>1, <3>2, Zenon DEF TailInv
  <2> QED
    BY <2>21, <2>22, <2>28 DEF LtInv
<1> QED
  BY <1>2, <1>3, <1>4

LEMMA LtClear ==
  ASSUME LtInv, tail' = [tail EXCEPT !.ring = <<>>], wiped' = ingested, tailMsg' = "rows",
         tailReqs' \in Seq(TailReq), tailPc = "run", UNCHANGED <<logRows, instant, paneErr, tailPc, ingested, cut>>
  PROVE  LtInv'
<1>1. LtType /\ TailInv /\ tail \in TailStore /\ ingested \subseteq DOMAIN logRows /\ tail.cursor <= instant
  BY DEF LtInv, LtType
<1>2. PICK t, read : t = [tail EXCEPT !.ring = <<>>] /\ read = ingested
  OBVIOUS
<1>3. /\ t \in TailStore /\ t.ring = <<>> /\ t.filter = tail.filter /\ t.cursor = tail.cursor /\ t.oldest = tail.oldest
      /\ t.seenAtMax = tail.seenAtMax /\ t.primed = tail.primed /\ t.exhausted = tail.exhausted
  <2>1. <<>> \in Seq(Nat)
    OBVIOUS
  <2> QED
    BY <1>1, <1>2, <2>1 DEF TailStore
<1>4. tail' = t /\ ingested' = read /\ wiped' = read
  BY <1>2
<1>5. LtType'
  <2>1. tail' \in TailStore /\ tail'.cursor <= instant
    BY <1>1, <1>3, <1>4
  <2>2. tailPc' \in {"run", "prime"} /\ tailMsg' \in {"none", "rows", "err", "more", "done"}
    OBVIOUS
  <2> QED
    BY <1>1, <2>1, <2>2, TypeStore
<1>6. ViewFollows'
  BY DEF ViewFollows, NoMsg
<1>7. CASE tail.primed
  <2>1. StoreSound(tail, ingested, wiped) /\ NoneSkipped /\ (tail.oldest = 0 \/ tail.exhausted \/ tail.oldest \in cut)
    BY <1>1, <1>7 DEF TailInv
  <2>2. RingSound(t, read)
    BY <1>3, CapType DEF RingSound, InTime
  <2>3. CursorSound(t, read)
    <3>1. CursorSound(tail, ingested)
      BY <2>1 DEF StoreSound
    <3>2. Rows(t.ring) = {}
      BY <1>3 DEF Rows
    <3> QED
      BY <1>2, <1>3, <3>1, <3>2 DEF CursorSound
  <2>4. \A i \in read : Held(t.ring, read, i)
    BY DEF Held, Same
  <2>5. StoreSound(t, read, read)
    BY <2>2, <2>3, <2>4 DEF StoreSound
  <2>6. \A i \in read : Time(i)' = Time(i) /\ Key(i)' = Key(i) /\ \A g : Matches(g, i)' <=> Matches(g, i)
    BY DEF Time, Key, Matches
  <2>7. StoreSound(tail, ingested, wiped)'
    BY <1>4, <2>5, <2>6, SoundKept
  <2>8. NoneSkipped'
    BY <1>2, <1>3, <1>4, <2>1 DEF NoneSkipped, Matches, Time
  <2>9. (tailPc = "prime" => ~tail.primed)' /\ (tail.primed \/ tail = Blank(tail.filter))'
    BY <1>3, <1>4, <1>7
  <2>10. (wiped \subseteq ingested)' /\ (tail.oldest = 0 \/ tail.exhausted \/ tail.oldest \in cut)'
    BY <1>3, <1>4, <2>1
  <2>11. TailInv'
    BY <2>7, <2>8, <2>9, <2>10, Zenon DEF TailInv
  <2> QED
    BY <1>5, <1>6, <2>11 DEF LtInv
<1>8. CASE ~tail.primed
  <2>1. tail = Blank(tail.filter)
    BY <1>1, <1>8 DEF TailInv
  <2>2. t = tail
    BY <1>2, <2>1 DEF Blank
  <2>3. TailInv'
    BY <1>4, <1>8, <2>1, <2>2 DEF TailInv, Blank
  <2> QED
    BY <1>5, <1>6, <2>3 DEF LtInv
<1> QED
  BY <1>7, <1>8

LEMMA LtReset ==
  ASSUME LtInv, NEW f \in SUBSET Serial, ResetForReprime(f), tailPc' = "prime", tailReqs' \in Seq(TailReq),
         UNCHANGED <<logRows, instant, paneErr, ingested, cut, wiped, tailMsg>>
  PROVE  LtInv'
<1>1. LtType /\ wiped \subseteq DOMAIN logRows /\ ingested \subseteq DOMAIN logRows
      /\ tailMsg \in {"none", "rows", "err", "more", "done"} /\ instant \in Nat
  BY DEF LtInv, LtType
<1>2. tail' = Blank(f)
  BY DEF ResetForReprime
<1>3. Blank(f) \in TailStore /\ Blank(f).cursor = 0 /\ Blank(f).filter = f /\ ~Blank(f).primed
  BY DEF Blank, TailStore
<1>4. LtType'
  <2>1. tail' \in TailStore /\ tail'.cursor <= instant
    BY <1>1, <1>2, <1>3
  <2> QED
    BY <1>1, <2>1, TypeStore
<1>5. ViewFollows'
  BY DEF ViewFollows
<1>6. TailInv'
  <2>1. (tail = Blank(tail.filter))'
    BY <1>2, <1>3 DEF Blank
  <2>2. ~tail'.primed
    BY <1>2, <1>3
  <2> QED
    BY <2>1, <2>2 DEF TailInv
<1> QED
  BY <1>4, <1>5, <1>6 DEF LtInv

LEMMA LtTick == ASSUME LtInv, NEW ok, Tick(ok) PROVE LtInv'
<1>1. /\ tailPc = "run" /\ NoMsg /\ UNCHANGED <<logRows, instant, tailPc, tailReqs, shown, paneErr>>
      /\ tailReqs' \in Seq(TailReq)
  BY DEF Tick, ltPaneV, LtInv, LtType
<1>2. CASE Failed
  BY <1>1, <1>2, LtFailed
<1>3. CASE ~tail.primed /\ Primed(tail)
  BY <1>1, <1>3, LtPrimed
<1>4. CASE ok /\ tail.primed
  <2>1. PICK rows : rows = QueryForward(tail.filter, tail.cursor)
    OBVIOUS
  <2>2. /\ tail' = IngestForward(tail, rows) /\ ingested' = ingested \cup Rows(rows)
        /\ tailMsg' = IF tail' # tail THEN "rows" ELSE "none"
        /\ UNCHANGED <<cut, wiped>>
    BY <1>4, <2>1 DEF Tick
  <2> QED
    BY <1>1, <1>4, <2>1, <2>2, LtForward
<1> QED
  BY <1>2, <1>3, <1>4 DEF Tick

LEMMA LtHandleReq == ASSUME LtInv, NEW ok, HandleReq(ok) PROVE LtInv'
<1>1. /\ tailPc = "run" /\ NoMsg /\ tailReqs # <<>> /\ tailReqs' = Tail(tailReqs)
      /\ UNCHANGED <<logRows, instant, shown, paneErr>>
  BY DEF HandleReq, ltPaneV
<1>2. tailReqs \in Seq(TailReq) /\ tail \in TailStore
  BY DEF LtInv, LtType
<1>3. tailReqs' \in Seq(TailReq) /\ Head(tailReqs) \in TailReq
  BY <1>1, <1>2
<1>4. PICK r \in TailReq : r = Head(tailReqs)
  BY <1>3
<1>5. r.filter \in SUBSET Serial /\ tail.filter \in SUBSET Serial
  BY <1>2, StoreFields DEF TailReq
<1>6. CASE DoBackfill(ok) /\ UNCHANGED tailPc
  BY <1>1, <1>3, <1>6, LtBackfill
<1>7. CASE /\ ResetForReprime(IF r.kind = "filter" THEN r.filter ELSE tail.filter)
           /\ tailPc' = "prime" /\ UNCHANGED <<ingested, cut, wiped, tailMsg>>
  <2>1. PICK f : f = IF r.kind = "filter" THEN r.filter ELSE tail.filter
    OBVIOUS
  <2>2. f \in SUBSET Serial /\ ResetForReprime(f)
    BY <1>5, <1>7, <2>1
  <2> QED
    BY <1>1, <1>3, <1>7, <2>2, LtReset
<1>8. CASE /\ tail' = [tail EXCEPT !.ring = <<>>] /\ wiped' = ingested
           /\ tailMsg' = "rows" /\ UNCHANGED <<tailPc, ingested, cut>>
  BY <1>1, <1>3, <1>8, LtClear
<1> QED
  BY <1>4, <1>6, <1>7, <1>8 DEF HandleReq

LEMMA LtPrimeAfterReset == ASSUME LtInv, NEW ok, PrimeAfterReset(ok) PROVE LtInv'
<1>1. /\ tailPc = "prime" /\ tailPc' = "run" /\ UNCHANGED <<logRows, instant, tailReqs, shown, paneErr>>
      /\ tailReqs' \in Seq(TailReq) /\ ~tail.primed
  BY DEF PrimeAfterReset, ltPaneV, LtInv, LtType, TailInv
<1>2. CASE Failed
  BY <1>1, <1>2, LtFailed
<1>3. CASE Primed(tail)
  BY <1>1, <1>3, LtPrimed
<1> QED
  BY <1>2, <1>3 DEF PrimeAfterReset

LEMMA LtStutter == ASSUME LtInv, UNCHANGED ltVars PROVE LtInv'
<1>1. UNCHANGED <<logRows, tail, tailPc, ingested, cut, wiped, tailReqs, instant, tailMsg, shown, paneErr>>
  BY DEF ltVars, tailV, ltPaneV
<1>2. LtType
  BY DEF LtInv
<1>3. LtType'
  BY <1>1, <1>2, TypeAlone DEF LtType
<1>4. ViewFollows'
  BY <1>1 DEF LtInv, ViewFollows, NoMsg
<1>5. TailInv'
  BY <1>1, StoreAlone
<1> QED
  BY <1>3, <1>4, <1>5 DEF LtInv

\* store.go, model.go: whatever polls, backfills, filters, clears and failed queries
\* come in whatever order, the ring is a stretch of the chosen rows, a poll that
\* finds nothing has missed nothing, and the pane shows the ring.
THEOREM TailsAreSound == LtSpec => []TailSound
<1>1. LtInit => LtInv
  BY LtInvInit
<1>2. LtInv /\ [LtNext]_ltVars => LtInv'
  <2> SUFFICES ASSUME LtInv, [LtNext]_ltVars PROVE LtInv'
    OBVIOUS
  <2>1. ASSUME NEW d \in Serial, InsertRow(d) PROVE LtInv'
    BY <2>1, LtInsertRow
  <2>2. ASSUME NEW ok \in BOOLEAN, Tick(ok) PROVE LtInv'
    BY <2>2, LtTick
  <2>3. ASSUME NEW ok \in BOOLEAN, HandleReq(ok) PROVE LtInv'
    BY <2>3, LtHandleReq
  <2>4. ASSUME NEW ok \in BOOLEAN, PrimeAfterReset(ok) PROVE LtInv'
    BY <2>4, LtPrimeAfterReset
  <2> QED
    BY <2>1, <2>2, <2>3, <2>4, LtTimePasses, LtPaneUpdate, LtOnLogKey, LtFocusLogs, LtStutter DEF LtNext
<1>3. LtInv => TailSound
  BY TailFollows
<1> QED
  BY <1>1, <1>2, <1>3, PTL DEF LtSpec
==============================================================================
