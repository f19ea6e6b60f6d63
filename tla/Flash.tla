-------------------------------- MODULE Flash --------------------------------
(***************************************************************************)
(* Flashing over USB from picpak-ops: the controller's goroutines          *)
(* (flash/controller.go, stage.go, progress.go, recovery.go), the gate     *)
(* that confirms a port is a PicPak (sshhost/gate.go) and the pane that    *)
(* shows and drives it (flashpane/pane.go).                                *)
(*                                                                         *)
(* A job is one goroutine of runAll.  Posting a message to the pane hands  *)
(* it to the UI loop, which handles it before it takes another: the model  *)
(* makes it one step with the pane's handler.                              *)
(***************************************************************************)
EXTENDS Integers, FiniteSets

CONSTANTS
    Port,        \* devices on offer, host:tty
    SameHost,    \* the ports on the shared host; every other has its own
    Parallel,    \* capacity of the controller's semaphore
    RetryMax,    \* flash.retry_max (retry_auto on)
    GateTTL,     \* gate cache TTL; 0 or less: an entry does not expire
    NumFiles,    \* entries of the write set
    MaxFlashJobs, MaxGateTime   \* bounds

ASSUME FlAssumption ==
    /\ Port # {} /\ Parallel \in Nat \ {0} /\ GateTTL \in Int
    /\ NumFiles \in Nat /\ MaxFlashJobs \in Nat

Jobs == 1..MaxFlashJobs
Working == {"lock", "sem", "validate", "stage", "confirm", "flash", "running"}
Holding == {"sem", "validate", "stage", "confirm", "flash", "running", "ended", "cleared"}
HostOf(t) == IF t \in SameHost THEN "shared" ELSE t

VARIABLES
    job,       \* job -> [t, pc, tries, dead, age]; dead: its context is done,
               \* age: how old the sighting behind its confirmation was
    cancels,   \* target -> the job whose cancel func is registered, 0 none
    results,   \* the pane's phase per target: "absent", "pending", "working", "done", "failed"
    flashOpen,
    gateCache, \* target -> time of a successful confirmation, -1 none
    seen,      \* history: target -> when udev last answered "PicPak", -1 never
    plugged,   \* target -> is the device behind the tty a PicPak
    chip,      \* target -> "old", "partial", "full"
    gateTime

jobsV == <<job, cancels>>
portV == <<gateCache, seen, plugged, gateTime>>
flVars == <<jobsV, results, flashOpen, portV, chip>>

Idle == [t |-> CHOOSE t \in Port : TRUE, pc |-> "none", tries |-> 0, dead |-> FALSE, age |-> 0]
Pc(j) == job[j].pc
JobsOf(t) == {j \in Jobs : job[j].t = t /\ job[j].pc # "none"}
Free == {j \in Jobs : Pc(j) = "none"}

FlInit ==
    /\ job = [j \in Jobs |-> Idle] /\ cancels = [t \in Port |-> 0]
    /\ results = [t \in Port |-> "absent"] /\ flashOpen = TRUE
    /\ gateCache = [t \in Port |-> -1] /\ seen = [t \in Port |-> -1]
    /\ plugged = [t \in Port |-> TRUE] /\ chip = [t \in Port |-> "old"] /\ gateTime = 0

----------------------------------------------------------------------------
(* The pane.                                                               *)

\* One goroutine per target.
Spawned(ts) ==
    \E f \in [ts -> Free] :
        /\ \A t, u \in ts : t # u => f[t] # f[u]
        /\ \A t \in ts, k \in Free \ {f[u] : u \in ts} : f[t] < k
        /\ job' = [j \in Jobs |-> IF \E t \in ts : f[t] = j
                     THEN [Idle EXCEPT !.t = CHOOSE t \in ts : f[t] = j, !.pc = "lock"] ELSE job[j]]

\* startFlash, from the picker: the first batch of this pane.
StartFlash(ts) ==
    /\ flashOpen /\ ts # {} /\ \A t \in Port : results[t] = "absent"
    /\ Spawned(ts)
    /\ results' = [t \in Port |-> IF t \in ts THEN "pending" ELSE "absent"]
    /\ UNCHANGED <<cancels, flashOpen, portV, chip>>

\* retryCursor: only a row that shows a failure.
RetryCursor(t) ==
    /\ flashOpen /\ results[t] = "failed" /\ Free # {}
    /\ Spawned({t})
    /\ results' = [results EXCEPT ![t] = "pending"]
    /\ UNCHANGED <<cancels, flashOpen, portV, chip>>

Killed(js) == [j \in Jobs |-> IF j \in js THEN [job[j] EXCEPT !.dead = TRUE] ELSE job[j]]
Cancellable == {cancels[t] : t \in Port} \cap {j \in Jobs : Pc(j) \in Working}

\* abort: the row under the cursor if it works, else every registered job.
Abort(t) ==
    /\ flashOpen /\ results[t] # "absent"
    /\ job' = Killed(IF results[t] \in {"pending", "working"} THEN {cancels[t]} \ {0} ELSE Cancellable)
    /\ job' # job
    /\ UNCHANGED <<cancels, results, flashOpen, portV, chip>>

\* Close: the registered jobs, and through the pane's context every other.
CloseFlash ==
    /\ flashOpen /\ flashOpen' = FALSE
    /\ job' = Killed({j \in Jobs : Pc(j) \in Working})
    /\ UNCHANGED <<cancels, results, portV, chip>>

\* FlashPhaseMsg and FlashDeviceDoneMsg.
Shown(t, s) == results' = IF flashOpen THEN [results EXCEPT ![t] = s] ELSE results

----------------------------------------------------------------------------
(* A job.                                                                  *)

Goto(j, s) == job' = [job EXCEPT ![j].pc = s]

\* Mutant of TakeHostLock: a lock per target.
TakeHostLockPerTarget(j) ==
    /\ Pc(j) = "lock"
    /\ \A k \in Jobs : job[k].t = job[j].t => Pc(k) \notin Holding
    /\ Goto(j, "sem")
    /\ UNCHANGED <<cancels, results, flashOpen, portV, chip>>

TakeHostLock(j) ==
    /\ Pc(j) = "lock"
    /\ \A k \in Jobs : HostOf(job[k].t) = HostOf(job[j].t) => Pc(k) \notin Holding
    /\ Goto(j, "sem")
    /\ UNCHANGED <<cancels, results, flashOpen, portV, chip>>

\* The semaphore, then flashOne up to deviceCtx; a closed pane's context is done.
TakeSem(j) ==
    /\ Pc(j) = "sem"
    /\ Cardinality({k \in Jobs : Pc(k) \in Holding \ {"sem"}}) < Parallel
    /\ job' = [job EXCEPT ![j].pc = "validate", ![j].dead = @ \/ ~flashOpen]
    /\ cancels' = [cancels EXCEPT ![job[j].t] = j]
    /\ Shown(job[j].t, "working")
    /\ UNCHANGED <<flashOpen, portV, chip>>

\* flash.run_timeout.
RunTimeout(j) ==
    /\ Pc(j) \in {"validate", "stage", "confirm", "flash", "running"} /\ ~job[j].dead
    /\ job' = Killed({j})
    /\ UNCHANGED <<cancels, results, flashOpen, portV, chip>>

\* fail and done: FlashDeviceDoneMsg; the rest of the job is its deferred calls.
Ended(j, s) ==
    /\ job' = [job EXCEPT ![j] = [Idle EXCEPT !.t = job[j].t, !.pc = "ended"]]
    /\ Shown(job[j].t, s)

\* Mutant of Validate: a rejected write set returns without a message.
ValidateSilently(j) ==
    /\ Pc(j) = "validate"
    /\ \/ Goto(j, "stage") /\ UNCHANGED results
       \/ Goto(j, "ended") /\ UNCHANGED results
    /\ UNCHANGED <<cancels, flashOpen, portV, chip>>

\* BuildWriteSet and ValidateWriteSet, before anything is done on the host.
Validate(j) ==
    /\ Pc(j) = "validate"
    /\ (Goto(j, "stage") /\ UNCHANGED results) \/ Ended(j, "failed")
    /\ UNCHANGED <<cancels, flashOpen, portV, chip>>

\* Stage: nothing to do when the host built the files; else a copy, which fails
\* under a context that is done.
Stage(j) ==
    /\ Pc(j) = "stage"
    /\ (Goto(j, "confirm") /\ UNCHANGED results) \/ Ended(j, "failed")
    /\ UNCHANGED <<cancels, flashOpen, portV, chip>>

\* Mutant of CacheHit: the entry never expires.
CacheHitForever(t) == gateCache[t] # -1

CacheHit(t) == gateCache[t] # -1 /\ (GateTTL <= 0 \/ gateTime - gateCache[t] < GateTTL)

\* confirm (required): a fresh cache entry, else udev is asked; then releasePort.
Confirm(j) ==
    LET t == job[j].t IN
    /\ Pc(j) = "confirm"
    /\ \/ /\ CacheHit(t)
          /\ job' = [job EXCEPT ![j].pc = "flash", ![j].age = gateTime - seen[t]]
          /\ UNCHANGED <<gateCache, seen, results>>
       \/ /\ ~CacheHit(t) /\ plugged[t]
          /\ job' = [job EXCEPT ![j].pc = "flash", ![j].age = 0]
          /\ gateCache' = [gateCache EXCEPT ![t] = gateTime]
          /\ seen' = [seen EXCEPT ![t] = gateTime]
          /\ UNCHANGED results
       \/ \* another device, or the probe failed
          /\ ~CacheHit(t) /\ Ended(j, "failed") /\ UNCHANGED <<gateCache, seen>>
    /\ UNCHANGED <<cancels, flashOpen, plugged, gateTime, chip>>

\* What esptool did: files verified, a mismatch reported, its exit status and
\* what its output says of the cause.
Outcome == [verified : 0..NumFiles, mismatch : BOOLEAN, ok : BOOLEAN,
            cause : {"busy", "sync", "reset", "none"}]

\* Mutant of Success: esptool's exit status is believed.
SuccessByExit(o) == o.ok

\* Progress.Success
Success(o) == o.ok /\ ~o.mismatch /\ o.verified >= NumFiles

\* Classify, most specific first.  A child killed by its context ends with a
\* status, not an error, so it is never classed as a timeout.
Classify(o) ==
    IF o.mismatch THEN "hash" ELSE IF o.cause # "none" THEN o.cause
    ELSE IF o.verified < NumFiles THEN "hash" ELSE "exit"
Retryable(class) == class \in {"busy", "sync", "reset", "timeout"}

\* classifyTransport: "no such file or directory" of the launcher itself, which
\* says "open", counts as a busy port.
ClassifyTransport == {"busy", "exit"}

\* runOnce: the child is started, unless the context is done or the host is gone.
RunOnce(j) ==
    /\ Pc(j) = "flash"
    /\ \/ ~job[j].dead /\ Goto(j, "running") /\ UNCHANGED results
          /\ chip' = [chip EXCEPT ![job[j].t] = "partial"]
       \/ \E class \in ClassifyTransport :
            /\ UNCHANGED chip
            /\ IF Retryable(class) /\ job[j].tries < RetryMax /\ ~job[j].dead
               THEN job' = [job EXCEPT ![j].tries = @ + 1] /\ UNCHANGED results
               ELSE Ended(j, "failed")
    /\ UNCHANGED <<cancels, flashOpen, portV>>

\* The run ended: its exit and its lines are judged, and it may be run again.
RunDone(j) ==
    LET t == job[j].t IN
    /\ Pc(j) = "running"
    /\ \E o \in Outcome :
        /\ chip' = [chip EXCEPT ![t] = IF o.verified = NumFiles /\ ~o.mismatch THEN "full" ELSE @]
        /\ IF Success(o) THEN Ended(j, "done")
           ELSE IF Retryable(Classify(o)) /\ job[j].tries < RetryMax /\ ~job[j].dead
           THEN /\ job' = [job EXCEPT ![j].pc = "flash", ![j].tries = @ + 1]
                /\ UNCHANGED results
           ELSE Ended(j, "failed")
    /\ UNCHANGED <<cancels, flashOpen, portV>>

\* Mutant of Release: the lock is let go while the job is still registered.
ReleaseEarly(j) ==
    /\ \/ Pc(j) = "ended" /\ Goto(j, "out") /\ cancels' = cancels
       \/ Pc(j) = "out" /\ cancels[job[j].t] # 0 /\ UNCHANGED job
          /\ cancels' = [cancels EXCEPT ![job[j].t] = 0]
    /\ UNCHANGED <<results, flashOpen, portV, chip>>

\* The deferred calls: clearCancel, then the semaphore and the host lock.
Release(j) ==
    /\ \/ Pc(j) = "ended" /\ Goto(j, "cleared") /\ cancels' = [cancels EXCEPT ![job[j].t] = 0]
       \/ Pc(j) = "cleared" /\ Goto(j, "out") /\ UNCHANGED cancels
    /\ UNCHANGED <<results, flashOpen, portV, chip>>

----------------------------------------------------------------------------
(* The world: another device appears behind the tty, time passes.          *)

Replug(t) ==
    /\ plugged[t] /\ plugged' = [plugged EXCEPT ![t] = FALSE]
    /\ UNCHANGED <<jobsV, results, flashOpen, gateCache, seen, gateTime, chip>>

GateTick ==
    /\ gateTime < MaxGateTime /\ gateTime' = gateTime + 1
    /\ UNCHANGED <<jobsV, results, flashOpen, gateCache, seen, plugged, chip>>

FlNext ==
    \/ \E ts \in SUBSET Port : StartFlash(ts)
    \/ \E t \in Port : RetryCursor(t) \/ Abort(t) \/ Replug(t)
    \/ \E j \in Jobs : TakeHostLock(j) \/ TakeSem(j) \/ RunTimeout(j) \/ Validate(j) \/ Stage(j)
                       \/ Confirm(j) \/ RunOnce(j) \/ RunDone(j) \/ Release(j)
    \/ CloseFlash \/ GateTick

FlSpec == FlInit /\ [][FlNext]_flVars

----------------------------------------------------------------------------
(* Properties.                                                             *)

\* types.go: "success: every file hash-verified AND exit 0".  A row shown as
\* done has every byte of the write set on its chip, through retries, automatic
\* re-runs, aborts and timeouts.
DoneIsWritten == \A t \in Port : results[t] = "done" => chip[t] = "full"

\* The matrix tells which targets are being worked on: a row is pending or
\* working exactly while some job of its target has not reported its end.
RowIsJob ==
    flashOpen => \A t \in Port :
        results[t] \in {"pending", "working"} <=> \E j \in JobsOf(t) : Pc(j) \in Working

\* controller.go: one flash per host at a time and at most Parallel in all, also
\* when a failed row is retried while its batch goes on.
HostExclusive ==
    LET busy == {j \in Jobs : Pc(j) \in Holding \ {"sem", "cleared"}} IN
    /\ Cardinality(busy) <= Parallel
    /\ \A j, k \in busy : j # k => HostOf(job[j].t) # HostOf(job[k].t)

\* Abort reaches the job it is meant for: a job that works on its device is the
\* one registered for its target, although a retry starts before the deferred
\* calls of the failed job have run.
CancelReaches ==
    \A j \in Jobs : Pc(j) \in {"validate", "stage", "confirm", "flash", "running"} =>
        cancels[job[j].t] = j

\* gate.go: esptool is only started on a port that udev called a PicPak, less
\* than the TTL, if one is set, before it was confirmed.
ConfirmedFresh ==
    \A j \in Jobs : Pc(j) \in {"flash", "running"} =>
        seen[job[j].t] # -1 /\ (GateTTL > 0 => job[j].age < GateTTL)

\* The matrix tells the truth about the chips, and jobs keep out of each other's
\* way, through retries and aborts.
FlashSound ==
  /\ DoneIsWritten /\ RowIsJob /\ HostExclusive /\ CancelReaches
  /\ ConfirmedFresh

----------------------------------------------------------------------------
(* The inductive invariant.                                                *)

JobState == [t : Port, pc : Working \cup {"none", "ended", "cleared", "out"}, tries : Nat,
             dead : BOOLEAN, age : Int]

FlType ==
    /\ job \in [Jobs -> JobState] /\ cancels \in [Port -> 0..MaxFlashJobs]
    /\ results \in [Port -> {"absent", "pending", "working", "done", "failed"}]
    /\ flashOpen \in BOOLEAN /\ gateTime \in Nat
    /\ gateCache \in [Port -> Int] /\ seen \in [Port -> Int]
    /\ plugged \in [Port -> BOOLEAN] /\ chip \in [Port -> {"old", "partial", "full"}]

\* The host lock and the semaphore, over all that a job does while it holds them.
Locked == \A j, k \in Jobs : j # k /\ Pc(j) \in Holding /\ Pc(k) \in Holding =>
              HostOf(job[j].t) # HostOf(job[k].t)
SemHolders == {j \in Jobs : Pc(j) \in Holding \ {"sem"}}

\* A target is worked on once, and not at all when the pane is gone.
WorkedOnce == \A j, k \in Jobs : Pc(j) \in Working /\ Pc(k) \in Working /\ job[j].t = job[k].t => j = k
ClosedIsDead == ~flashOpen => \A j \in Jobs : Pc(j) \in Working => job[j].dead

\* A cached confirmation is a sighting.
CacheIsSighting == \A t \in Port : gateCache[t] # -1 => gateCache[t] = seen[t]

FlInv ==
    /\ FlType /\ Locked /\ Cardinality(SemHolders) <= Parallel /\ WorkedOnce /\ ClosedIsDead
    /\ CacheIsSighting /\ DoneIsWritten /\ RowIsJob /\ CancelReaches /\ ConfirmedFresh
=============================================================================
