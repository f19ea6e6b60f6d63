-------------------------------- MODULE Render --------------------------------
(***************************************************************************)
(* The function half of the FaaS supervisor: Render, buildFrame, the two   *)
(* caches, the durable last-good frame, fanOut for timers and webhooks     *)
(* (faascore/supervisor.go, buildframe.go, render.go), the edits of        *)
(* faas_http.go that change the function under way, and the credentials of *)
(* the egress proxy (cmd/faas-egress).                                     *)
(* One function; a frame is the version and the serial it was rendered     *)
(* for.  Secrets, wake times, dither and the sandbox are left out; a       *)
(* render fails or succeeds.                                               *)
(***************************************************************************)
EXTENDS Integers, FiniteSets

CONSTANTS Serial,    \* bound devices, numbered as ORDER BY serial has them
          Job,       \* concurrent device requests and webhook fan-outs
          MaxVer,    \* bound on the function's versions
          MaxMishaps \* bound on toggles, deletions, failures and restarts

NoSerial == 0
NoFrame == [ver |-> 0, ser |-> NoSerial]
Sched == "scheduler"   \* the scheduler's own goroutine

ASSUME RdAssumption == MaxVer \in Nat \ {0} /\ NoSerial \notin Serial

VARIABLES
  fn,       \* [ver, on, mode, inv, live]: the faas_functions row
  bound,    \* serials bound to it
  hot,      \* Serial -> [frame, key, fresh]: frameCache.m
  shared,   \* version -> [frame, fresh]: frameCache.inv
  lastGood, \* Serial -> frame: faas_frame_lastgood
  job,      \* Job \cup {Sched} -> the call
  creds,    \* calls registered at the egress proxy
  leaked,   \* calls whose unregister never reached it
  forgot,   \* history: serials deleted while a job was rendering them
  happened  \* toggles, deletions, failures and restarts so far

rdVars == <<fn, bound, hot, shared, lastGood, job, creds, leaked, forgot, happened>>

Jobs == Job \cup {Sched}
IdleJob == [pc |-> "idle", fan |-> FALSE, ser |-> NoSerial, ver |-> 0, inv |-> FALSE,
            todo |-> {}, frame |-> NoFrame, ans |-> "none", had |-> FALSE]
Cold == [frame |-> NoFrame, key |-> 0, fresh |-> FALSE]

(* A process that starts finds the last-good rows of the one before. *)
RdInit ==
  /\ fn \in [ver : {1}, on : {TRUE}, mode : {"sync", "timer", "webhook"}, inv : BOOLEAN,
             live : {TRUE}]
  /\ bound = Serial /\ hot = [s \in Serial |-> Cold]
  /\ shared = [v \in 1..MaxVer |-> [frame |-> NoFrame, fresh |-> FALSE]]
  /\ lastGood \in {[s \in Serial |-> NoFrame], [s \in Serial |-> [ver |-> 1, ser |-> s]]}
  /\ job = [j \in Jobs |-> IdleJob]
  /\ creds = {} /\ leaked = {} /\ forgot = {} /\ happened = 0

Set(j, r) == job' = [job EXCEPT ![j] = r]
JobAt(j, pc) == job' = [job EXCEPT ![j].pc = pc]
JobAnswer(j, ans, f) == job' = [job EXCEPT ![j].pc = "answer", ![j].ans = ans, ![j].frame = f]
Fault == happened < MaxMishaps /\ happened' = happened + 1
Forget(s) == [j \in Jobs |-> IF job[j].ser = s THEN [job[j] EXCEPT !.had = FALSE] ELSE job[j]]

-----------------------------------------------------------------------------
(* A device's request.  Render loads the function once and goes on with    *)
(* that copy: frozen or not inline serves the last good frame.             *)
Request(j, s) ==
  /\ j \in Job /\ job[j].pc = "idle" /\ s \in bound /\ fn.live
  /\ LET r == [IdleJob EXCEPT !.ser = s, !.had = lastGood[s] # NoFrame] IN
     Set(j, IF fn.on /\ fn.mode = "sync"
            THEN [r EXCEPT !.pc = "cache", !.ver = fn.ver, !.inv = fn.inv]
            ELSE [r EXCEPT !.pc = "durable"])
  /\ UNCHANGED <<fn, bound, hot, shared, lastGood, creds, leaked, forgot, happened>>

(* Mutant of Hit: the version of the entry is not compared. *)
HitAnyVersion(j) == LET e == hot[job[j].ser] IN e.frame # NoFrame /\ e.fresh

(* The hot entry is of the version this request loaded, and fresh.         *)
Hit(j) == LET e == hot[job[j].ser] IN e.key = job[j].ver /\ e.fresh
SharedHit(j) == job[j].inv /\ shared[job[j].ver].fresh

(* buildFrame's short cuts; an invariant hit seeds the serial's entry.     *)
CacheLookup(j) ==
  /\ job[j].pc = "cache"
  /\ \/ Hit(j) /\ JobAnswer(j, "ok", hot[job[j].ser].frame) /\ UNCHANGED hot
     \/ /\ ~Hit(j) /\ SharedHit(j)
        /\ LET f == shared[job[j].ver].frame IN
           /\ hot' = [hot EXCEPT ![job[j].ser] = [frame |-> f, key |-> job[j].ver, fresh |-> TRUE]]
           /\ JobAnswer(j, "ok", f)
     \/ ~Hit(j) /\ ~SharedHit(j) /\ JobAt(j, "register") /\ UNCHANGED hot
  /\ UNCHANGED <<fn, bound, shared, lastGood, creds, leaked, forgot, happened>>

(* renderOnce: the call's credential is registered at the proxy ...        *)
EgressRegister(j) ==
  /\ job[j].pc = "register"
  /\ creds' = creds \cup {j} /\ JobAt(j, "drive")
  /\ UNCHANGED <<fn, bound, hot, shared, lastGood, leaked, forgot, happened>>

(* Mutant of DriveWorker: the deferred unregister is missing on failure.   *)
DriveWorkerLeaks(j) ==
  /\ job[j].pc = "drive"
  /\ \/ /\ job' = [job EXCEPT ![j].pc = "stored", ![j].frame = [ver |-> job[j].ver, ser |-> job[j].ser]]
        /\ UNCHANGED happened /\ creds' = creds \ {j}
     \/ Fault /\ JobAt(j, "fallback") /\ UNCHANGED creds
  /\ UNCHANGED <<fn, bound, hot, shared, lastGood, leaked, forgot>>

(* ... the worker answers or fails, and the deferred unregister runs; its  *)
(* own failure is ignored.                                                 *)
DriveWorker(j) ==
  /\ job[j].pc = "drive"
  /\ \/ /\ job' = [job EXCEPT ![j].pc = "stored", ![j].frame = [ver |-> job[j].ver, ser |-> job[j].ser]]
        /\ UNCHANGED happened
     \/ Fault /\ JobAt(j, "fallback")
  /\ creds' = creds \ {j}
  /\ UNCHANGED <<fn, bound, hot, shared, lastGood, leaked, forgot>>
UnregisterLost(j) ==
  /\ Fault /\ job[j].pc = "drive" /\ leaked' = leaked \cup {j}
  /\ job' = [job EXCEPT ![j].pc = "stored", ![j].frame = [ver |-> job[j].ver, ser |-> job[j].ser]]
  /\ UNCHANGED <<fn, bound, hot, shared, lastGood, creds, forgot>>
(* Secrets do not open or the proxy refuses: no worker is driven. *)
RenderRefused(j) ==
  /\ Fault /\ job[j].pc = "register" /\ JobAt(j, "fallback")
  /\ UNCHANGED <<fn, bound, hot, shared, lastGood, creds, leaked, forgot>>

Entry(j, f) == [frame |-> f, key |-> job[j].ver, fresh |-> TRUE]
Publish(j, f) == IF job[j].inv
                 THEN shared' = [shared EXCEPT ![job[j].ver] = [frame |-> f, fresh |-> TRUE]]
                 ELSE UNCHANGED shared

(* A request caches first, then stores; a failed store is only logged.     *)
CachePut(j) ==
  /\ job[j].pc = "stored" /\ ~job[j].fan
  /\ hot' = [hot EXCEPT ![job[j].ser] = Entry(j, job[j].frame)]
  /\ Publish(j, job[j].frame) /\ JobAt(j, "persist")
  /\ UNCHANGED <<fn, bound, lastGood, creds, leaked, forgot, happened>>

(* Mutant of Stores: ON CONFLICT DO NOTHING. *)
StoresOnce(s, f) == IF fn.live /\ lastGood[s] = NoFrame THEN [lastGood EXCEPT ![s] = f] ELSE lastGood

(* LastGoodPut: the foreign key refuses a function that is gone; nothing   *)
(* refuses a serial that is.                                               *)
Stores(s, f) == IF fn.live THEN [lastGood EXCEPT ![s] = f] ELSE lastGood

LastGoodPut(j) ==
  /\ job[j].pc = "persist"
  /\ lastGood' = Stores(job[j].ser, job[j].frame)
  /\ JobAnswer(j, "ok", job[j].frame)
  /\ UNCHANGED <<fn, bound, hot, shared, creds, leaked, forgot, happened>>
PutFails(j) ==
  /\ Fault /\ job[j].pc = "persist" /\ JobAnswer(j, "ok", job[j].frame)
  /\ UNCHANGED <<fn, bound, hot, shared, lastGood, creds, leaked, forgot>>

(* Mutant of Fallback: the durable frame is not tried. *)
FallbackHotOnly(j) ==
  /\ job[j].pc = "fallback" /\ ~job[j].fan
  /\ IF hot[job[j].ser].frame # NoFrame THEN JobAnswer(j, "stale", hot[job[j].ser].frame)
     ELSE JobAnswer(j, "error", NoFrame)
  /\ UNCHANGED <<fn, bound, hot, shared, lastGood, creds, leaked, forgot, happened>>

(* The fallback: the hot entry of any age and version, else the durable    *)
(* frame (a second read).                                                  *)
Fallback(j) ==
  /\ job[j].pc = "fallback" /\ ~job[j].fan
  /\ IF hot[job[j].ser].frame # NoFrame THEN JobAnswer(j, "stale", hot[job[j].ser].frame)
     ELSE JobAt(j, "durable")
  /\ UNCHANGED <<fn, bound, hot, shared, lastGood, creds, leaked, forgot, happened>>

(* LastGoodGet for the fallback, serveFrozen and serveLastGood.            *)
LastGoodGet(j) ==
  /\ job[j].pc = "durable"
  /\ LET f == lastGood[job[j].ser] IN JobAnswer(j, IF f = NoFrame THEN "error" ELSE "stale", f)
  /\ UNCHANGED <<fn, bound, hot, shared, lastGood, creds, leaked, forgot, happened>>

Respond(j) ==
  /\ job[j].pc = "answer" /\ ~job[j].fan /\ Set(j, IdleJob)
  /\ UNCHANGED <<fn, bound, hot, shared, lastGood, creds, leaked, forgot, happened>>

-----------------------------------------------------------------------------
(* fanOut, from the scheduler's tick when the interval has elapsed (one at *)
(* a time, on its goroutine) or from a webhook (a goroutine each).         *)

FanStart(j) ==
  /\ job[j].pc = "idle" /\ fn.live /\ fn.on
  /\ (j = Sched /\ fn.mode = "timer") \/ (j \in Job /\ fn.mode = "webhook")
  /\ Set(j, [IdleJob EXCEPT !.pc = "next", !.fan = TRUE, !.ver = fn.ver, !.inv = fn.inv,
                            !.todo = bound])
  /\ UNCHANGED <<fn, bound, hot, shared, lastGood, creds, leaked, forgot, happened>>

(* The next serial: the shared frame if it is fresh, else a render.        *)
FanNext(j, s) ==
  /\ job[j].pc = "next" /\ s \in job[j].todo /\ \A t \in job[j].todo : s <= t
  /\ job' = [job EXCEPT ![j].todo = @ \ {s}, ![j].ser = s,
       ![j].pc = IF SharedHit(j) THEN "stored" ELSE "register",
       ![j].frame = IF SharedHit(j) THEN shared[job[j].ver].frame ELSE NoFrame]
  /\ UNCHANGED <<fn, bound, hot, shared, lastGood, creds, leaked, forgot, happened>>

FanOn(j) == job' = [job EXCEPT ![j].pc = "next", ![j].ser = NoSerial, ![j].frame = NoFrame]

(* A fan-out stores first, and caches only what it has stored.             *)
FanPut(j) ==
  /\ job[j].pc = "stored" /\ job[j].fan
  /\ lastGood' = Stores(job[j].ser, job[j].frame)
  /\ IF fn.live THEN JobAt(j, "seed") ELSE FanOn(j)
  /\ UNCHANGED <<fn, bound, hot, shared, creds, leaked, forgot, happened>>
FanSeed(j) ==
  /\ job[j].pc = "seed"
  /\ hot' = [hot EXCEPT ![job[j].ser] = Entry(j, job[j].frame)]
  /\ Publish(j, job[j].frame)
  /\ FanOn(j)
  /\ UNCHANGED <<fn, bound, lastGood, creds, leaked, forgot, happened>>

(* A render or store that fails is counted and the next serial's turn.     *)
FanSkip(j) ==
  /\ job[j].fan
  /\ \/ job[j].pc = "fallback" /\ UNCHANGED happened
     \/ job[j].pc = "stored" /\ Fault
  /\ FanOn(j)
  /\ UNCHANGED <<fn, bound, hot, shared, lastGood, creds, leaked, forgot>>
FanEnd(j) ==
  /\ job[j].pc = "next" /\ job[j].todo = {} /\ Set(j, IdleJob)
  /\ UNCHANGED <<fn, bound, hot, shared, lastGood, creds, leaked, forgot, happened>>

-----------------------------------------------------------------------------
(* What changes meanwhile. *)

(* PUT /api/functions/{id}: new source, next version. *)
Update ==
  /\ fn.live /\ fn.ver < MaxVer /\ fn' = [fn EXCEPT !.ver = @ + 1]
  /\ UNCHANGED <<bound, hot, shared, lastGood, job, creds, leaked, forgot, happened>>

SetEnabled ==
  /\ Fault
  /\ fn.live /\ fn' = [fn EXCEPT !.on = ~@]
  /\ UNCHANGED <<bound, hot, shared, lastGood, job, creds, leaked, forgot>>

(* DELETE: bindings and last-good rows cascade; the caches do not.         *)
DeleteFunction ==
  /\ Fault
  /\ fn.live /\ fn' = [fn EXCEPT !.live = FALSE]
  /\ bound' = {} /\ lastGood' = [s \in Serial |-> NoFrame]
  /\ job' = [j \in Jobs |-> [job[j] EXCEPT !.had = FALSE]]
  /\ UNCHANGED <<hot, shared, creds, leaked, forgot>>

(* Mutant of DeleteDeviceBindings: the last-good row stays. *)
DeleteDeviceBindingsOnly(s) ==
  /\ Fault /\ s \in bound /\ bound' = bound \ {s}
  /\ UNCHANGED <<fn, hot, shared, lastGood, job, creds, leaked, forgot>>

(* DeleteDeviceBindings: the binding and the last-good row of a serial.    *)
DeleteDeviceBindings(s) ==
  /\ Fault /\ s \in bound
  /\ bound' = bound \ {s} /\ lastGood' = [lastGood EXCEPT ![s] = NoFrame]
  /\ job' = Forget(s)
  /\ forgot' = IF \E j \in Jobs : job[j].ser = s \/ s \in job[j].todo
               THEN forgot \cup {s} ELSE forgot
  /\ UNCHANGED <<fn, hot, shared, creds, leaked>>

(* A TTL elapses. *)
Expire ==
  /\ \E s \in Serial : hot[s].fresh /\ hot' = [hot EXCEPT ![s].fresh = FALSE]
  /\ shared' = [v \in 1..MaxVer |-> [shared[v] EXCEPT !.fresh = FALSE]]
  /\ UNCHANGED <<fn, bound, lastGood, job, creds, leaked, forgot, happened>>
(* The backend restarts: calls and caches are gone, the proxy keeps the    *)
(* credentials that were registered.                                       *)
Restart ==
  /\ Fault
  /\ job' = [j \in Jobs |-> IdleJob] /\ hot' = [s \in Serial |-> Cold]
  /\ shared' = [v \in 1..MaxVer |-> [frame |-> NoFrame, fresh |-> FALSE]]
  /\ leaked' = leaked \cup creds
  /\ UNCHANGED <<fn, bound, lastGood, creds, forgot>>

JobStep(j) == CacheLookup(j) \/ EgressRegister(j) \/ DriveWorker(j) \/ CachePut(j)
              \/ LastGoodPut(j) \/ Fallback(j) \/ LastGoodGet(j) \/ Respond(j)
              \/ (\E s \in Serial : FanNext(j, s)) \/ FanPut(j) \/ FanSeed(j)
              \/ (job[j].pc = "fallback" /\ FanSkip(j)) \/ FanEnd(j)

RdNext ==
  \/ \E j \in Jobs : \/ JobStep(j) \/ FanStart(j) \/ FanSkip(j)
                     \/ UnregisterLost(j) \/ RenderRefused(j) \/ PutFails(j)
                     \/ \E s \in Serial : Request(j, s)
  \/ Update \/ SetEnabled \/ DeleteFunction \/ Expire \/ Restart
  \/ \E s \in Serial : DeleteDeviceBindings(s)

RdSpec == RdInit /\ [][RdNext]_rdVars

-----------------------------------------------------------------------------
(* A frame answered as "ok" is of the version the request loaded, and of   *)
(* the serial unless the function is declared invariant: no edit and no    *)
(* slower render of an older version shows through the caches.             *)
FreshIsCurrent ==
  \A j \in Job : job[j].pc = "answer" /\ job[j].ans = "ok" =>
    job[j].frame.ver = job[j].ver /\ (job[j].frame.ser = job[j].ser \/ job[j].inv)

(* A device that had a good frame when its request began is never shown    *)
(* the error frame, whatever fails, unless it or the function was deleted. *)
NeverBlank == \A j \in Job : job[j].ans = "error" => ~job[j].had

(* The proxy knows a credential only while its render runs, unless an      *)
(* unregister was lost or the backend died in between.                     *)
CredsOfCalls == \A j \in creds \ leaked : job[j].pc = "drive"

(* A last-good row belongs to a bound serial, unless the device was        *)
(* deleted while a render of it was under way: LastGoodPut brings the row  *)
(* back (store.go line 285 has no check).                                  *)
LastGoodOwned == \A s \in Serial : lastGood[s] # NoFrame => s \in bound \cup forgot

\* What a device is shown is current or its last good frame, and a render leaves
\* neither credentials nor rows behind.
FramesSound == FreshIsCurrent /\ NeverBlank /\ CredsOfCalls /\ LastGoodOwned

(* A timer function that is left enabled and alone brings every bound      *)
(* device to its last version, although older fan-outs were under way.     *)
TimerDelivers ==
  <>[](fn.live /\ fn.on /\ fn.mode = "timer" => \A s \in bound : lastGood[s].ver = fn.ver)

-----------------------------------------------------------------------------
(* What the proof of FramesSound rests on.                                 *)

Frame == [ver : 0..MaxVer, ser : Serial \cup {NoSerial}]
Call == [pc : {"idle", "cache", "register", "drive", "stored", "persist", "seed", "fallback",
               "durable", "answer", "next"},
         fan : BOOLEAN, ser : Serial \cup {NoSerial}, ver : 0..MaxVer, inv : BOOLEAN,
         todo : SUBSET Serial, frame : Frame, ans : {"none", "ok", "stale", "error"}, had : BOOLEAN]

RdType ==
  /\ fn \in [ver : 1..MaxVer, on : BOOLEAN, mode : {"sync", "timer", "webhook"}, inv : BOOLEAN,
            live : BOOLEAN]
  /\ bound \subseteq Serial
  /\ hot \in [Serial -> [frame : Frame, key : 0..MaxVer, fresh : BOOLEAN]]
  /\ shared \in [1..MaxVer -> [frame : Frame, fresh : BOOLEAN]]
  /\ lastGood \in [Serial -> Frame] /\ job \in [Jobs -> Call] /\ creds \subseteq Jobs

(* A frame made for serial s by version v, or one all serials may share.   *)
FrameOf(f, s, v) == f.ver = v /\ (f.ser = s \/ fn.inv)

(* The caches hold what their keys say. *)
CacheInv ==
  /\ \A s \in Serial : hot[s].key # 0 => FrameOf(hot[s].frame, s, hot[s].key)
  /\ \A v \in 1..MaxVer : shared[v].fresh => shared[v].frame.ver = v /\ fn.inv

(* What a call holds between its reads and its writes. *)
CallOK(c) ==
  /\ c.pc \in {"cache", "register", "drive", "stored", "persist", "seed"}
       => c.ser \in Serial /\ c.ver \in 1..MaxVer /\ c.inv = fn.inv
  /\ c.pc \in {"fallback", "durable"} => c.ser \in Serial
  /\ c.pc = "next" \/ (c.pc = "fallback" /\ c.fan) => c.ver \in 1..MaxVer /\ c.inv = fn.inv
  /\ c.pc \in {"stored", "persist", "seed"} \/ (c.pc = "answer" /\ c.ans = "ok")
       => FrameOf(c.frame, c.ser, c.ver) /\ c.inv = fn.inv
  /\ c.pc \in {"next", "seed"} => c.fan
  /\ c.fan => ~c.had
  /\ c.had => c.ser \in Serial /\ lastGood[c.ser] # NoFrame /\ c.ans # "error"
CallInv == \A j \in Jobs : CallOK(job[j])

(* While the function lives, a call is under way only for serials that are *)
(* bound or were deleted under it. *)
CallOwned(c) == /\ c.ser # NoSerial => c.ser \in bound \cup forgot
                /\ c.todo \subseteq bound \cup forgot
OwnedInv == LastGoodOwned /\ (fn.live => \A j \in Jobs : CallOwned(job[j]))

RdInv == RdType /\ CacheInv /\ CallInv /\ CredsOfCalls /\ OwnedInv
=============================================================================
