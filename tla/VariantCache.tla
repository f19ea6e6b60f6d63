----------------------------- MODULE VariantCache -----------------------------
(***************************************************************************)
(* Packed playlist images: the single flight and packedVariant of          *)
(* faascore/playlistframe.go, the variant cache of plrender, its GC, and   *)
(* the warmer of faascore/warm.go that packs a changed playlist before it  *)
(* wakes the devices.                                                      *)
(* A key stands for (sha256, fit, dither); pixels are left out.  A call    *)
(* object of the single flight is its leader and its result; every read,   *)
(* render and write of the leader is a step.                               *)
(***************************************************************************)
EXTENDS Integers, FiniteSets

CONSTANTS Key,       \* variants
          Caller,    \* concurrent frame requests
          Warmer,    \* goroutines of the warmer: one per semaphore slot
          MaxEvents  \* bound on edits, evictions, faults and disconnects

NoOne == "no one"
NoKey == "no key"

ASSUME VcAssumption == NoOne \notin Caller \cup Warmer /\ Caller \cap Warmer = {}

VARIABLES
  vcache,   \* keys in frame_variant_cache
  flight,   \* Key -> [leader, res]: singleFlight.calls
  caller,   \* Caller \cup Warmer -> [pc, k, res]
  gone,     \* requests whose client has disconnected (ctx cancelled)
  items,    \* the variants the playlist refers to
  listener, \* [pc, todo, asked]: the warmer's LISTEN loop
  notes,    \* notifications queued on its connection
  owed,     \* committed edits whose handler has not called notify yet
  dirty,    \* an edit no refresh has followed yet
  deaf,     \* a notification or a refresh was lost with an error
  bad,      \* variants that failed or were evicted since the warm began, or
            \* evicted before that under a call that has not left the flight
  drives,   \* history: worker renders of a key
  excuse,   \* history: reasons to render a key again
  events

vcVars == <<vcache, flight, caller, gone, items, listener, notes, owed, dirty, deaf,
            bad, drives, excuse, events>>
wVars == <<items, listener, notes, owed, dirty, deaf>>

Anyone == Caller \cup Warmer
NoFlight == [leader |-> NoOne, res |-> "open"]
IdleCaller == [pc |-> "idle", k |-> NoKey, res |-> "none"]
IdleListener == [pc |-> "down", todo |-> {}, asked |-> {}]

VcInit ==
  /\ vcache = {} /\ flight = [k \in Key |-> NoFlight]
  /\ caller = [c \in Anyone |-> IdleCaller] /\ gone = {}
  /\ items = Key /\ listener = IdleListener
  /\ notes = 0 /\ owed = 0 /\ dirty = FALSE /\ deaf = FALSE /\ bad = {}
  /\ drives = [k \in Key |-> 0] /\ excuse = [k \in Key |-> 0] /\ events = 0

Event == events < MaxEvents /\ events' = events + 1
CallerAt(c, pc) == caller' = [caller EXCEPT ![c].pc = pc]
Result(c, pc, res) == caller' = [caller EXCEPT ![c].pc = pc, ![c].res = res]

-----------------------------------------------------------------------------
(* packedVariant. *)

Begin(c, k) ==
  /\ c \in Caller /\ caller[c].pc = "idle" /\ k \in items
  /\ caller' = [caller EXCEPT ![c] = [pc |-> "get", k |-> k, res |-> "none"]]
  /\ UNCHANGED <<vcache, flight, gone, wVars, bad, drives, excuse, events>>

(* VariantGet: a hit is the answer, a miss goes to the single flight.      *)
VariantGet(c) ==
  /\ caller[c].pc = "get"
  /\ IF caller[c].k \in vcache /\ c \notin gone THEN Result(c, "answer", "ok")
     ELSE CallerAt(c, "enter")
  /\ UNCHANGED <<vcache, flight, gone, wVars, bad, drives, excuse, events>>

(* singleFlight.do: lead, wait for the call that is there, or take its     *)
(* result when it has one.                                                 *)
Enter(c) ==
  /\ caller[c].pc = "enter"
  /\ LET f == flight[caller[c].k] IN
     IF f.leader = NoOne
     THEN /\ flight' = [flight EXCEPT ![caller[c].k] = [leader |-> c, res |-> "open"]]
          /\ CallerAt(c, "recheck")
     ELSE /\ UNCHANGED flight
          /\ IF f.res = "open" THEN CallerAt(c, "wait") ELSE Result(c, "answer", f.res)
  /\ UNCHANGED <<vcache, gone, wVars, bad, drives, excuse, events>>

(* Mutant of Recheck: the leader does not look again. *)
RecheckNot(c) ==
  /\ caller[c].pc = "recheck" /\ CallerAt(c, "load")
  /\ UNCHANGED <<vcache, flight, gone, wVars, bad, drives, excuse, events>>

(* The leader looks again: another may have led and finished since its     *)
(* miss.                                                                   *)
Recheck(c) ==
  /\ caller[c].pc = "recheck"
  /\ IF caller[c].k \in vcache /\ c \notin gone THEN Result(c, "close", "ok")
     ELSE CallerAt(c, "load")
  /\ UNCHANGED <<vcache, flight, gone, wVars, bad, drives, excuse, events>>

(* A query that fails reads as a miss. *)
Miss(c) ==
  /\ Event /\ caller[c].pc \in {"get", "recheck"}
  /\ excuse' = [excuse EXCEPT ![caller[c].k] = @ + 1]
  /\ CallerAt(c, IF caller[c].pc = "get" THEN "enter" ELSE "load")
  /\ UNCHANGED <<vcache, flight, gone, wVars, bad, drives>>

(* LoadBlob, with the leader's context. *)
LoadBlob(c) ==
  /\ caller[c].pc = "load"
  /\ IF c \in gone THEN Result(c, "close", "err") ELSE CallerAt(c, "render")
  /\ UNCHANGED <<vcache, flight, gone, wVars, bad, drives, excuse, events>>

(* renderPlaylist drives the worker and does not look at the context.      *)
RenderVariant(c) ==
  /\ caller[c].pc = "render"
  /\ drives' = [drives EXCEPT ![caller[c].k] = @ + 1]
  /\ CallerAt(c, "put")
  /\ UNCHANGED <<vcache, flight, gone, wVars, bad, excuse, events>>

(* VariantPut, with the leader's context: the frame of a request that is   *)
(* gone is thrown away.                                                    *)
VariantPut(c) ==
  /\ caller[c].pc = "put"
  /\ IF c \in gone
     THEN /\ Result(c, "close", "err") /\ UNCHANGED vcache
          /\ excuse' = [excuse EXCEPT ![caller[c].k] = @ + 1]
     ELSE /\ vcache' = vcache \cup {caller[c].k} /\ Result(c, "close", "ok")
          /\ UNCHANGED excuse
  /\ UNCHANGED <<flight, gone, wVars, bad, drives, events>>

(* The blob is missing, the worker fails or the insert does. *)
LeaderFails(c) ==
  /\ Event /\ caller[c].pc \in {"load", "render", "put"}
  /\ excuse' = [excuse EXCEPT ![caller[c].k] = @ + 1]
  /\ Result(c, "close", "err")
  /\ UNCHANGED <<vcache, flight, gone, wVars, bad, drives>>

(* Mutant of Close: the waiters are not woken. *)
CloseSilent(c) ==
  /\ caller[c].pc = "close"
  /\ flight' = [flight EXCEPT ![caller[c].k].res = caller[c].res]
  /\ CallerAt(c, "delete")
  /\ UNCHANGED <<vcache, gone, wVars, bad, drives, excuse, events>>

(* close(done): everyone who waits has the leader's result ...             *)
Close(c) ==
  /\ caller[c].pc = "close"
  /\ flight' = [flight EXCEPT ![caller[c].k].res = caller[c].res]
  /\ caller' = [d \in Anyone |->
       IF d = c THEN [caller[c] EXCEPT !.pc = "delete"]
       ELSE IF caller[d].pc = "wait" /\ caller[d].k = caller[c].k
         THEN [caller[d] EXCEPT !.pc = "answer", !.res = caller[c].res]
         ELSE caller[d]]
  /\ UNCHANGED <<vcache, gone, wVars, bad, drives, excuse, events>>

(* ... then the call leaves the map. *)
DeleteCall(c) ==
  /\ caller[c].pc = "delete"
  /\ flight' = [flight EXCEPT ![caller[c].k] = NoFlight]
  /\ CallerAt(c, "answer")
  /\ UNCHANGED <<vcache, gone, wVars, bad, drives, excuse, events>>

AnswerVariant(c) ==
  /\ caller[c].pc = "answer"
  /\ caller' = [caller EXCEPT ![c] = IdleCaller]
  /\ gone' = gone \ {c}
  /\ bad' = IF c \in Warmer /\ caller[c].res = "err" THEN bad \cup {caller[c].k} ELSE bad
  /\ UNCHANGED <<vcache, flight, wVars, drives, excuse, events>>

(* The client of a request goes away. *)
Disconnect(c) ==
  /\ Event /\ c \in Caller \ gone /\ caller[c].pc # "idle"
  /\ gone' = gone \cup {c}
  /\ UNCHANGED <<vcache, flight, caller, wVars, bad, drives, excuse>>

(* GCVariantCache: variants no playlist item refers to. *)
GCVariantCache ==
  /\ Event /\ ~(vcache \subseteq items)
  /\ vcache' = vcache \cap items
  /\ excuse' = [k \in Key |-> IF k \in vcache \ items THEN excuse[k] + 1 ELSE excuse[k]]
  /\ bad' = bad \cup (vcache \ items)
  /\ UNCHANGED <<flight, caller, gone, wVars, drives>>

-----------------------------------------------------------------------------
(* The warmer. *)

(* An edit commits ...                                                     *)
ChangeItems(S) ==
  /\ Event /\ S # items
  /\ items' = S /\ dirty' = TRUE /\ owed' = owed + 1
  /\ UNCHANGED <<vcache, flight, caller, gone, listener, notes, deaf, bad, drives, excuse>>

(* ... then its handler notifies whoever listens now ...                   *)
NotifyPlaylistChanged ==
  /\ owed > 0 /\ owed' = owed - 1
  /\ notes' = IF listener.pc = "down" THEN notes ELSE notes + 1
  /\ deaf' = (deaf \/ listener.pc = "down")
  /\ UNCHANGED <<vcache, flight, caller, gone, items, listener, dirty, bad, drives, excuse, events>>

(* ... and ignores an error: its client has gone, or it died in between.   *)
NotifyFails ==
  /\ Event /\ owed > 0 /\ owed' = owed - 1 /\ deaf' = TRUE
  /\ UNCHANGED <<vcache, flight, caller, gone, items, listener, notes, dirty, bad, drives, excuse>>

ListenPlaylist ==
  /\ listener.pc = "down" /\ listener' = [IdleListener EXCEPT !.pc = "wait"]
  /\ UNCHANGED <<vcache, flight, caller, gone, items, notes, owed, dirty, deaf, bad, drives, excuse, events>>

(* WaitForNotification, then the distinct variants of the playlist.        *)
Notified ==
  /\ listener.pc = "wait" /\ notes > 0
  /\ notes' = notes - 1
  /\ bad' = {k \in bad : flight[k].leader # NoOne}
  /\ listener' = [pc |-> "warm", todo |-> items, asked |-> items]
  /\ UNCHANGED <<vcache, flight, caller, gone, items, owed, dirty, deaf, drives, excuse, events>>

(* A slot of the semaphore is free. *)
WarmSpawn(w, k) ==
  /\ listener.pc = "warm" /\ k \in listener.todo /\ caller[w].pc = "idle"
  /\ listener' = [listener EXCEPT !.todo = @ \ {k}]
  /\ caller' = [caller EXCEPT ![w] = [pc |-> "get", k |-> k, res |-> "none"]]
  /\ UNCHANGED <<vcache, flight, gone, items, notes, owed, dirty, deaf, bad, drives, excuse, events>>

(* Mutant of WarmWait: the goroutines are not waited for. *)
WarmWaitNot ==
  /\ listener.pc = "warm" /\ listener.todo = {}
  /\ listener' = [listener EXCEPT !.pc = "enqueue"]
  /\ UNCHANGED <<vcache, flight, caller, gone, items, notes, owed, dirty, deaf, bad, drives, excuse, events>>

(* wg.Wait. *)
WarmWait ==
  /\ listener.pc = "warm" /\ listener.todo = {}
  /\ \A w \in Warmer : caller[w].pc = "idle"
  /\ listener' = [listener EXCEPT !.pc = "enqueue"]
  /\ UNCHANGED <<vcache, flight, caller, gone, items, notes, owed, dirty, deaf, bad, drives, excuse, events>>

(* Mutant of EnqueueRefresh: the queue is emptied with one refresh, which  *)
(* is sent before the last edit. *)
EnqueueRefreshDrains ==
  /\ listener.pc = "enqueue"
  /\ notes' = 0 /\ dirty' = (notes > 0)
  /\ listener' = [IdleListener EXCEPT !.pc = "wait"]
  /\ UNCHANGED <<vcache, flight, caller, gone, items, owed, deaf, bad, drives, excuse, events>>

(* EnqueuePlaylistRefresh: the devices fetch what is current by then.      *)
EnqueueRefresh ==
  /\ listener.pc = "enqueue"
  /\ dirty' = FALSE
  /\ listener' = [IdleListener EXCEPT !.pc = "wait"]
  /\ UNCHANGED <<vcache, flight, caller, gone, items, notes, owed, deaf, bad, drives, excuse, events>>

(* The insert fails and is only logged, or the LISTEN connection breaks    *)
(* and what was queued on it is lost.                                      *)
EnqueueFails ==
  /\ Event /\ listener.pc = "enqueue" /\ deaf' = TRUE
  /\ listener' = [IdleListener EXCEPT !.pc = "wait"]
  /\ UNCHANGED <<vcache, flight, caller, gone, items, notes, owed, dirty, bad, drives, excuse>>
ListenBreaks ==
  /\ Event /\ listener.pc = "wait" /\ listener' = IdleListener
  /\ notes' = 0 /\ deaf' = (deaf \/ notes > 0)
  /\ UNCHANGED <<vcache, flight, caller, gone, items, owed, dirty, bad, drives, excuse>>

CallerStep(c) == VariantGet(c) \/ Enter(c) \/ Recheck(c) \/ LoadBlob(c) \/ RenderVariant(c)
                 \/ VariantPut(c) \/ Close(c) \/ DeleteCall(c) \/ AnswerVariant(c)
ListenerStep == ListenPlaylist \/ Notified \/ WarmWait \/ EnqueueRefresh
                \/ \E w \in Warmer, k \in Key : WarmSpawn(w, k)

VcNext ==
  \/ \E c \in Anyone : \/ CallerStep(c) \/ Miss(c) \/ LeaderFails(c) \/ Disconnect(c)
                       \/ \E k \in Key : Begin(c, k)
  \/ GCVariantCache \/ (\E S \in SUBSET Key : ChangeItems(S))
  \/ ListenerStep \/ NotifyPlaylistChanged \/ NotifyFails \/ EnqueueFails \/ ListenBreaks

VcSpec == VcInit /\ [][VcNext]_vcVars

-----------------------------------------------------------------------------
(* A call in flight is led by a caller that will end it, and whoever waits *)
(* waits on such a call: a waiter without one would wait for ever.         *)
FlightLed ==
  /\ \A k \in Key : flight[k].leader # NoOne =>
       /\ caller[flight[k].leader].k = k
       /\ caller[flight[k].leader].pc \in {"recheck", "load", "render", "put", "close", "delete"}
  /\ \A c \in Anyone : caller[c].pc = "wait" => flight[caller[c].k].res = "open"
                                                /\ flight[caller[c].k].leader # NoOne

(* Pack once, serve N: however many requests and warmers miss at the same  *)
(* time, a variant is rendered again only when a render or its insert      *)
(* failed, a query failed, the leader's client left, or it was evicted.    *)
PackOnce == \A k \in Key : drives[k] <= 1 + excuse[k]

(* An edit whose notification arrived is followed by a refresh: it is      *)
(* queued, or the warmer is at work, until then.                           *)
NoLostRefresh == dirty /\ ~deaf => owed + notes > 0 \/ listener.pc \in {"warm", "enqueue"}

(* Warm, then wake: when the devices are told, every variant the playlist  *)
(* had at the notification is packed, has failed or was evicted (a call    *)
(* that has its result but is not out of the map yet still answers "ok").  *)
WarmBeforeWake == EnqueueRefresh => listener.asked \subseteq vcache \cup bad

(* Nobody waits for ever on a flight, and the refresh does come. *)
RequestsAnswered == \A c \in Caller : caller[c].pc # "idle" ~> caller[c].pc = "idle"
RefreshFollows == dirty ~> (~dirty \/ deaf)

\* Single flight keeps its promises, no refresh is forgotten, and devices are woken
\* for frames that are packed.
VariantStep == FlightLed' /\ PackOnce' /\ NoLostRefresh' /\ WarmBeforeWake
VariantsSound == [][VariantStep]_vcVars

-----------------------------------------------------------------------------
(* What the proof of VariantsSound rests on.                               *)

Leading == {"recheck", "load", "render", "put", "close", "delete"}

Packing == [pc : {"idle", "get", "enter", "wait", "answer"} \cup Leading, k : Key \cup {NoKey},
            res : {"none", "ok", "err"}]

VcType ==
  /\ flight \in [Key -> [leader : Anyone \cup {NoOne}, res : {"open", "ok", "err"}]]
  /\ caller \in [Anyone -> Packing]
  /\ \A c \in Anyone : /\ caller[c].pc # "idle" => caller[c].k \in Key
                       /\ caller[c].pc \in {"close", "delete", "answer"} => caller[c].res # "none"
  /\ items \subseteq Key
  /\ listener \in [pc : {"down", "wait", "warm", "enqueue"}, todo : SUBSET Key, asked : SUBSET Key]
  /\ notes \in Nat /\ owed \in Nat /\ dirty \in BOOLEAN /\ deaf \in BOOLEAN
  /\ drives \in [Key -> Nat] /\ excuse \in [Key -> Nat]

(* The call in the map and the caller that leads it know of each other;    *)
(* the call has its result from close(done) on, and none waits from then.  *)
FlightInv ==
  /\ \A k \in Key : flight[k].leader # NoOne =>
       LET l == caller[flight[k].leader] IN
       /\ l.k = k /\ l.pc \in Leading
       /\ flight[k].res = IF l.pc = "delete" THEN l.res ELSE "open"
  /\ \A c \in Anyone :
       /\ caller[c].pc \in Leading => flight[caller[c].k].leader = c
       /\ caller[c].pc = "wait" => flight[caller[c].k].leader # NoOne
                                   /\ flight[caller[c].k].res = "open"

(* A variant that is neither cached nor about to be, or whose leader is    *)
(* about to render it, has an excuse for every render so far.              *)
Paid(k) == drives[k] <= excuse[k]
PackInv ==
  /\ \A k \in Key : /\ drives[k] <= excuse[k] + 1
                    /\ k \in vcache \/ Paid(k)
                       \/ \E c \in Anyone : caller[c].pc = "put" /\ caller[c].k = k
  /\ \A c \in Anyone : caller[c].pc = "render" \/ (caller[c].pc = "load" /\ c \notin gone)
                       => Paid(caller[c].k)

(* Who holds an "ok" holds it for a variant that is packed or was evicted  *)
(* since; the warmer's goroutines run between the notification and         *)
(* wg.Wait only, and one of them is at each variant that is not settled.   *)
WarmInv ==
  /\ listener.pc # "warm" => \A w \in Warmer : caller[w].pc = "idle"
  /\ \A c \in Anyone : /\ caller[c].res = "ok"
                       /\ caller[c].pc \in {"close", "delete"} \/ (c \in Warmer /\ caller[c].pc = "answer")
                       => caller[c].k \in vcache \cup bad
  /\ listener.pc = "warm" => \A k \in listener.asked \ listener.todo :
       k \in vcache \cup bad \/ \E w \in Warmer : caller[w].pc # "idle" /\ caller[w].k = k
  /\ listener.pc = "enqueue" => listener.asked \subseteq vcache \cup bad

VcInv == VcType /\ FlightInv /\ PackInv /\ WarmInv /\ NoLostRefresh
=============================================================================
