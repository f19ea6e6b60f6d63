------------------------------ MODULE AdminAuth ------------------------------
(***************************************************************************)
(* Who may call the admin API, and for how long: internal/adminhttp (Auth, *)
(* basicauth), adminsession, apitoken, adminuser, operator, the handlers   *)
(* auth_http.go and token_http.go, operatorcli.go, and the re-check of an  *)
(* open event stream in events.go.                                         *)
(* A query is a step; a password check is two, the query and the long      *)
(* argon2 run after it.  Secrets are right or absent: a wrong one is       *)
(* refused like an unknown one.  A refused operator bearer also stands for *)
(* one that came over the public listener.  Time is a counter.             *)
(***************************************************************************)
EXTENDS Integers, Sequences, FiniteSets, Lru

CONSTANTS User, Rq,
          TTL,       \* of a cached Basic success
          Life,      \* of a session
          Grace,     \* of a rotated operator key
          Reauth,    \* interval of a stream's re-check
          Slots,     \* concurrent argon2 runs
          CacheMax,
          MaxKeys,   \* bound on operator keys and on API tokens
          MaxTime, MaxOps  \* bounds on the clock and on operator commands

(* newBasicCache, argon2ParallelFromEnv: at least one entry and one slot. *)
ASSUME AuthAssumption ==
  /\ IsFiniteSet(Rq) /\ TTL \in Nat /\ Life \in Nat /\ Grace \in Nat /\ Reauth \in Nat
  /\ Slots \in Nat \ {0} /\ CacheMax \in Nat \ {0} /\ MaxKeys \in Nat \ {0}

Keys == 1..MaxKeys
NoUser == "nobody"
Carrier == {"operator", "bearer", "session", "basic"}

VARIABLES
  now,
  users,   \* User -> [on, off]: enabled, and when last disabled
  sess,    \* User -> [live, exp]
  okeys,   \* Keys -> [st, exp, off, succ]: state, expiry (0: none), when
           \* disabled, successor minted
  toks,    \* Keys -> [st, shown, logged]: row, plaintext shown, mint audited
  cache,   \* Basic successes, most recent first: [u, exp, over]
  slots,   \* argon2 slots taken
  rq,      \* Rq -> a request in the handler chain
  stream,  \* an open event stream and its carrier
  cli,     \* a rotation past its first query
  ops,
  use      \* the carriers this behaviour exercises: accounts, or keys and the
           \* tokens they mint; they meet nowhere but in the one stream

authVars == <<now, users, sess, okeys, toks, cache, slots, rq, stream, cli, ops, use>>

IdleRq == [pc |-> "idle", kind |-> "none", u |-> NoUser, k |-> 0, on |-> FALSE, ok |-> FALSE]
NoStream == [kind |-> "none", u |-> NoUser, k |-> 0, due |-> 0, from |-> 0]

AuthInit ==
  /\ use \in {{"session", "basic"}, {"operator", "bearer"}}
  /\ now = 1 /\ ops = 0 /\ slots = 0 /\ cache = <<>> /\ cli = 0
  /\ users = [u \in User |-> [on |-> TRUE, off |-> 0]]
  /\ sess = [u \in User |-> [live |-> FALSE, exp |-> 0]]
  /\ okeys = [k \in Keys |-> [st |-> IF k = 1 THEN "live" ELSE "none", exp |-> 0, off |-> 0, succ |-> 0]]
  /\ toks = [k \in Keys |-> [st |-> "none", shown |-> FALSE, logged |-> FALSE]]
  /\ rq = [r \in Rq |-> IdleRq] /\ stream = NoStream

Commanded == ops < MaxOps /\ ops' = ops + 1
Goto(r, pc) == rq' = [rq EXCEPT ![r].pc = pc]
Done(r) == rq' = [rq EXCEPT ![r] = IdleRq]
Excuse(u) == [r \in Rq |-> IF rq[r].u = u THEN [rq[r] EXCEPT !.ok = TRUE] ELSE rq[r]]
FreeIn(rows) == {k \in Keys : rows[k].st = "none"}
Next1(rows) == CHOOSE k \in FreeIn(rows) : TRUE

-----------------------------------------------------------------------------
(* What the stores accept now. *)

\* operator.Authenticate
KeyValid(k) == okeys[k].st = "live" /\ (okeys[k].exp = 0 \/ okeys[k].exp > now)
\* apitoken.Resolve
TokenValid(k) == toks[k].st = "live"
\* adminsession.Resolve
SessionValid(u) == sess[u].live /\ sess[u].exp > now

Valid(kind, u, k) ==
  CASE kind = "operator" -> KeyValid(k)
    [] kind = "bearer"   -> TokenValid(k)
    [] kind = "session"  -> SessionValid(u) /\ users[u].on
    [] kind = "basic"    -> users[u].on

-----------------------------------------------------------------------------
(* Auth: one request, by carrier. *)

Arrive(r, kind, u, k) ==
  /\ rq[r].pc = "idle"
  /\ kind \in use
  /\ kind = "operator" => okeys[k].st # "none"
  /\ kind = "bearer" => toks[k].shown
  /\ rq' = [rq EXCEPT ![r] = [pc |-> "auth", kind |-> kind, u |-> u, k |-> k,
                              on |-> FALSE, ok |-> Valid(kind, u, k)]]
  /\ UNCHANGED <<now, users, sess, okeys, toks, cache, slots, stream, cli, ops, use>>

ResolveBearer(r) ==
  /\ rq[r].pc = "auth" /\ rq[r].kind \in {"bearer", "operator"}
  /\ Goto(r, IF Valid(rq[r].kind, rq[r].u, rq[r].k) THEN "in" ELSE "refused")
  /\ UNCHANGED <<now, users, sess, okeys, toks, cache, slots, stream, cli, ops, use>>

ResolveSession(r) ==
  /\ rq[r].pc = "auth" /\ rq[r].kind = "session"
  /\ Goto(r, IF SessionValid(rq[r].u) THEN "user" ELSE "refused")
  /\ UNCHANGED <<now, users, sess, okeys, toks, cache, slots, stream, cli, ops, use>>

(* Mutant of SessionUser: the account behind the session is not looked at. *)
SessionUserUnchecked(r) ==
  /\ rq[r].pc = "user" /\ Goto(r, "in")
  /\ UNCHANGED <<now, users, sess, okeys, toks, cache, slots, stream, cli, ops, use>>

SessionUser(r) ==
  /\ rq[r].pc = "user"
  /\ Goto(r, IF users[rq[r].u].on THEN "in" ELSE "refused")
  /\ UNCHANGED <<now, users, sess, okeys, toks, cache, slots, stream, cli, ops, use>>

Entry(u) == {i \in DOMAIN cache : cache[i].u = u}
EntryOf(u) == CHOOSE i \in Entry(u) : TRUE

(* Mutant of Get: a hit renews the entry. *)
GetRenews(u) ==
  IF Entry(u) = {} THEN cache
  ELSE IF now > cache[EntryOf(u)].exp THEN Remove(cache, EntryOf(u))
  ELSE MoveToFront(cache, EntryOf(u), [cache[EntryOf(u)] EXCEPT !.exp = now + TTL])

(* basicCache.get: an expired entry goes, a hit moves to the front.        *)
Get(u) ==
  IF Entry(u) = {} THEN cache
  ELSE IF now > cache[EntryOf(u)].exp THEN Remove(cache, EntryOf(u))
  ELSE MoveToFront(cache, EntryOf(u), cache[EntryOf(u)])

(* basicCache.put: renewed and moved, or pushed to the front and the       *)
(* oldest evicted.                                                         *)
Put(u, over) ==
  LET e == [u |-> u, exp |-> now + TTL, over |-> over] IN
  IF Entry(u) = {} THEN Capped(PushFront(cache, e), CacheMax) ELSE MoveToFront(cache, EntryOf(u), e)

BasicGet(r) ==
  /\ rq[r].pc = "auth" /\ rq[r].kind = "basic"
  /\ cache' = Get(rq[r].u)
  /\ Goto(r, IF \E e \in Entry(rq[r].u) : now <= cache[e].exp THEN "in" ELSE "slot")
  /\ UNCHANGED <<now, users, sess, okeys, toks, slots, stream, cli, ops, use>>

(* POST /api/session shares the slots and the check. *)
Login(r, u) ==
  /\ rq[r].pc = "idle" /\ "session" \in use
  /\ rq' = [rq EXCEPT ![r] = [IdleRq EXCEPT !.pc = "slot", !.kind = "login", !.u = u]]
  /\ UNCHANGED <<now, users, sess, okeys, toks, cache, slots, stream, cli, ops, use>>

(* TryAcquireArgon2, never queued: 429 or a slot and Verify's query.       *)
TryAcquireArgon2(r) ==
  /\ rq[r].pc = "slot"
  /\ IF slots < Slots
     THEN /\ slots' = slots + 1
          /\ rq' = [rq EXCEPT ![r].pc = "hash", ![r].on = users[rq[r].u].on]
     ELSE Goto(r, "refused") /\ UNCHANGED slots
  /\ UNCHANGED <<now, users, sess, okeys, toks, cache, stream, cli, ops, use>>

(* argon2 ends: the account is judged by the row read before it ran.       *)
VerifyBasic(r) ==
  /\ rq[r].pc = "hash" /\ rq[r].kind = "basic"
  /\ cache' = IF rq[r].on THEN Put(rq[r].u, ~users[rq[r].u].on) ELSE cache
  /\ slots' = slots - 1
  /\ Goto(r, IF rq[r].on THEN "in" ELSE "refused")
  /\ UNCHANGED <<now, users, sess, okeys, toks, stream, cli, ops, use>>

(* Mutant of VerifyLogin: the slot of a failed check is kept. *)
VerifyLoginKeeps(r) ==
  /\ rq[r].pc = "hash" /\ rq[r].kind = "login"
  /\ slots' = IF rq[r].on THEN slots - 1 ELSE slots
  /\ Goto(r, IF rq[r].on THEN "create" ELSE "refused")
  /\ UNCHANGED <<now, users, sess, okeys, toks, cache, stream, cli, ops, use>>

VerifyLogin(r) ==
  /\ rq[r].pc = "hash" /\ rq[r].kind = "login"
  /\ slots' = slots - 1
  /\ Goto(r, IF rq[r].on THEN "create" ELSE "refused")
  /\ UNCHANGED <<now, users, sess, okeys, toks, cache, stream, cli, ops, use>>

(* adminsession.Create; the audit row's error is ignored. *)
CreateSession(r) ==
  /\ rq[r].pc = "create"
  /\ sess' = [sess EXCEPT ![rq[r].u] = [live |-> TRUE, exp |-> now + Life]]
  /\ rq' = [Excuse(rq[r].u) EXCEPT ![r] = IdleRq]
  /\ UNCHANGED <<now, users, okeys, toks, cache, slots, stream, cli, ops, use>>

(* 401 or 429; a failed Basic check is audited.  Also an error of any of   *)
(* the queries, which is a 500.                                            *)
Refuse(r) ==
  /\ rq[r].pc = "refused" /\ Done(r)
  /\ UNCHANGED <<now, users, sess, okeys, toks, cache, slots, stream, cli, ops, use>>

-----------------------------------------------------------------------------
(* What an admitted request may do here: log out, mint, revoke, listen.    *)

Serve(r) ==
  /\ rq[r].pc = "in" /\ Done(r)
  /\ UNCHANGED <<now, users, sess, okeys, toks, cache, slots, stream, cli, ops, use>>

Logout(r) ==
  /\ rq[r].pc = "in" /\ rq[r].kind = "session"
  /\ sess' = [sess EXCEPT ![rq[r].u].live = FALSE]
  /\ Done(r)
  /\ UNCHANGED <<now, users, okeys, toks, cache, slots, stream, cli, ops, use>>

(* token mint: apitoken.Create commits ... *)
CreateToken(r) ==
  /\ Commanded /\ "bearer" \in use /\ rq[r].pc = "in" /\ rq[r].kind # "bearer" /\ FreeIn(toks) # {}
  /\ toks' = [toks EXCEPT ![Next1(toks)].st = "live"]
  /\ rq' = [rq EXCEPT ![r].pc = "audit", ![r].k = Next1(toks)]
  /\ UNCHANGED <<now, users, sess, okeys, cache, slots, stream, cli, use>>

(* Mutant of Mint: the audit's error is ignored, as the CLI does. *)
MintAnyway(r, written) ==
  /\ rq[r].pc = "audit"
  /\ toks' = [toks EXCEPT ![rq[r].k].shown = TRUE, ![rq[r].k].logged = written]
  /\ Done(r)
  /\ UNCHANGED <<now, users, sess, okeys, cache, slots, stream, cli, ops, use>>

(* ... and the plaintext is shown only if the audit row was written too.   *)
Mint(r, written) ==
  /\ rq[r].pc = "audit"
  /\ toks' = [toks EXCEPT ![rq[r].k].shown = written, ![rq[r].k].logged = written]
  /\ Done(r)
  /\ UNCHANGED <<now, users, sess, okeys, cache, slots, stream, cli, ops, use>>

(* token revoke; its audit row may fail after the fact. *)
Revoke(r, k) ==
  /\ Commanded /\ rq[r].pc = "in" /\ rq[r].kind # "bearer" /\ toks[k].st = "live"
  /\ toks' = [toks EXCEPT ![k].st = "off"]
  /\ Done(r)
  /\ UNCHANGED <<now, users, sess, okeys, cache, slots, stream, cli, use>>

(* GET /api/events. *)
OpenStream(r) ==
  /\ rq[r].pc = "in" /\ stream = NoStream
  /\ stream' = [kind |-> rq[r].kind, u |-> rq[r].u, k |-> rq[r].k, due |-> now + Reauth,
                from |-> now]
  /\ Done(r)
  /\ UNCHANGED <<now, users, sess, okeys, toks, cache, slots, cli, ops, use>>

(* bearerToken(r) and operator.Authenticate: only an operator key passes.  *)
StillValid(s) == s.kind = "operator" /\ KeyValid(s.k)

(* Mutant of ReauthStream: a failed re-check is taken for a hiccup. *)
ReauthStreamLenient ==
  /\ stream.kind # "none" /\ now >= stream.due
  /\ stream' = [stream EXCEPT !.due = now + Reauth]
  /\ UNCHANGED <<now, users, sess, okeys, toks, cache, slots, rq, cli, ops, use>>

ReauthStream ==
  /\ stream.kind # "none" /\ now >= stream.due
  /\ stream' = IF StillValid(stream) THEN [stream EXCEPT !.due = now + Reauth] ELSE NoStream
  /\ UNCHANGED <<now, users, sess, okeys, toks, cache, slots, rq, cli, ops, use>>

CloseStream ==
  /\ stream.kind # "none" /\ stream' = NoStream
  /\ UNCHANGED <<now, users, sess, okeys, toks, cache, slots, rq, cli, ops, use>>

-----------------------------------------------------------------------------
(* The CLI and the background.                                           *)

(* adminuser.SetDisabled: a request under way may have read either state.  *)
SetDisabled(u, off) ==
  /\ Commanded /\ "session" \in use /\ users[u].on = off
  /\ users' = [users EXCEPT ![u] = [on |-> ~off, off |-> IF off THEN now ELSE @.off]]
  /\ rq' = IF off THEN rq ELSE Excuse(u)
  /\ UNCHANGED <<now, sess, okeys, toks, cache, slots, stream, cli, use>>

DisableOperator(k) ==
  /\ Commanded /\ "operator" \in use /\ okeys[k].st = "live"
  /\ okeys' = [okeys EXCEPT ![k].st = "off", ![k].off = now]
  /\ UNCHANGED <<now, users, sess, toks, cache, slots, rq, stream, cli, use>>

(* rotateOperatorKey: a revoked key is refused by the first query ...      *)
RotateCheck(k) ==
  /\ Commanded /\ "operator" \in use /\ cli = 0 /\ okeys[k].st = "live" /\ FreeIn(okeys) # {}
  /\ cli' = k
  /\ UNCHANGED <<now, users, sess, okeys, toks, cache, slots, rq, stream, use>>

(* Mutant of RotateCommit: the old key is stamped, the insert has failed.  *)
RotateCommitStampOnly ==
  /\ cli # 0
  /\ okeys' = [okeys EXCEPT ![cli].exp = now + Grace]
  /\ cli' = 0
  /\ UNCHANGED <<now, users, sess, toks, cache, slots, rq, stream, ops, use>>

(* ... and one transaction inserts the successor and stamps the old one.   *)
RotateCommit ==
  /\ cli # 0
  /\ okeys' = [okeys EXCEPT ![Next1(okeys)].st = "live",
                            ![cli].exp = now + Grace, ![cli].succ = Next1(okeys)]
  /\ cli' = 0
  /\ UNCHANGED <<now, users, sess, toks, cache, slots, rq, stream, ops, use>>

(* adminsession.Cleanup. *)
Cleanup ==
  /\ \E u \in User : sess[u].live /\ sess[u].exp < now
  /\ sess' = [u \in User |-> IF sess[u].exp < now THEN [sess[u] EXCEPT !.live = FALSE] ELSE sess[u]]
  /\ UNCHANGED <<now, users, okeys, toks, cache, slots, rq, stream, cli, ops, use>>

(* Time passes, but no faster than the stream's timer is served. *)
AuthTick ==
  /\ now < MaxTime /\ (stream.kind = "none" \/ now < stream.due)
  /\ now' = now + 1
  /\ UNCHANGED <<users, sess, okeys, toks, cache, slots, rq, stream, cli, ops, use>>

Authenticate(r) ==
  ResolveBearer(r) \/ ResolveSession(r) \/ SessionUser(r) \/ BasicGet(r)
  \/ TryAcquireArgon2(r) \/ VerifyBasic(r) \/ VerifyLogin(r) \/ CreateSession(r) \/ Refuse(r)

AuthNext ==
  \/ \E r \in Rq :
       \/ \E u \in User : Login(r, u) \/ Arrive(r, "session", u, 0) \/ Arrive(r, "basic", u, 0)
       \/ \E k \in Keys : Arrive(r, "operator", NoUser, k) \/ Arrive(r, "bearer", NoUser, k)
       \/ Authenticate(r)
       \/ Serve(r) \/ Logout(r) \/ CreateToken(r) \/ OpenStream(r)
       \/ \E w \in BOOLEAN : Mint(r, w)
       \/ \E k \in Keys : Revoke(r, k)
  \/ ReauthStream \/ CloseStream
  \/ \E u \in User, off \in BOOLEAN : SetDisabled(u, off)
  \/ \E k \in Keys : DisableOperator(k) \/ RotateCheck(k)
  \/ RotateCommit \/ Cleanup \/ AuthTick

AuthSpec == AuthInit /\ [][AuthNext]_authVars

-----------------------------------------------------------------------------
(* Logout, expiry and the disabling of the account bind every session      *)
(* request that arrives after them, although session and account are read  *)
(* one after the other: what admits it was valid when it arrived, or the   *)
(* account was enabled or signed in again since.                           *)
AdmittedWasValid == \A r \in Rq : rq[r].pc = "in" /\ rq[r].kind = "session" => rq[r].ok

(* Disabling an account ends its cached Basic success within one TTL, hits *)
(* in between notwithstanding, unless a check that had read the row before *)
(* put it there afterwards.                                                *)
BasicWithinTTL ==
  \A i \in DOMAIN cache : LET e == cache[i] IN
    ~users[e.u].on /\ now <= e.exp => now <= users[e.u].off + TTL \/ e.over

(* The slots taken are the checks that run, on every path out of one.      *)
SlotsExact == slots = Cardinality({r \in Rq : rq[r].pc = "hash"})

(* Every token somebody was shown over HTTP is in the audit log.           *)
ShownIsLogged == \A k \in Keys : toks[k].shown => toks[k].logged

(* A key runs out only by a rotation that minted its successor.            *)
RotationOverlaps ==
  \A k \in Keys : okeys[k].exp # 0 => okeys[k].succ # 0 /\ okeys[okeys[k].succ].st # "none"

(* A stream outlives its key, revoked or run out, by at most one interval  *)
(* of the re-check, counted from its opening if the key died before.       *)
StreamRevoked ==
  stream.kind = "operator" /\ ~KeyValid(stream.k) =>
    \/ now <= stream.from + Reauth
    \/ LET k == okeys[stream.k] IN now <= (IF k.st = "off" THEN k.off ELSE k.exp) + Reauth

\* Who is let in had the right to, a revocation binds within its bound, and no
\* credential is handed out unlogged or taken away without a successor.
AccessSound ==
  /\ AdmittedWasValid /\ BasicWithinTTL /\ StreamRevoked /\ SlotsExact
  /\ ShownIsLogged /\ RotationOverlaps

(* The stream runs "until the client disconnects, the server shuts down,   *)
(* the hub drops a slow consumer, or the key is revoked" (events.go): the  *)
(* re-check ends no stream whose credential is still good.                 *)
ReauthEndsOnlyRevoked ==
  [][ReauthStream /\ stream'.kind = "none" => ~Valid(stream.kind, stream.u, stream.k)]_authVars

-----------------------------------------------------------------------------
(* What the proof of AccessSound rests on.                                 *)

AuthRequest == [pc : {"idle", "auth", "user", "slot", "hash", "create", "refused", "in", "audit"},
                kind : Carrier \cup {"login", "none"}, u : User \cup {NoUser}, k : Keys \cup {0},
                on : BOOLEAN, ok : BOOLEAN]
Listener == [kind : Carrier \cup {"login", "none"}, u : User \cup {NoUser}, k : Keys \cup {0},
             due : Nat, from : Nat]

AuthType ==
  /\ now \in Nat /\ users \in [User -> [on : BOOLEAN, off : Nat]]
  /\ sess \in [User -> [live : BOOLEAN, exp : Nat]]
  /\ okeys \in [Keys -> [st : {"none", "live", "off"}, exp : Nat, off : Nat, succ : Keys \cup {0}]]
  /\ toks \in [Keys -> [st : {"none", "live", "off"}, shown : BOOLEAN, logged : BOOLEAN]]
  /\ cache \in Seq([u : User, exp : Nat, over : BOOLEAN]) /\ rq \in [Rq -> AuthRequest]
  /\ stream \in Listener /\ cli \in Keys \cup {0}

(* What a request knows of its credential.  One that was bad at its        *)
(* arrival is bad still, or was excused.                                   *)
RqOK(q) ==
  /\ q.kind \in {"session", "basic", "login"} => q.u \in User
  /\ q.pc \in {"slot", "hash", "user", "create"} => q.kind \in {"session", "basic", "login"}
  /\ q.kind \in {"operator", "bearer"} \/ q.pc = "audit" => q.k \in Keys
  /\ q.kind = "session" /\ ~q.ok =>
       /\ q.pc \in {"auth", "user", "refused"}
       /\ q.pc = "auth" => ~SessionValid(q.u) \/ ~users[q.u].on
       /\ q.pc = "user" => ~users[q.u].on
RqInv == \A r \in Rq : RqOK(rq[r])

(* An entry runs out one TTL after its check at the latest.                *)
CacheOK(e) == /\ e.exp <= now + TTL
              /\ ~users[e.u].on => e.exp <= users[e.u].off + TTL \/ e.over
CacheInv == \A i \in DOMAIN cache : CacheOK(cache[i])

(* The re-check is due one interval after the last one that found the key  *)
(* good.                                                                   *)
StreamInv ==
  stream.kind # "none" =>
    /\ now <= stream.due /\ stream.due <= now + Reauth
    /\ stream.kind = "operator" => stream.k \in Keys
    /\ stream.kind = "operator" /\ ~KeyValid(stream.k) =>
         \/ stream.due <= stream.from + Reauth
         \/ LET k == okeys[stream.k] IN stream.due <= (IF k.st = "off" THEN k.off ELSE k.exp) + Reauth

(* A rotation past its check finds the key and a free number.              *)
RotateInv == cli # 0 => okeys[cli].st # "none" /\ FreeIn(okeys) # {}

AuthInv == AuthType /\ RqInv /\ CacheInv /\ StreamInv /\ RotateInv
           /\ SlotsExact /\ ShownIsLogged /\ RotationOverlaps
=============================================================================
