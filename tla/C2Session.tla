----------------------------- MODULE C2Session -----------------------------
(***************************************************************************)
(* The session under the C2 channel, for one device: the signed re-key     *)
(* handshake (c2rekey.go, cmd.c c2_rekey), the HOTP counter check on every *)
(* poll (c2auth.go, auth/session.go), and registration (devicestore.go),   *)
(* which resets the session when the device's public key changes.          *)
(*                                                                         *)
(* Secrets, nonces and keys are numbers, never reused: esp_fill_random and *)
(* crypto/rand do not repeat, a signature or an OTP cannot be made without *)
(* its key.  Requests may be delayed, delivered twice, or lost: a message  *)
(* stays in the network for ever and is handled any number of times.       *)
(***************************************************************************)
EXTENDS Integers

CONSTANTS
    Registrar,    \* admin requests that may register the serial concurrently
    Worker,       \* requests that may run handleC2Rekey concurrently
    MaxKey,       \* bound: key pairs the device generates
    MaxNonce,     \* bound: challenges answered
    MaxSecret,    \* bound: handshakes the device signs
    MaxCounter,   \* bound: polls per session
    WindowFar     \* authWindowFar

ASSUME BoundsAssumption ==
    /\ MaxKey \in Nat \ {0} /\ MaxNonce \in Nat /\ MaxSecret \in Nat
    /\ MaxCounter \in Nat /\ WindowFar \in Nat

VARIABLES
    \* ---- device_auth and c2_nonce; 0 stands for NULL
    pubkey, secret, last, bootstrapped, nonce, fresh,
    reg,          \* per registrar: Register between its SELECT and its UPSERT
    rekey,        \* per worker: handleC2Rekey between the SELECT's snapshot and
                  \* the lock it takes on the device_auth row
    \* ---- device NVS and RTC-RAM
    dkey, valid, rsecret, counter,
    \* ---- the device's task
    pc,           \* idle, challenge (GET sent), post (POST sent), poll
    offer,        \* the secret in the POST being waited for
    reply,        \* response in flight: a nonce, or 1 for 204/200; 0 for none
    \* ---- the network
    chals,        \* a GET /challenge is on its way
    posts, polls,
    \* ---- how many were drawn so far
    nonces, secrets,
    \* ---- history
    accepted,     \* polls that passed authDevice
    signer        \* per secret installed, the public key that was checked

dbVars  == <<pubkey, secret, last, bootstrapped, nonce, fresh>>
devVars == <<dkey, valid, rsecret, counter, pc, offer>>
netVars == <<reply, chals, posts, polls>>
drawn   == <<nonces, secrets>>
hist    == <<accepted, signer>>
vars    == <<dbVars, reg, rekey, devVars, netVars, drawn, hist>>

Post == [nonce : 1..MaxNonce, secret : 1..MaxSecret, key : 1..MaxKey]
PollMsg == [secret : 1..MaxSecret, c : 1..MaxCounter]
RegCall == [pc : {"idle", "read"}, key : 0..MaxKey, rebond : BOOLEAN]

\* A handleC2Rekey call.  post: its body; ok: the snapshot's c2_nonce row matches it
\* and is not expired, and the device_auth row of the snapshot still exists
Offer == [nonce : 0..MaxNonce, secret : 0..MaxSecret, key : 0..MaxKey]
RekeyCall == [pc : {"idle", "read"}, post : Offer, ok : BOOLEAN]

TypeOK ==
    /\ pubkey \in 0..MaxKey
    /\ secret \in 0..MaxSecret
    /\ last \in 0..MaxCounter
    /\ bootstrapped \in BOOLEAN
    /\ nonce \in 0..MaxNonce
    /\ fresh \in BOOLEAN
    /\ reg \in [Registrar -> RegCall]
    /\ rekey \in [Worker -> RekeyCall]
    /\ dkey \in 1..MaxKey
    /\ valid \in BOOLEAN
    /\ rsecret \in 0..MaxSecret
    /\ counter \in 0..MaxCounter
    /\ pc \in {"idle", "challenge", "post", "poll"}
    /\ offer \in 0..MaxSecret
    /\ reply \in Nat
    /\ chals \in BOOLEAN
    /\ posts \subseteq Post
    /\ polls \subseteq PollMsg
    /\ nonces \in 0..MaxNonce
    /\ secrets \in 0..MaxSecret
    /\ accepted \subseteq polls
    /\ signer \in [1..MaxSecret -> 0..MaxKey]

NoOffer == [nonce |-> 0, secret |-> 0, key |-> 0]
NoRekey == [pc |-> "idle", post |-> NoOffer, ok |-> FALSE]
NoReg == [pc |-> "idle", key |-> 0, rebond |-> FALSE]

Init ==
    /\ pubkey = 0 /\ secret = 0 /\ last = 0 /\ bootstrapped = FALSE
    /\ nonce = 0 /\ fresh = FALSE
    /\ reg = [r \in Registrar |-> NoReg]
    /\ rekey = [w \in Worker |-> NoRekey]
    /\ dkey = 1 /\ valid = FALSE /\ rsecret = 0 /\ counter = 0
    /\ pc = "idle" /\ offer = 0
    /\ reply = 0 /\ chals = FALSE /\ posts = {} /\ polls = {}
    /\ nonces = 0 /\ secrets = 0
    /\ accepted = {} /\ signer = [s \in 1..MaxSecret |-> 0]

----------------------------------------------------------------------------
(* Registration.  The stored key is read without a lock; whether the       *)
(* session is reset is decided by that read.                               *)

RegisterRead(r, k) ==
    /\ reg[r].pc = "idle"
    /\ reg' = [reg EXCEPT ![r] = [pc |-> "read", key |-> k,
                                  rebond |-> pubkey # 0 /\ pubkey # k]]
    /\ UNCHANGED <<dbVars, rekey, devVars, netVars, drawn, hist>>

\* Mutant of RegisterWrite: a changed key keeps the session.
RegisterKeepsSession(r) ==
    /\ reg[r].pc = "read"
    /\ pubkey' = reg[r].key
    /\ reg' = [reg EXCEPT ![r] = NoReg]
    /\ UNCHANGED <<secret, last, bootstrapped, nonce, fresh, rekey, devVars, netVars, drawn, hist>>

RegisterWrite(r) ==
    /\ reg[r].pc = "read"
    /\ pubkey' = reg[r].key
    /\ IF reg[r].rebond
         THEN secret' = 0 /\ bootstrapped' = FALSE /\ last' = 0
         ELSE UNCHANGED <<secret, bootstrapped, last>>
    /\ reg' = [reg EXCEPT ![r] = NoReg]
    /\ UNCHANGED <<nonce, fresh, rekey, devVars, netVars, drawn, hist>>

\* Deleting the device cascades to device_auth and c2_nonce.
Delete ==
    /\ pubkey # 0
    /\ pubkey' = 0 /\ secret' = 0 /\ last' = 0 /\ bootstrapped' = FALSE
    /\ nonce' = 0 /\ fresh' = FALSE
    /\ rekey' = [w \in Worker |->
                  [pc |-> rekey[w].pc, post |-> rekey[w].post, ok |-> FALSE]]
    /\ UNCHANGED <<reg, devVars, netVars, drawn, hist>>

----------------------------------------------------------------------------
(* The handshake.                                                          *)

\* c2_poll without a session: GET <base>/challenge.
AskChallenge ==
    /\ pc = "idle" /\ ~valid
    /\ pc' = "challenge"
    /\ chals' = TRUE
    /\ UNCHANGED <<dbVars, reg, rekey, dkey, valid, rsecret, counter, offer, reply, posts,
                   polls, drawn, hist>>

\* The nonce is stored for a bonded serial only; a nonce is always returned.
\* One row per serial: a second challenge overwrites the first.
HandleC2Challenge ==
    /\ chals
    /\ nonces < MaxNonce
    /\ nonces' = nonces + 1
    /\ nonce' = IF pubkey # 0 THEN nonces + 1 ELSE nonce
    /\ fresh' = (fresh \/ pubkey # 0)
    /\ reply' = IF pc = "challenge" THEN nonces + 1 ELSE reply
    /\ UNCHANGED <<pubkey, secret, last, bootstrapped, reg, rekey, devVars, chals, posts,
                   polls, secrets, hist>>

NonceExpires ==
    /\ nonce # 0 /\ fresh
    /\ fresh' = FALSE
    /\ UNCHANGED <<pubkey, secret, last, bootstrapped, nonce, reg, rekey, devVars, netVars,
                   drawn, hist>>

\* A fresh secret, bound to the nonce by the long-term key; POST <base>/rekey.
SignAndPost ==
    /\ pc = "challenge" /\ reply # 0
    /\ secrets < MaxSecret
    /\ secrets' = secrets + 1
    /\ posts' = posts \cup {[nonce |-> reply, secret |-> secrets + 1, key |-> dkey]}
    /\ offer' = secrets + 1
    /\ pc' = "post"
    /\ reply' = 0
    /\ UNCHANGED <<dbVars, reg, rekey, dkey, valid, rsecret, counter, chals, polls, nonces, hist>>

(* handleC2Rekey: SELECT ... FOR UPDATE OF a joins c2_nonce without locking *)
(* it.  A call that has to wait for the row lock (or meets a row changed   *)
(* since its snapshot) gets the current device_auth row, but still the     *)
(* c2_nonce row of its snapshot.                                           *)

NonceMatches(m) == nonce # 0 /\ m.nonce = nonce /\ fresh

RekeyRead(w, m) ==
    /\ rekey[w].pc = "idle"
    /\ pubkey # 0
    /\ rekey' = [rekey EXCEPT ![w] = [pc |-> "read", post |-> m, ok |-> NonceMatches(m)]]
    /\ UNCHANGED <<dbVars, reg, devVars, netVars, drawn, hist>>

\* Mutant of HandleC2Rekey: the nonce is not consumed.
HandleC2RekeyKeepsNonce(w) ==
    /\ rekey[w].pc = "read"
    /\ LET m == rekey[w].post IN
         /\ rekey[w].ok /\ m.key = pubkey
         /\ secret' = m.secret /\ last' = 0 /\ bootstrapped' = FALSE
         /\ signer' = [signer EXCEPT ![m.secret] = pubkey]
         /\ reply' = IF pc = "post" /\ offer = m.secret THEN 1 ELSE reply
    /\ rekey' = [rekey EXCEPT ![w] = NoRekey]
    /\ UNCHANGED <<pubkey, nonce, fresh, reg, devVars, chals, posts, polls, drawn, accepted>>

\* The row is locked, the signature verified: install the secret, reset the
\* counter, consume whatever nonce is on file now.
HandleC2Rekey(w) ==
    /\ rekey[w].pc = "read"
    /\ LET m == rekey[w].post IN
         /\ rekey[w].ok /\ m.key = pubkey
         /\ secret' = m.secret /\ last' = 0 /\ bootstrapped' = FALSE
         /\ signer' = [signer EXCEPT ![m.secret] = pubkey]
         /\ reply' = IF pc = "post" /\ offer = m.secret THEN 1 ELSE reply
    /\ nonce' = 0 /\ fresh' = FALSE
    /\ rekey' = [rekey EXCEPT ![w] = NoRekey]
    /\ UNCHANGED <<pubkey, reg, devVars, chals, posts, polls, drawn, accepted>>

\* The one answer to every failure: 401.
RekeyRejected(w) ==
    /\ rekey[w].pc = "read"
    /\ ~rekey[w].ok \/ rekey[w].post.key # pubkey
    /\ rekey' = [rekey EXCEPT ![w] = NoRekey]
    /\ UNCHANGED <<dbVars, reg, devVars, netVars, drawn, hist>>

\* 204: only now does the device adopt the secret, with a counter of 0.
SessionEstablished ==
    /\ pc = "post" /\ reply # 0
    /\ rsecret' = offer /\ counter' = 0 /\ valid' = TRUE
    /\ pc' = "idle" /\ offer' = 0 /\ reply' = 0
    /\ UNCHANGED <<dbVars, reg, rekey, dkey, chals, posts, polls, drawn, hist>>

\* Any other status or a transport error: skip this poll.
HandshakeFails ==
    /\ pc \in {"challenge", "post"}
    /\ pc' = "idle" /\ offer' = 0 /\ reply' = 0
    /\ UNCHANGED <<dbVars, reg, rekey, dkey, valid, rsecret, counter, chals, posts, polls,
                   drawn, hist>>

----------------------------------------------------------------------------
(* Polls.                                                                  *)

\* Mutant of Poll: the counter is stored after the response, not before.
PollSameCounter ==
    /\ pc = "idle" /\ valid
    /\ counter < MaxCounter
    /\ polls' = polls \cup {[secret |-> rsecret, c |-> counter + 1]}
    /\ pc' = "poll"
    /\ UNCHANGED <<dbVars, reg, rekey, dkey, valid, rsecret, counter, offer, reply, chals,
                   posts, drawn, hist>>

Poll ==
    /\ pc = "idle" /\ valid
    /\ counter < MaxCounter
    /\ counter' = counter + 1
    /\ polls' = polls \cup {[secret |-> rsecret, c |-> counter + 1]}
    /\ pc' = "poll"
    /\ UNCHANGED <<dbVars, reg, rekey, dkey, valid, rsecret, offer, reply, chals, posts,
                   drawn, hist>>

\* Mutant of ValidateSession: the replay test is missing.
ValidateSessionNoReplayTest(m) ==
    /\ secret # 0 /\ m.secret = secret
    /\ IF ~bootstrapped THEN m.c <= WindowFar ELSE m.c <= last + WindowFar

\* ValidateSession: strictly monotone within the session, bounded look-ahead.
ValidateSession(m) ==
    /\ secret # 0 /\ m.secret = secret
    /\ IF ~bootstrapped THEN m.c <= WindowFar
                        ELSE m.c > last /\ m.c <= last + WindowFar

IsCurrent(m) == pc = "poll" /\ m.secret = rsecret /\ m.c = counter

AuthDevice(m) ==
    /\ ValidateSession(m)
    /\ last' = m.c /\ bootstrapped' = TRUE
    /\ accepted' = accepted \cup {m}
    /\ reply' = IF IsCurrent(m) THEN 1 ELSE reply
    /\ UNCHANGED <<pubkey, secret, nonce, fresh, reg, rekey, devVars, chals, posts, polls,
                   drawn, signer>>

PollAnswered ==
    /\ pc = "poll" /\ reply # 0
    /\ pc' = "idle" /\ reply' = 0
    /\ UNCHANGED <<dbVars, reg, rekey, dkey, valid, rsecret, counter, offer, chals, posts,
                   polls, drawn, hist>>

\* 401 or transport error: c2_sess_invalidate.
PollFails ==
    /\ pc = "poll"
    /\ valid' = FALSE /\ pc' = "idle" /\ reply' = 0
    /\ UNCHANGED <<dbVars, reg, rekey, dkey, rsecret, counter, offer, chals, posts, polls,
                   drawn, hist>>

\* Reset: RTC_NOINIT memory survives some reset classes (keep) and not others.
Reset(keep) ==
    /\ valid' = (valid /\ keep)
    /\ pc' = "idle" /\ offer' = 0 /\ reply' = 0
    /\ UNCHANGED <<dbVars, reg, rekey, dkey, rsecret, counter, chals, posts, polls, drawn, hist>>

\* C2 BOND after the key was lost with the NVS: a new long-term key.  A session
\* in RTC-RAM is kept.
Bond ==
    /\ pc = "idle" /\ dkey < MaxKey
    /\ dkey' = dkey + 1
    /\ UNCHANGED <<dbVars, reg, rekey, valid, rsecret, counter, pc, offer, netVars, drawn, hist>>

----------------------------------------------------------------------------
Registration ==
    \/ \E r \in Registrar : \E k \in 1..MaxKey : RegisterRead(r, k)
    \/ \E r \in Registrar : RegisterWrite(r)
    \/ Delete

Handshake ==
    \/ AskChallenge \/ HandleC2Challenge \/ NonceExpires \/ SignAndPost
    \/ \E w \in Worker : \E m \in posts : RekeyRead(w, m)
    \/ \E w \in Worker : HandleC2Rekey(w) \/ RekeyRejected(w)
    \/ SessionEstablished \/ HandshakeFails

Polling ==
    \/ Poll
    \/ \E m \in polls : AuthDevice(m)
    \/ PollAnswered \/ PollFails
    \/ \E keep \in BOOLEAN : Reset(keep)
    \/ Bond

Next == Registration \/ Handshake \/ Polling

Spec == Init /\ [][Next]_vars

----------------------------------------------------------------------------
(* Properties.                                                             *)

\* No poll is accepted twice: every poll authDevice ever accepted under the
\* session now stored lies at or below its counter, through re-keys, re-bonds,
\* deletions and replays of handshakes and polls.
NoReplay ==
    \A m \in accepted : m.secret = secret => bootstrapped /\ m.c <= last

\* The backend never gets ahead of the device: while both hold the same secret
\* the stored counter is one the device has used, so the device's next poll is
\* never taken for a replay, even after a reset that kept RTC-RAM.
NotAheadOfDevice ==
    secret # 0 /\ secret = rsecret /\ bootstrapped => last <= counter

\* A nonce opens at most one session: the nonce on file is not one that an
\* installed secret was bound to.
NonceSingleUse ==
    \A m \in posts : signer[m.secret] # 0 => nonce # m.nonce

\* Nothing a device sent is used twice: neither a poll nor a handshake.
SingleUse == NoReplay /\ NonceSingleUse

\* devicestore.go: "pubkey CHANGED -> the session is reset": a stored session is
\* one whose handshake was signed with the key now on file.
SessionOfKey == secret # 0 => signer[secret] = pubkey

\* The session on file fits the device: it is of its key, and not ahead of its
\* counter.
SessionMatches == SessionOfKey /\ NotAheadOfDevice

----------------------------------------------------------------------------
(* Inductive strengthenings, used by UplinkProofs.                         *)

OneWorker == \A v, w \in Worker : v = w
OneRegistrar == \A q, r \in Registrar : q = r

\* What the device's task relies on.
TaskInv ==
    /\ pc = "idle" => reply = 0
    /\ pc = "challenge" => reply <= nonces
    /\ pc = "post" => offer # 0
    /\ valid => rsecret # 0

\* A handshake being handled was posted by the device.
PostInv == \A w \in Worker : rekey[w].pc = "read" => rekey[w].post \in posts

\* Secrets are installed once, by the handshake that drew them.
InstallInv ==
    /\ \A m \in posts : m.nonce <= nonces /\ m.secret <= secrets
    /\ \A s \in 1..MaxSecret : signer[s] # 0 => s <= secrets
    /\ secret # 0 => signer[secret] # 0
    /\ \A m \in accepted : signer[m.secret] # 0
    /\ \A w \in Worker : rekey[w].pc = "read" /\ rekey[w].ok => signer[rekey[w].post.secret] = 0

\* Polls carry a counter the device has already stored.
CounterInv ==
    /\ rsecret <= secrets /\ offer <= secrets
    /\ pc = "post" => \A m \in polls : m.secret # offer
    /\ \A m \in polls : m.secret <= secrets
    /\ \A m \in polls : m.secret = rsecret => m.c <= counter
    /\ secret # 0 /\ bootstrapped => \E m \in polls : m.secret = secret /\ m.c = last

\* A registration that will not reset the session finds its own key, or none.
RebondInv ==
    /\ pubkey = 0 => secret = 0
    /\ \A r \in Registrar : reg[r].pc = "read" =>
         reg[r].key # 0 /\ (~reg[r].rebond => pubkey \in {0, reg[r].key})
=============================================================================
