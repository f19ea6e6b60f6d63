----------------------------- MODULE UplinkProofs -----------------------------
(***************************************************************************)
(* Proofs about what a device sends. C2Session, for every number of keys,  *)
(* nonces, secrets and polls: NotAheadOfDevice needs no assumption,        *)
(* NoReplay and NonceSingleUse handshakes that do not overlap (OneWorker), *)
(* SessionOfKey registrations that do not (OneRegistrar). LogIngest, for   *)
(* every ring, cap, number of boots and bytes: what was acknowledged is    *)
(* stored. IngestInv is the inductive invariant: where a push in flight    *)
(* starts (PushInv), that what the cursor passed is stored (CursorInv),    *)
(* and that in order no push is behind the cursor (OrderInv).              *)
(* LogReconstruct: the rebuild holds every stored byte, because the spans  *)
(* of the rows tile the stream (TilesInv).                                 *)
(***************************************************************************)
EXTENDS C2Session, LogReconstruct, SequenceTheorems, FiniteSetTheorems, FunctionTheorems,
        WellFoundedInduction, TLAPS

Typed == TypeOK /\ TaskInv

USE BoundsAssumption

LEMMA TypedInit == Init => Typed
<1> SUFFICES ASSUME Init PROVE Typed
  OBVIOUS
<1> USE DEF Init
<1>1. reg \in [Registrar -> RegCall]
  BY DEF RegCall, NoReg
<1>2. NoRekey \in RekeyCall
  BY DEF RekeyCall, Offer, NoRekey, NoOffer
<1>3. rekey \in [Worker -> RekeyCall]
  BY <1>2
<1>4. TaskInv
  BY DEF TaskInv
<1>5. bootstrapped \in BOOLEAN /\ fresh \in BOOLEAN /\ valid \in BOOLEAN /\ chals \in BOOLEAN
  BY Zenon
<1>6. signer \in [1..MaxSecret -> 0..MaxKey] /\ dkey \in 1..MaxKey
  OBVIOUS
<1> QED
  BY <1>1, <1>3, <1>4, <1>5, <1>6 DEF Typed, TypeOK

LEMMA TypedNext == Typed /\ [Next]_vars => Typed'
<1> SUFFICES ASSUME Typed, [Next]_vars PROVE Typed'
  OBVIOUS
<1> USE DEF Typed, TypeOK, TaskInv
<1>1. ASSUME NEW r \in Registrar, NEW k \in 1..MaxKey, RegisterRead(r, k) PROVE Typed'
  BY <1>1 DEF RegisterRead, RegCall, dbVars, devVars, netVars, drawn, hist
<1>2. ASSUME NEW r \in Registrar, RegisterWrite(r) PROVE Typed'
  <2>1. reg' \in [Registrar -> RegCall] /\ pubkey' \in 0..MaxKey
    BY <1>2 DEF RegisterWrite, RegCall, NoReg
  <2>2. CASE reg[r].rebond
    <3>1. bootstrapped' = FALSE /\ last' = 0 /\ secret' = 0
      BY <1>2, <2>2 DEF RegisterWrite
    <3>2. bootstrapped' \in BOOLEAN
      BY <3>1
    <3>3. UNCHANGED <<nonce, fresh, rekey, devVars, netVars, drawn, hist>>
      BY <1>2 DEF RegisterWrite
    <3>4. TaskInv'
      BY <3>3 DEF devVars, netVars, drawn
    <3> QED
      BY <2>1, <3>1, <3>2, <3>3, <3>4 DEF devVars, netVars, drawn, hist
  <2>3. CASE ~reg[r].rebond
    BY <1>2, <2>1, <2>3 DEF RegisterWrite, devVars, netVars, drawn, hist
  <2> QED
    BY <2>2, <2>3
<1>3. CASE Delete
  <2>1. rekey' \in [Worker -> RekeyCall]
    BY <1>3 DEF Delete, RekeyCall
  <2> QED
    <3>1. bootstrapped' \in BOOLEAN /\ fresh' \in BOOLEAN
      BY <1>3 DEF Delete
    <3>2. pubkey' = 0 /\ secret' = 0 /\ last' = 0 /\ nonce' = 0
      BY <1>3 DEF Delete
    <3>3. UNCHANGED <<reg, devVars, netVars, drawn, hist>>
      BY <1>3 DEF Delete
    <3> QED
      BY <2>1, <3>1, <3>2, <3>3 DEF devVars, netVars, drawn, hist
<1>4. CASE AskChallenge
  BY <1>4 DEF AskChallenge, dbVars, drawn, hist
<1>5. CASE HandleC2Challenge
  BY <1>5 DEF HandleC2Challenge, devVars, hist
<1>6. CASE NonceExpires
  BY <1>6 DEF NonceExpires, devVars, netVars, drawn, hist
<1>7. CASE SignAndPost
  BY <1>7 DEF SignAndPost, Post, dbVars, hist
<1>8. ASSUME NEW w \in Worker, NEW m \in posts, RekeyRead(w, m) PROVE Typed'
  <2>1. m \in Offer
    BY DEF Offer, Post
  <2>2. NonceMatches(m) \in BOOLEAN
    BY DEF NonceMatches
  <2>3. rekey' \in [Worker -> RekeyCall]
    BY <1>8, <2>1, <2>2 DEF RekeyRead, RekeyCall
  <2> QED
    BY <1>8, <2>3 DEF RekeyRead, dbVars, devVars, netVars, drawn, hist
<1>9. ASSUME NEW w \in Worker, HandleC2Rekey(w) PROVE Typed'
  <2>1. NoRekey \in RekeyCall
    BY DEF RekeyCall, Offer, NoRekey, NoOffer
  <2>2. rekey[w].post \in Offer
    BY DEF RekeyCall
  <2>3. secret' \in 0..MaxSecret /\ signer' \in [1..MaxSecret -> 0..MaxKey] /\ reply' \in Nat
    BY <1>9, <2>2 DEF HandleC2Rekey, Offer
  <2> QED
    <3>1. bootstrapped' = FALSE /\ fresh' = FALSE /\ last' = 0 /\ nonce' = 0
      BY <1>9 DEF HandleC2Rekey
    <3>2. rekey' \in [Worker -> RekeyCall]
      BY <1>9, <2>1 DEF HandleC2Rekey
    <3>3. TaskInv'
      BY <1>9 DEF HandleC2Rekey, devVars, drawn
    <3>4. UNCHANGED <<pubkey, reg, devVars, chals, posts, polls, drawn, accepted>>
      BY <1>9 DEF HandleC2Rekey
    <3>5. bootstrapped' \in BOOLEAN /\ fresh' \in BOOLEAN
      BY <3>1
    <3> QED
      BY <2>3, <3>1, <3>2, <3>3, <3>4, <3>5 DEF devVars, drawn
<1>10. ASSUME NEW w \in Worker, RekeyRejected(w) PROVE Typed'
  <2>1. NoRekey \in RekeyCall
    BY DEF RekeyCall, Offer, NoRekey, NoOffer
  <2> QED
    BY <1>10, <2>1 DEF RekeyRejected, dbVars, devVars, netVars, drawn, hist
<1>11. CASE SessionEstablished
  BY <1>11 DEF SessionEstablished, dbVars, drawn, hist
<1>12. CASE HandshakeFails
  BY <1>12 DEF HandshakeFails, dbVars, drawn, hist
<1>13. CASE Poll
  BY <1>13 DEF Poll, PollMsg, dbVars, drawn, hist
<1>14. ASSUME NEW m \in polls, AuthDevice(m) PROVE Typed'
  <2>1. m.c \in 0..MaxCounter
    BY DEF PollMsg
  <2> QED
    BY <1>14, <2>1 DEF AuthDevice, IsCurrent, devVars, drawn
<1>15. CASE PollAnswered
  BY <1>15 DEF PollAnswered, dbVars, drawn, hist
<1>16. CASE PollFails
  BY <1>16 DEF PollFails, dbVars, drawn, hist
<1>17. ASSUME NEW keep \in BOOLEAN, Reset(keep) PROVE Typed'
  BY <1>17 DEF Reset, dbVars, drawn, hist
<1>18. CASE Bond
  BY <1>18 DEF Bond, dbVars, netVars, drawn, hist
<1>19. CASE UNCHANGED vars
  BY <1>19 DEF vars, dbVars, devVars, netVars, drawn, hist
<1> QED
  BY <1>1, <1>2, <1>3, <1>4, <1>5, <1>6, <1>7, <1>8, <1>9, <1>10, <1>11, <1>12, <1>13,
     <1>14, <1>15, <1>16, <1>17, <1>18, <1>19
     DEF Next, Registration, Handshake, Polling

\* Every reachable state is well-typed (device_auth columns, RTC-RAM fields,
\* messages), for every value of the bounds.
THEOREM SessionTypeCorrect == Spec => []TypeOK
<1>1. Typed => TypeOK
  BY DEF Typed
<1> QED
  BY <1>1, TypedInit, TypedNext, PTL DEF Spec

----------------------------------------------------------------------------
(* The counter: CounterInv is inductive and implies NotAheadOfDevice.      *)

LEMMA CounterNext == Typed /\ CounterInv /\ [Next]_vars => CounterInv'
<1> SUFFICES ASSUME Typed, CounterInv, [Next]_vars PROVE CounterInv'
  OBVIOUS
<1> USE DEF CounterInv
<1>1. ASSUME NEW r \in Registrar, RegisterWrite(r) PROVE CounterInv'
  BY <1>1 DEF RegisterWrite, devVars, netVars, drawn
<1>2. CASE Delete
  BY <1>2 DEF Delete, devVars, netVars, drawn
<1>3. CASE AskChallenge
  BY <1>3 DEF AskChallenge, dbVars, drawn
<1>4. CASE HandleC2Challenge
  BY <1>4 DEF HandleC2Challenge, devVars
<1>5. CASE SignAndPost
  <2>1. \A m \in polls : m.secret # secrets + 1
    BY DEF Typed, TypeOK, PollMsg
  <2> QED
    BY <1>5, <2>1 DEF SignAndPost, dbVars, Typed, TypeOK, PollMsg
<1>6. ASSUME NEW w \in Worker, HandleC2Rekey(w) PROVE CounterInv'
  BY <1>6 DEF HandleC2Rekey, devVars, drawn
<1>7. CASE SessionEstablished
  BY <1>7 DEF SessionEstablished, dbVars, drawn, Typed, TypeOK
<1>8. CASE HandshakeFails
  BY <1>8 DEF HandshakeFails, dbVars, drawn, Typed, TypeOK
<1>9. CASE Poll
  <2>1. \A m \in polls' : m.secret <= secrets'
    BY <1>9 DEF Poll, drawn
  <2>2. \A m \in polls' : m.secret = rsecret => m.c <= counter'
    BY <1>9 DEF Poll, Typed, TypeOK, PollMsg
  <2> QED
    BY <1>9, <2>1, <2>2 DEF Poll, dbVars, drawn
<1>10. ASSUME NEW m \in polls, AuthDevice(m) PROVE CounterInv'
  BY <1>10 DEF AuthDevice, ValidateSession, devVars, drawn
<1>11. CASE PollAnswered
  BY <1>11 DEF PollAnswered, dbVars, drawn
<1>12. CASE PollFails
  BY <1>12 DEF PollFails, dbVars, drawn
<1>13. ASSUME NEW keep \in BOOLEAN, Reset(keep) PROVE CounterInv'
  BY <1>13 DEF Reset, dbVars, drawn, Typed, TypeOK
<1>14. CASE Bond
  BY <1>14 DEF Bond, dbVars, netVars, drawn
<1>15. ASSUME UNCHANGED <<secret, last, bootstrapped, devVars, netVars, drawn>> PROVE CounterInv'
  BY <1>15 DEF devVars, netVars, drawn
<1>16. (\E r \in Registrar : \E k \in 1..MaxKey : RegisterRead(r, k)) \/ NonceExpires
       \/ (\E w \in Worker : \E m \in posts : RekeyRead(w, m))
       \/ (\E w \in Worker : RekeyRejected(w)) \/ UNCHANGED vars
       => CounterInv'
  BY <1>15 DEF RegisterRead, NonceExpires, RekeyRead, RekeyRejected, vars, dbVars
<1> QED
  BY <1>1, <1>2, <1>3, <1>4, <1>5, <1>6, <1>7, <1>8, <1>9, <1>10, <1>11, <1>12, <1>13,
     <1>14, <1>16 DEF Next, Registration, Handshake, Polling

\* The backend's counter never passes the device's (ValidateSession stores the
\* claimed counter, c2_poll increments RTC-RAM before it sends): a device that
\* still holds its session is never refused as a replay.
THEOREM BackendNotAhead == Spec => []NotAheadOfDevice
<1>1. Init => CounterInv
  BY DEF Init, CounterInv
<1>2. Typed /\ CounterInv => NotAheadOfDevice
  BY DEF CounterInv, NotAheadOfDevice
<1> QED
  BY <1>1, <1>2, TypedInit, TypedNext, CounterNext, PTL DEF Spec

----------------------------------------------------------------------------
LEMMA PostNext == Typed /\ PostInv /\ [Next]_vars => PostInv'
<1> SUFFICES ASSUME Typed, PostInv, [Next]_vars PROVE PostInv'
  OBVIOUS
<1> USE DEF PostInv, Typed, TypeOK
<1>1. CASE Delete
  BY <1>1 DEF Delete, netVars
<1>2. CASE SignAndPost
  BY <1>2 DEF SignAndPost
<1>3. ASSUME NEW w \in Worker, NEW m \in posts, RekeyRead(w, m) PROVE PostInv'
  BY <1>3 DEF RekeyRead, netVars
<1>4. ASSUME NEW w \in Worker, HandleC2Rekey(w) \/ RekeyRejected(w) PROVE PostInv'
  BY <1>4 DEF HandleC2Rekey, RekeyRejected, NoRekey, netVars
<1>5. (\E r \in Registrar : \E k \in 1..MaxKey : RegisterRead(r, k))
      \/ (\E r \in Registrar : RegisterWrite(r))
      \/ AskChallenge \/ HandleC2Challenge \/ NonceExpires \/ SessionEstablished
      \/ HandshakeFails \/ Polling \/ UNCHANGED vars
      => UNCHANGED <<rekey, posts>>
  BY DEF RegisterRead, RegisterWrite, AskChallenge, HandleC2Challenge, NonceExpires,
         SessionEstablished, HandshakeFails, Polling, Poll, AuthDevice, PollAnswered, PollFails,
         Reset, Bond, vars, netVars
<1>6. UNCHANGED <<rekey, posts>> => PostInv'
  OBVIOUS
<1> QED
  BY <1>1, <1>2, <1>3, <1>4, <1>5, <1>6 DEF Next, Registration, Handshake

----------------------------------------------------------------------------
(* Re-bonding: with one registration at a time, RebondInv is inductive.    *)

LEMMA RebondNext ==
  ASSUME OneRegistrar
  PROVE  Typed /\ PostInv /\ RebondInv /\ SessionOfKey /\ [Next]_vars => (RebondInv /\ SessionOfKey)'
<1> SUFFICES ASSUME Typed, PostInv, RebondInv, SessionOfKey, [Next]_vars
             PROVE  (RebondInv /\ SessionOfKey)'
  OBVIOUS
<1> USE DEF RebondInv, SessionOfKey
<1>1. ASSUME NEW r \in Registrar, NEW k \in 1..MaxKey, RegisterRead(r, k)
      PROVE  (RebondInv /\ SessionOfKey)'
  <2>1. \A q \in Registrar : q = r
    BY DEF OneRegistrar
  <2> DEFINE new == [pc |-> "read", key |-> k, rebond |-> pubkey # 0 /\ pubkey # k]
  <2>2. reg'[r] = new
    BY <1>1 DEF RegisterRead, Typed, TypeOK
  <2>3. new.key # 0
    OBVIOUS
  <2>4. ~new.rebond => pubkey \in {0, new.key}
    BY Zenon
  <2> HIDE DEF new
  <2> QED
    BY <1>1, <2>1, <2>2, <2>3, <2>4 DEF RegisterRead, dbVars, hist
<1>2. ASSUME NEW r \in Registrar, RegisterWrite(r) PROVE (RebondInv /\ SessionOfKey)'
  <2>1. \A q \in Registrar : q = r
    BY DEF OneRegistrar
  <2>2. reg'[r].pc = "idle"
    BY <1>2 DEF RegisterWrite, NoReg, Typed, TypeOK
  <2>3. signer' = signer /\ pubkey' = reg[r].key /\ reg[r].key # 0
    BY <1>2 DEF RegisterWrite, hist
  <2>4. CASE reg[r].rebond
    BY <1>2, <2>1, <2>2, <2>3, <2>4 DEF RegisterWrite
  <2>5. CASE ~reg[r].rebond
    BY <1>2, <2>1, <2>2, <2>3, <2>5 DEF RegisterWrite
  <2> QED
    BY <2>4, <2>5
<1>3. CASE Delete
  BY <1>3 DEF Delete, hist
<1>4. ASSUME NEW w \in Worker, HandleC2Rekey(w) PROVE (RebondInv /\ SessionOfKey)'
  <2>1. rekey[w].post \in Offer /\ rekey[w].post.key = pubkey
    BY <1>4 DEF HandleC2Rekey, Typed, TypeOK, RekeyCall
  <2>2. secret' = rekey[w].post.secret /\ pubkey' = pubkey /\ reg' = reg
        /\ signer' = [signer EXCEPT ![secret'] = pubkey]
    BY <1>4 DEF HandleC2Rekey
  <2>3. secret' # 0 => signer'[secret'] = pubkey
    BY <2>1, <2>2 DEF Offer, Typed, TypeOK
  <2>4. pubkey # 0
    <3>1. rekey[w].post \in Post
      BY <1>4 DEF HandleC2Rekey, PostInv, Typed, TypeOK
    <3> QED
      BY <2>1, <3>1 DEF Post
  <2> QED
    BY <2>2, <2>3, <2>4
<1>5. ASSUME UNCHANGED <<pubkey, secret, reg, signer>> PROVE (RebondInv /\ SessionOfKey)'
  BY <1>5
<1>6. AskChallenge \/ HandleC2Challenge \/ NonceExpires \/ SignAndPost
      \/ (\E w \in Worker : \E m \in posts : RekeyRead(w, m))
      \/ (\E w \in Worker : RekeyRejected(w)) \/ SessionEstablished \/ HandshakeFails
      \/ Polling \/ UNCHANGED vars
      => UNCHANGED <<pubkey, secret, reg, signer>>
  BY DEF AskChallenge, HandleC2Challenge, NonceExpires, SignAndPost, RekeyRead, RekeyRejected,
         SessionEstablished, HandshakeFails, Polling, Poll, AuthDevice, PollAnswered, PollFails,
         Reset, Bond, vars, dbVars, hist
<1> QED
  BY <1>1, <1>2, <1>3, <1>4, <1>5, <1>6 DEF Next, Registration, Handshake

LEMMA PostInit == Init => PostInv
  BY DEF Init, PostInv, NoRekey

\* devicestore.Register's promise, for registrations that do not overlap: a
\* session on file was signed with the key on file.
THEOREM SessionBelongsToKey ==
  ASSUME OneRegistrar
  PROVE  Spec => []SessionOfKey
<1>1. Init => RebondInv /\ SessionOfKey
  BY DEF Init, RebondInv, SessionOfKey, NoReg
<1> QED
  BY <1>1, PostInit, PostNext, TypedInit, TypedNext, RebondNext, PTL DEF Spec

----------------------------------------------------------------------------
(* Replays: with one handshake handled at a time, a secret is installed    *)
(* once, so its counter only moves forward.                                *)

Safe == InstallInv /\ NonceSingleUse /\ NoReplay

LEMMA SafeNext ==
  ASSUME OneWorker
  PROVE  Typed /\ PostInv /\ Safe /\ [Next]_vars => Safe'
<1> SUFFICES ASSUME Typed, PostInv, Safe, [Next]_vars PROVE Safe'
  OBVIOUS
<1>0. accepted \subseteq PollMsg /\ posts \subseteq Post
  BY DEF Typed, TypeOK
<1> USE DEF Safe, InstallInv, NonceSingleUse, NoReplay
<1>1. ASSUME NEW r \in Registrar, RegisterWrite(r) PROVE Safe'
  <2>1. (secret' = secret /\ last' = last /\ bootstrapped' = bootstrapped) \/ secret' = 0
    BY <1>1 DEF RegisterWrite
  <2>2. \A m \in accepted : m.secret # 0
    BY <1>0 DEF PollMsg
  <2> QED
    BY <1>1, <2>1, <2>2 DEF RegisterWrite, netVars, drawn, hist
<1>2. CASE Delete
  <2>1. \A m \in accepted : m.secret # 0
    BY <1>0 DEF PollMsg
  <2>2. \A m \in posts : m.nonce # 0
    BY <1>0 DEF Post
  <2> QED
    BY <1>2, <2>1, <2>2 DEF Delete, netVars, drawn, hist
<1>3. CASE HandleC2Challenge
  <2>1. \A m \in posts : m.nonce # nonces + 1 /\ m.nonce <= nonces + 1
    <3>1. nonces \in Nat
      BY DEF Typed, TypeOK
    <3>2. \A m \in posts : m.nonce \in Nat /\ m.nonce <= nonces
      BY <1>0 DEF Post
    <3> QED
      BY <3>1, <3>2
  <2> QED
    BY <1>3, <2>1 DEF HandleC2Challenge, hist
<1>4. CASE SignAndPost
  <2> DEFINE new == [nonce |-> reply, secret |-> secrets + 1, key |-> dkey]
  <2>1. posts' = posts \cup {new} /\ secrets' = secrets + 1
    BY <1>4 DEF SignAndPost
  <2>2. new.nonce = reply /\ new.secret = secrets + 1 /\ reply <= nonces
    BY <1>4 DEF SignAndPost, Typed, TaskInv
  <2>3. signer[secrets + 1] = 0
    BY <1>4 DEF SignAndPost, Typed, TypeOK
  <2>4. UNCHANGED <<dbVars, rekey, nonces, hist>>
    BY <1>4 DEF SignAndPost
  <2> HIDE DEF new
  <2>5. \A m \in posts' : m.nonce <= nonces /\ m.secret <= secrets + 1
    BY <1>0, <2>1, <2>2 DEF Post, Typed, TypeOK
  <2>6. \A s \in 1..MaxSecret : signer[s] # 0 => s <= secrets + 1
    BY DEF Typed, TypeOK
  <2>7. NonceSingleUse'
    BY <2>1, <2>2, <2>3, <2>4 DEF dbVars, hist
  <2> QED
    BY <2>1, <2>4, <2>5, <2>6, <2>7 DEF dbVars, hist
<1>5. ASSUME NEW w \in Worker, NEW m \in posts, RekeyRead(w, m) PROVE Safe'
  <2>1. NonceMatches(m) => signer[m.secret] = 0
    BY DEF NonceMatches
  <2>2. \A v \in Worker : v = w
    BY DEF OneWorker
  <2>3. rekey'[w] = [pc |-> "read", post |-> m, ok |-> NonceMatches(m)]
    BY <1>5 DEF RekeyRead, Typed, TypeOK
  <2>4. rekey'[w].post = m /\ (rekey'[w].ok => NonceMatches(m))
    BY <2>3
  <2>5. UNCHANGED <<dbVars, netVars, drawn, hist>>
    BY <1>5 DEF RekeyRead
  <2> QED
    BY <2>1, <2>2, <2>4, <2>5 DEF dbVars, netVars, drawn, hist
<1>6. ASSUME NEW w \in Worker, HandleC2Rekey(w) PROVE Safe'
  <2> DEFINE m == rekey[w].post
  <2>1. m \in posts /\ m \in Post /\ signer[m.secret] = 0 /\ m.key = pubkey
    BY <1>0, <1>6 DEF HandleC2Rekey, PostInv
  <2>2. \A v \in Worker : v = w
    BY DEF OneWorker
  <2>3. rekey'[w].pc = "idle"
    BY <1>6 DEF HandleC2Rekey, NoRekey, Typed, TypeOK
  <2>4. secret' = m.secret /\ nonce' = 0 /\ signer' = [signer EXCEPT ![m.secret] = pubkey]
    BY <1>6 DEF HandleC2Rekey
  <2>5. UNCHANGED <<posts, drawn, accepted>>
    BY <1>6 DEF HandleC2Rekey
  <2> HIDE DEF m
  <2>6. m.secret \in 1..MaxSecret /\ m.key # 0 /\ m.secret <= secrets
    BY <2>1 DEF Post
  <2>7. \A s \in 1..MaxSecret : signer'[s] = IF s = m.secret THEN pubkey ELSE signer[s]
    BY <2>4, <2>6 DEF Typed, TypeOK
  <2>8. \A n \in accepted : n.secret \in 1..MaxSecret /\ n.secret # m.secret
    BY <1>0, <2>1 DEF PollMsg
  <2>9. InstallInv'
    BY <2>1, <2>2, <2>3, <2>4, <2>5, <2>6, <2>7, <2>8 DEF drawn
  <2>10. NonceSingleUse'
    BY <1>0, <2>4, <2>5 DEF Post
  <2>11. NoReplay'
    BY <2>4, <2>5, <2>8
  <2> QED
    BY <2>9, <2>10, <2>11
<1>7. ASSUME NEW w \in Worker, RekeyRejected(w) PROVE Safe'
  <2>1. \A v \in Worker : v = w
    BY DEF OneWorker
  <2>2. rekey'[w].pc = "idle"
    BY <1>7 DEF RekeyRejected, NoRekey, Typed, TypeOK
  <2> QED
    BY <1>7, <2>1, <2>2 DEF RekeyRejected, dbVars, netVars, drawn, hist
<1>8. CASE Poll
  BY <1>8 DEF Poll, dbVars, drawn, hist
<1>9. ASSUME NEW m \in polls, AuthDevice(m) PROVE Safe'
  <2>1. m \in PollMsg /\ m.secret = secret /\ secret # 0
    BY <1>9 DEF AuthDevice, ValidateSession, Typed, TypeOK
  <2>2. accepted' = accepted \cup {m} /\ last' = m.c /\ bootstrapped' = TRUE
    BY <1>9 DEF AuthDevice
  <2>3. UNCHANGED <<secret, nonce, rekey, posts, drawn, signer>>
    BY <1>9 DEF AuthDevice
  <2>4. \A n \in accepted : n.secret = secret => n.c <= m.c
    BY <1>0, <1>9, <2>1 DEF AuthDevice, ValidateSession, PollMsg, Typed, TypeOK
  <2>5. NoReplay'
    BY <2>1, <2>2, <2>3, <2>4 DEF PollMsg
  <2>6. InstallInv'
    BY <2>1, <2>2, <2>3 DEF drawn
  <2> QED
    BY <2>3, <2>5, <2>6
<1>10. (\E r \in Registrar : \E k \in 1..MaxKey : RegisterRead(r, k)) \/ AskChallenge
       \/ NonceExpires \/ SessionEstablished \/ HandshakeFails \/ PollAnswered \/ PollFails
       \/ (\E keep \in BOOLEAN : Reset(keep)) \/ Bond \/ UNCHANGED vars
       => UNCHANGED <<secret, last, bootstrapped, nonce, rekey, posts, drawn, hist>>
  BY DEF RegisterRead, AskChallenge, NonceExpires, SessionEstablished, HandshakeFails,
         PollAnswered, PollFails, Reset, Bond, vars, dbVars, netVars
<1>11. UNCHANGED <<secret, last, bootstrapped, nonce, rekey, posts, drawn, hist>> => Safe'
  BY DEF drawn, hist
<1> QED
  BY <1>1, <1>2, <1>3, <1>4, <1>5, <1>6, <1>7, <1>8, <1>9, <1>10, <1>11
     DEF Next, Registration, Handshake, Polling

LEMMA SafeInit == Init => Safe
  BY DEF Init, Safe, InstallInv, NonceSingleUse, NoReplay, NoRekey

\* handleC2Rekey's "nonce single-use", for handshakes that are not handled
\* concurrently: no nonce on file was ever used to install a secret.
THEOREM NoncesAreSingleUse ==
  ASSUME OneWorker
  PROVE  Spec => []NonceSingleUse
<1>1. Safe => NonceSingleUse
  BY DEF Safe
<1> QED
  BY <1>1, SafeInit, SafeNext, PostInit, PostNext, TypedInit, TypedNext, PTL DEF Spec

\* ValidateSession's "strictly monotone within the session", under the same
\* assumption: every poll accepted under the stored session is at or below its
\* counter, whatever is delivered late or twice.
THEOREM PollsAreNotReplayed ==
  ASSUME OneWorker
  PROVE  Spec => []NoReplay
<1>1. Safe => NoReplay
  BY DEF Safe
<1> QED
  BY <1>1, SafeInit, SafeNext, PostInit, PostNext, TypedInit, TypedNext, PTL DEF Spec

\* The two together, as the runs check them: nothing a device sent is used twice.
THEOREM NothingIsUsedTwice ==
  ASSUME OneWorker
  PROVE  Spec => []SingleUse
<1> QED
  BY NoncesAreSingleUse, PollsAreNotReplayed, PTL DEF SingleUse

\* With one registration at a time the session on file is of the key on file and
\* not ahead of the device's counter.
THEOREM SessionFitsDevice ==
  ASSUME OneRegistrar
  PROVE  Spec => []SessionMatches
<1> QED
  BY SessionBelongsToKey, BackendNotAhead, PTL DEF SessionMatches

-----------------------------------------------------------------------------
(* The log stream (IngestInv). *)

LEMMA NoPushFacts == NoPush \notin Push /\ NoOffset \notin Offset
  BY LogAssumption DEF NoPush, Push, NoOffset, Offset

LEMMA IngestInvInit == IngestInit => IngestInv
<1> SUFFICES ASSUME IngestInit PROVE IngestInv
  OBVIOUS
<1>1. IsFiniteSet({}) /\ Cardinality({}) = 0
  BY FS_EmptySet
<1>2. IngestTypeOK
  <2>1. epoch \in 1..MaxEpoch /\ total \in Offset /\ acked \in Offset
        /\ curEpoch \in 0..MaxEpoch /\ curAck \in Offset /\ curSeq \in Nat
    BY LogAssumption DEF IngestInit, Offset
  <2>2. late \subseteq Push /\ Cardinality(late) <= MaxLate /\ rows \subseteq RowSet
    BY <1>1, LogAssumption DEF IngestInit
  <2> QED
    BY <2>1, <2>2 DEF IngestInit, IngestTypeOK
<1>3. FlightInv /\ CursorInv /\ OrderInv
  BY DEF IngestInit, FlightInv, CursorInv, OrderInv
<1>4. LogKept
  BY <1>1 DEF IngestInit, LogKept, AckedIsStored, StoredBelow, SeqIsDense, NoFalseSuspect
<1> QED
  BY <1>1, <1>2, <1>3, <1>4 DEF IngestInv, IngestInit

\* What the device and the link do: rows and cursor stay.
LEMMA DeviceTypes ==
  ASSUME IngestTypeOK, IsFiniteSet(late), Log \/ SendPush \/ ReceiveAck \/ PushFails \/ Reboot
  PROVE  IngestTypeOK' /\ IsFiniteSet(late)'
<1> USE LogAssumption
<1>1. CASE Log
  BY <1>1 DEF Log, IngestTypeOK, Offset, setup, cursor
<1>2. CASE SendPush
  <2>1. Oldest \in Offset /\ req' \in Push
    BY <1>2 DEF SendPush, IngestTypeOK, Oldest, Offset, Push
  <2> QED
    BY <1>2, <2>1 DEF SendPush, IngestTypeOK, setup, cursor
<1>3. CASE ReceiveAck
  BY <1>3 DEF ReceiveAck, IngestTypeOK, Offset, NoOffset, setup, cursor
<1>4. CASE PushFails \/ Reboot
  <2>1. late' \subseteq Push /\ Cardinality(late') <= MaxLate /\ IsFiniteSet(late')
    BY <1>4, FS_AddElement DEF PushFails, Reboot, Abandon, IngestTypeOK
  <2> QED
    BY <1>4, <2>1 DEF PushFails, Reboot, Abandon, IngestTypeOK, Offset, setup, cursor
<1> QED
  BY <1>1, <1>2, <1>3, <1>4

LEMMA SameRows ==
  ASSUME rows' = rows, curSeq' = curSeq, fifo' = fifo
  PROVE  /\ SeqIsDense => SeqIsDense'
         /\ NoFalseSuspect => NoFalseSuspect'
  BY DEF SeqIsDense, NoFalseSuspect

LEMMA SameStored ==
  ASSUME rows' = rows, epoch' = epoch, NEW n, StoredBelow(n)
  PROVE  StoredBelow(n)'
  BY DEF StoredBelow, Stored

LEMMA DeviceKeeps ==
  ASSUME IngestInv, Log \/ SendPush \/ ReceiveAck \/ PushFails \/ Reboot
  PROVE  IngestInv'
<1> USE LogAssumption
<1>1. IngestTypeOK' /\ IsFiniteSet(late)' /\ IsFiniteSet(rows)' /\ SeqIsDense' /\ NoFalseSuspect'
  <2>1. UNCHANGED <<setup, cursor, rows>>
    BY DEF Log, SendPush, ReceiveAck, PushFails, Reboot
  <2> QED
    BY <2>1, DeviceTypes, SameRows DEF IngestInv, LogKept, setup, cursor
<1>2. CASE Log
  <2>1. /\ UNCHANGED <<epoch, acked, req, ackReply, late, curEpoch, curAck, rows, fifo>>
        /\ total' = total + 1 /\ total \in Int
    BY <1>2 DEF Log, setup, cursor, IngestInv, IngestTypeOK, Offset
  <2>2. \A n : StoredBelow(n) => StoredBelow(n)'
    BY <2>1, SameStored
  <2>3. \A m \in late \cup {req} : PushInv(m) => PushInv(m)'
    <3>1. \A m \in late \cup {req} : m.end \in Int
      BY DEF IngestInv, IngestTypeOK, Push, NoPush, Offset
    <3> QED
      BY <2>1, <3>1 DEF PushInv
  <2>4. PICK a, k, p : a = acked /\ k = curAck /\ p = ackReply
    OBVIOUS
  <2>5. StoredBelow(a)' /\ (curEpoch = epoch => StoredBelow(k)') /\ (p # NoOffset => StoredBelow(p)')
    BY <2>2, <2>4 DEF IngestInv, LogKept, AckedIsStored, CursorInv, FlightInv
  <2>6. a = acked' /\ k = curAck' /\ p = ackReply'
    BY <2>1, <2>4
  <2>7. AckedIsStored'
    BY <2>5, <2>6 DEF AckedIsStored
  <2>8. FlightInv'
    BY <2>1, <2>3, <2>5, <2>6 DEF IngestInv, FlightInv
  <2>9. CursorInv'
    <3>1. curEpoch' = epoch' => curAck' <= total'
      BY <2>1 DEF IngestInv, CursorInv, IngestTypeOK, Offset
    <3> QED
      BY <2>1, <2>5, <2>6, <3>1 DEF IngestInv, CursorInv
  <2> QED
    BY <1>1, <2>1, <2>7, <2>8, <2>9 DEF IngestInv, LogKept, OrderInv
<1>3. CASE SendPush
  <2>1. /\ UNCHANGED <<epoch, acked, total, ackReply, late, curEpoch, curAck, rows, fifo>>
        /\ req = NoPush /\ req' = [epoch |-> epoch, from |-> Oldest, end |-> total]
        /\ total \in 0..MaxTotal /\ acked \in 0..MaxTotal /\ epoch \in Int /\ total > acked
    BY <1>3 DEF SendPush, setup, cursor, IngestInv, IngestTypeOK, Offset
  <2>2. PICK m : m = req'
    OBVIOUS
  <2>3. m.epoch = epoch /\ m.from = Oldest /\ m.end = total
    BY <2>1, <2>2
  <2>4. PushInv(m)
    BY <2>1, <2>3 DEF PushInv, Oldest
  <2>5. \A x : PushInv(x) => PushInv(x)'
    BY <2>1 DEF PushInv
  <2>6. AckedIsStored' /\ CursorInv'
    BY <2>1 DEF IngestInv, LogKept, AckedIsStored, CursorInv, StoredBelow, Stored
  <2>7. ackReply = NoOffset
    BY <2>1 DEF IngestInv, FlightInv
  <2>8. FlightInv'
    BY <2>1, <2>2, <2>3, <2>4, <2>5, <2>7 DEF IngestInv, FlightInv
  <2>9. OrderInv'
    BY <2>1, <2>2, <2>3 DEF IngestInv, OrderInv, CursorInv
  <2> QED
    BY <1>1, <2>6, <2>8, <2>9 DEF IngestInv, LogKept
<1>4. CASE ReceiveAck
  <2>1. /\ UNCHANGED <<epoch, total, late, curEpoch, curAck, rows, fifo>>
        /\ ackReply # NoOffset /\ req' = NoPush /\ ackReply' = NoOffset
        /\ acked' = IF ackReply > acked /\ ackReply <= total THEN ackReply ELSE acked
        /\ acked \in Int /\ ackReply \in Int
    BY <1>4 DEF ReceiveAck, setup, cursor, IngestInv, IngestTypeOK, Offset, NoOffset
  <2>2. \A n : StoredBelow(n) => StoredBelow(n)'
    BY <2>1, SameStored
  <2>3. PICK a, k : a = acked' /\ k = curAck
    OBVIOUS
  <2>4. StoredBelow(a)' /\ (curEpoch = epoch => StoredBelow(k)')
    <3>1. StoredBelow(acked) /\ StoredBelow(ackReply) /\ (a = acked \/ a = ackReply)
      BY <2>1, <2>3 DEF IngestInv, LogKept, AckedIsStored, FlightInv
    <3>2. StoredBelow(a)
      BY <3>1
    <3> QED
      BY <2>2, <2>3, <3>2 DEF IngestInv, CursorInv
  <2>5. AckedIsStored'
    BY <2>3, <2>4 DEF AckedIsStored
  <2>6. \A m \in late : PushInv(m)'
    <3>1. \A m \in late : m.from \in Int /\ PushInv(m)
      BY DEF IngestInv, IngestTypeOK, Push, Offset, FlightInv
    <3> QED
      BY <2>1, <3>1 DEF PushInv
  <2>7. FlightInv'
    BY <2>1, <2>6 DEF FlightInv
  <2>8. CursorInv'
    BY <2>1, <2>3, <2>4 DEF IngestInv, CursorInv
  <2>9. OrderInv'
    BY <2>1 DEF IngestInv, OrderInv
  <2> QED
    BY <1>1, <2>5, <2>7, <2>8, <2>9 DEF IngestInv, LogKept
<1>5. CASE PushFails \/ Reboot
  <2>1. /\ UNCHANGED <<curEpoch, curAck, rows, fifo>>
        /\ req' = NoPush /\ ackReply' = NoOffset
        /\ late' = late \/ (~fifo /\ req # NoPush /\ late' = late \cup {req})
        /\ epoch \in Int /\ curEpoch \in Int
    BY <1>5 DEF PushFails, Reboot, Abandon, setup, cursor, IngestInv, IngestTypeOK
  <2>2. \A m \in late' : PushInv(m)
    BY <2>1 DEF IngestInv, FlightInv
  <2>3. OrderInv'
    BY <2>1 DEF IngestInv, OrderInv
  <2>4. CASE PushFails
    <3>1. UNCHANGED <<epoch, total, acked>>
      BY <2>4 DEF PushFails
    <3>2. AckedIsStored' /\ CursorInv'
      BY <2>1, <3>1 DEF IngestInv, LogKept, AckedIsStored, CursorInv, StoredBelow, Stored
    <3>3. FlightInv'
      BY <2>1, <2>2, <3>1 DEF FlightInv, PushInv
    <3> QED
      BY <1>1, <2>3, <3>2, <3>3 DEF IngestInv, LogKept
  <2>5. CASE Reboot
    <3>1. epoch' = epoch + 1 /\ total' = 0 /\ acked' = 0
      BY <2>5 DEF Reboot
    <3>2. AckedIsStored'
      BY <3>1 DEF AckedIsStored, StoredBelow
    <3>3. CursorInv'
      BY <2>1, <3>1 DEF IngestInv, CursorInv
    <3>4. \A m \in late' : m.epoch \in Int
      BY <1>1 DEF IngestTypeOK, Push
    <3>5. \A m \in late' : PushInv(m)'
      BY <2>1, <2>2, <3>1, <3>4 DEF PushInv
    <3>6. FlightInv'
      BY <2>1, <3>5 DEF FlightInv
    <3> QED
      BY <1>1, <2>3, <3>2, <3>3, <3>6 DEF IngestInv, LogKept
  <2> QED
    BY <1>5, <2>4, <2>5
<1> QED
  BY <1>2, <1>3, <1>4, <1>5

\* What one transaction of reassembleLog does to rows and cursor.
LEMMA ReassembleTypes ==
  ASSUME IngestTypeOK, IsFiniteSet(rows), NEW m \in Push, ReassembleLog(m)
  PROVE  /\ IsFiniteSet(rows)' /\ rows' \subseteq RowSet /\ NewAck(m) \in Offset
         /\ curEpoch' \in 0..MaxEpoch /\ curAck' \in Offset /\ curSeq' \in Nat
<1> USE LogAssumption
<1>1. PICK r : r = [epoch |-> m.epoch, from |-> m.from, end |-> m.end, start |-> StartOff(m),
                    seq |-> curSeq + 1, gap |-> Gap(m), suspect |-> Suspect(m)]
  OBVIOUS
<1>2. r \in RowSet
  <2>1. StartOff(m) \in Offset \cup {NoOffset} /\ curSeq + 1 \in Nat
    BY DEF StartOff, IngestTypeOK
  <2>2. Gap(m) \in BOOLEAN /\ Suspect(m) \in BOOLEAN
    BY DEF Gap, Suspect
  <2>3. m.epoch \in 1..MaxEpoch /\ m.from \in Offset /\ m.end \in Offset
    BY DEF Push
  <2>4. PICK g \in BOOLEAN : g = Gap(m)
    BY <2>2
  <2>5. PICK q \in BOOLEAN : q = Suspect(m)
    BY <2>2
  <2> QED
    BY <1>1, <2>1, <2>3, <2>4, <2>5 DEF RowSet
<1>3. rows' = rows \/ rows' = rows \cup {r}
  BY <1>1 DEF ReassembleLog
<1>4. IsFiniteSet(rows') /\ rows' \subseteq RowSet
  BY <1>2, <1>3, FS_AddElement DEF IngestTypeOK
<1>5. NewAck(m) \in Offset
  BY DEF NewAck, IngestTypeOK, Push
<1> QED
  BY <1>4, <1>5 DEF ReassembleLog, IngestTypeOK, Push

\* A key is stored once, and a new row takes the next seq.
LEMMA ReassembleDense ==
  ASSUME IngestTypeOK, IsFiniteSet(rows), SeqIsDense, NEW m \in Push, ReassembleLog(m)
  PROVE  SeqIsDense'
<1>1. CASE Known(m)
  BY <1>1, SameRows DEF ReassembleLog, SeqIsDense
<1>2. CASE ~Known(m)
  <2>1. PICK r : r = [epoch |-> m.epoch, from |-> m.from, end |-> m.end, start |-> StartOff(m),
                      seq |-> curSeq + 1, gap |-> Gap(m), suspect |-> Suspect(m)]
    OBVIOUS
  <2>2. rows' = rows \cup {r} /\ curSeq' = curSeq + 1 /\ r.epoch = m.epoch /\ r.end = m.end
        /\ r.seq = curSeq + 1 /\ curSeq \in Nat
    BY <1>2, <2>1 DEF ReassembleLog, IngestTypeOK
  <2> HIDE <2>1
  <2>3. \A s \in rows : ~(s.epoch = r.epoch /\ s.end = r.end)
    BY <1>2, <2>2 DEF Known
  <2>4. r \notin rows /\ Cardinality(rows') = curSeq + 1
    BY <2>2, <2>3, FS_AddElement DEF SeqIsDense
  <2>5. {s.seq : s \in rows'} = 1..(curSeq + 1)
    <3>1. {s.seq : s \in rows'} = {s.seq : s \in rows} \cup {curSeq + 1}
      BY <2>2
    <3>2. 1..(curSeq + 1) = 1..curSeq \cup {curSeq + 1}
      BY <2>2
    <3> QED
      BY <3>1, <3>2 DEF SeqIsDense
  <2>6. \A s, u \in rows' : s.epoch = u.epoch /\ s.end = u.end => s = u
    BY <2>2, <2>3 DEF SeqIsDense
  <2> QED
    BY <2>2, <2>4, <2>5, <2>6 DEF SeqIsDense
<1> QED
  BY <1>1, <1>2

\* What the cursor reaches with a push is stored with it.
LEMMA ReassembleStores ==
  ASSUME IngestInv, NEW m \in Push, PushInv(m), ReassembleLog(m)
  PROVE  /\ CursorInv' /\ curEpoch' \in Int
         /\ \A n : StoredBelow(n) => StoredBelow(n)'
         /\ m.epoch = epoch => curEpoch' = epoch
<1> USE LogAssumption
<1>1. PICK r : r = [epoch |-> m.epoch, from |-> m.from, end |-> m.end, start |-> StartOff(m),
                    seq |-> curSeq + 1, gap |-> Gap(m), suspect |-> Suspect(m)]
  OBVIOUS
<1>2. r.epoch = m.epoch /\ r.from = m.from /\ r.end = m.end
  BY <1>1
<1>3. /\ rows' = IF Known(m) THEN rows ELSE rows \cup {r}
      /\ curEpoch' = (IF m.epoch > curEpoch THEN m.epoch ELSE curEpoch) /\ curAck' = NewAck(m)
      /\ epoch' = epoch /\ total' = total /\ acked' = acked
  BY <1>1 DEF ReassembleLog, device
<1> HIDE <1>1
<1>4. /\ m.epoch \in Int /\ m.from \in Int /\ m.end \in Int /\ curEpoch \in Int /\ curAck \in Int
      /\ epoch \in Int /\ total \in Int /\ acked \in Int
      /\ \A s \in rows : s.epoch \in Int /\ s.end \in Int /\ s.from \in Int
  BY DEF IngestInv, IngestTypeOK, Push, Offset, RowSet
<1>5. \A n : StoredBelow(n) => StoredBelow(n)'
  <2>1. \A b : Stored(b) => Stored(b)'
    BY <1>3 DEF Stored
  <2> QED
    BY <2>1 DEF StoredBelow
<1>6. \A s \in rows' : s.epoch < curEpoch' \/ (s.epoch = curEpoch' /\ s.end <= curAck')
  <2>1. \A s \in rows : s.epoch < curEpoch' \/ (s.epoch = curEpoch' /\ s.end <= curAck')
    BY <1>3, <1>4 DEF IngestInv, CursorInv, NewAck
  <2>2. r.epoch < curEpoch' \/ (r.epoch = curEpoch' /\ r.end <= curAck')
    BY <1>2, <1>3, <1>4 DEF NewAck
  <2> QED
    BY <1>3, <2>1, <2>2
<1>7. ASSUME m.epoch = epoch, m.epoch > curEpoch \/ m.end > curAck PROVE StoredBelow(m.end)'
  <2>1. m.epoch >= curEpoch
    BY <1>4, <1>7 DEF IngestInv, CursorInv
  <2>2. ~Known(m)
    BY <1>4, <1>7, <2>1 DEF Known, IngestInv, CursorInv
  <2>3. r \in rows' /\ r.epoch = epoch'
    BY <1>2, <1>3, <1>7, <2>2
  <2>4. PICK a, e : a = acked /\ e = m.end
    OBVIOUS
  <2>5. StoredBelow(a)'
    BY <1>5, <2>4 DEF IngestInv, LogKept, AckedIsStored
  <2>6. ASSUME NEW b \in 0..(e - 1) PROVE Stored(b)'
    <3>1. CASE m.from <= b
      BY <1>2, <1>4, <2>3, <2>4, <3>1 DEF Stored
    <3>2. CASE b < m.from /\ m.end - m.from = Ring
      BY <1>2, <2>3, <3>2 DEF Stored
    <3>3. CASE b < m.from /\ m.from <= acked
      <4>1. b \in 0..(a - 1)
        BY <1>4, <2>4, <3>3
      <4> QED
        BY <2>5, <4>1 DEF StoredBelow
    <3>4. b < m.from => m.end - m.from = Ring \/ m.from <= acked
      BY <1>7 DEF PushInv
    <3> QED
      BY <1>4, <3>1, <3>2, <3>3, <3>4
  <2>7. StoredBelow(e)'
    BY <2>6 DEF StoredBelow
  <2> QED
    BY <2>4, <2>7 DEF StoredBelow
<1>8. ASSUME curEpoch' = epoch' PROVE curAck' <= total' /\ StoredBelow(curAck)'
  <2>1. CASE m.epoch > curEpoch \/ (m.epoch = curEpoch /\ m.end > curAck)
    <3>1. m.epoch = epoch /\ curAck' = m.end
      BY <1>3, <1>4, <1>8, <2>1 DEF NewAck
    <3>2. m.end <= total
      BY <3>1 DEF PushInv
    <3>3. PICK e : e = m.end
      OBVIOUS
    <3>4. StoredBelow(e)' /\ e = curAck'
      BY <1>7, <2>1, <3>1, <3>3 DEF StoredBelow
    <3> QED
      BY <1>3, <3>1, <3>2, <3>4 DEF StoredBelow
  <2>2. CASE ~(m.epoch > curEpoch \/ (m.epoch = curEpoch /\ m.end > curAck))
    <3>1. curEpoch = epoch /\ curAck' = curAck
      BY <1>3, <1>4, <1>8, <2>2 DEF NewAck
    <3>2. PICK k : k = curAck
      OBVIOUS
    <3>3. StoredBelow(k) /\ k <= total
      BY <3>1, <3>2 DEF IngestInv, CursorInv
    <3>4. StoredBelow(k)' /\ k = curAck'
      BY <1>5, <3>1, <3>2, <3>3
    <3> QED
      BY <1>3, <3>3, <3>4 DEF StoredBelow
  <2> QED
    BY <2>1, <2>2
<1>9. curEpoch' <= epoch' /\ (m.epoch = epoch => curEpoch' = epoch) /\ curEpoch' \in Int
  BY <1>3, <1>4 DEF IngestInv, CursorInv, PushInv
<1>10. CursorInv'
  BY <1>6, <1>8, <1>9 DEF CursorInv
<1> QED
  BY <1>5, <1>9, <1>10

LEMMA IngestKeeps ==
  ASSUME IngestInv, HandleIngest
  PROVE  IngestInv'
<1> USE LogAssumption
<1>1. req # NoPush /\ req \in Push /\ req.epoch = epoch /\ PushInv(req) /\ UNCHANGED late
  BY DEF HandleIngest, IngestInv, IngestTypeOK, FlightInv
<1>2. CASE SkipFrame(req) /\ UNCHANGED ackReply
  BY <1>1, <1>2, SameRows
     DEF SkipFrame, setup, device, cursor, IngestInv, IngestTypeOK, FlightInv, PushInv, CursorInv,
         OrderInv, LogKept, AckedIsStored, StoredBelow, Stored
<1>3. CASE ReassembleLog(req) /\ ackReply' = NewAck(req)
  <2>1. PICK m \in Push : m = req
    BY <1>1
  <2>2. m # NoPush /\ m.epoch = epoch /\ PushInv(m) /\ ReassembleLog(m) /\ ackReply' = NewAck(m)
    BY <1>1, <1>3, <2>1
  <2>3. UNCHANGED <<explicit, fifo, epoch, total, acked, req, skipped, late>> /\ curAck' = NewAck(m)
    BY <1>1, <2>2 DEF ReassembleLog, setup, device
  <2>4. IngestTypeOK' /\ IsFiniteSet(rows)' /\ IsFiniteSet(late)'
    BY <2>2, <2>3, ReassembleTypes DEF IngestInv, IngestTypeOK
  <2>5. /\ CursorInv' /\ curEpoch' = epoch /\ (\A n : StoredBelow(n) => StoredBelow(n)')
    BY <2>2, ReassembleStores
  <2>6. SeqIsDense'
    BY <2>2, ReassembleDense DEF IngestInv, LogKept
  <2>7. AckedIsStored'
    <3>1. PICK a : a = acked
      OBVIOUS
    <3>2. StoredBelow(a)' /\ a = acked'
      BY <2>3, <2>5, <3>1 DEF IngestInv, LogKept, AckedIsStored
    <3> QED
      BY <3>2 DEF AckedIsStored
  <2>8. FlightInv'
    <3>1. \A x : PushInv(x) => PushInv(x)'
      BY <2>3 DEF PushInv
    <3>2. \A x \in late' : PushInv(x)'
      BY <2>3, <3>1 DEF IngestInv, FlightInv
    <3>3. req' # NoPush /\ req'.epoch = epoch' /\ PushInv(req)'
      BY <2>1, <2>2, <2>3, <3>1
    <3>4. StoredBelow(ackReply)'
      <4>1. PICK k : k = curAck'
        OBVIOUS
      <4>2. StoredBelow(k)' /\ k = ackReply'
        BY <2>2, <2>3, <2>5, <4>1 DEF CursorInv
      <4> QED
        BY <4>2
    <3> QED
      BY <2>3, <2>5, <3>2, <3>3, <3>4 DEF FlightInv
  <2>9. ASSUME fifo PROVE late = {} /\ ~Suspect(m) /\ curAck' <= m.end
    <3>1. curEpoch \in Int /\ curAck \in Int /\ epoch \in Int /\ m.end \in Int /\ curEpoch <= epoch
      BY DEF IngestInv, IngestTypeOK, CursorInv, Push, Offset
    <3>2. late = {} /\ (curEpoch = epoch => curAck <= m.end)
      BY <2>1, <2>2, <2>9 DEF IngestInv, OrderInv
    <3> QED
      BY <2>2, <2>3, <3>1, <3>2 DEF Suspect, NewAck
  <2>10. OrderInv'
    BY <2>1, <2>3, <2>9 DEF OrderInv
  <2>11. NoFalseSuspect'
    <3>1. ASSUME fifo, NEW r \in rows' PROVE ~r.suspect
      <4>1. PICK q \in BOOLEAN : q = Suspect(m)
        BY DEF Suspect
      <4>2. ~q
        BY <2>9, <3>1, <4>1
      <4>3. r \in rows \/ r = [epoch |-> m.epoch, from |-> m.from, end |-> m.end, start |-> StartOff(m),
                               seq |-> curSeq + 1, gap |-> Gap(m), suspect |-> q]
        BY <2>2, <3>1, <4>1 DEF ReassembleLog
      <4> QED
        BY <3>1, <4>2, <4>3 DEF IngestInv, LogKept, NoFalseSuspect
    <3> QED
      BY <2>3, <3>1 DEF NoFalseSuspect
  <2> QED
    BY <2>4, <2>5, <2>6, <2>7, <2>8, <2>10, <2>11 DEF IngestInv, LogKept
<1> QED
  BY <1>2, <1>3 DEF HandleIngest

LEMMA LateKeeps ==
  ASSUME IngestInv, NEW m \in late, HandleLate(m)
  PROVE  IngestInv'
<1> USE LogAssumption
<1>1. /\ m \in Push /\ PushInv(m) /\ ~fifo /\ late' = late \ {m}
      /\ UNCHANGED <<explicit, fifo, epoch, total, acked, req, ackReply>>
  BY DEF HandleLate, SkipFrame, ReassembleLog, setup, device, IngestInv, IngestTypeOK, FlightInv, OrderInv
<1>2. IsFiniteSet(late)' /\ Cardinality(late') <= MaxLate /\ late' \subseteq Push
  <2>1. IsFiniteSet(late') /\ Cardinality(late') <= Cardinality(late) /\ Cardinality(late') \in Nat
        /\ Cardinality(late) \in Nat
    BY <1>1, FS_Subset, FS_CardinalityType DEF IngestInv
  <2> QED
    BY <1>1, <2>1 DEF IngestInv, IngestTypeOK
<1>3. OrderInv' /\ NoFalseSuspect'
  BY <1>1 DEF OrderInv, NoFalseSuspect
<1>4. /\ IngestTypeOK' /\ IsFiniteSet(rows)' /\ SeqIsDense' /\ CursorInv' /\ curEpoch' >= curEpoch
      /\ \A n : StoredBelow(n) => StoredBelow(n)'
  <2>1. CASE SkipFrame(m)
    <3>1. UNCHANGED <<rows, curEpoch, curAck, curSeq>> /\ skipped' \in BOOLEAN /\ curEpoch \in Int
      BY <2>1 DEF SkipFrame, cursor, IngestInv, IngestTypeOK
    <3>2. IngestTypeOK' /\ IsFiniteSet(rows)' /\ SeqIsDense'
      BY <1>1, <1>2, <3>1, SameRows DEF IngestInv, IngestTypeOK, LogKept
    <3>3. CursorInv' /\ \A n : StoredBelow(n) => StoredBelow(n)'
      BY <1>1, <3>1 DEF IngestInv, CursorInv, StoredBelow, Stored
    <3> QED
      BY <3>1, <3>2, <3>3
  <2>2. CASE ReassembleLog(m)
    <3>1. skipped' = skipped /\ curEpoch' >= curEpoch
      BY <1>1, <2>2 DEF ReassembleLog, IngestInv, IngestTypeOK, Push
    <3>2. IngestTypeOK' /\ IsFiniteSet(rows)'
      BY <1>1, <1>2, <2>2, <3>1, ReassembleTypes DEF IngestInv, IngestTypeOK
    <3> QED
      BY <1>1, <2>2, <3>1, <3>2, ReassembleDense, ReassembleStores DEF IngestInv, LogKept
  <2> QED
    BY <2>1, <2>2 DEF HandleLate
<1>5. PICK a, p : a = acked /\ p = ackReply
  OBVIOUS
<1>6. StoredBelow(a)' /\ (p # NoOffset => StoredBelow(p)')
  BY <1>4, <1>5 DEF IngestInv, LogKept, AckedIsStored, FlightInv
<1>7. AckedIsStored'
  BY <1>1, <1>5, <1>6 DEF AckedIsStored
<1>8. FlightInv'
  <2>1. \A x : PushInv(x) => PushInv(x)'
    BY <1>1 DEF PushInv
  <2>2. \A x \in late' : PushInv(x)'
    BY <1>1, <2>1 DEF IngestInv, FlightInv
  <2>3. req # NoPush => req'.epoch = epoch' /\ PushInv(req)'
    <3>1. PICK q : q = req
      OBVIOUS
    <3>2. req # NoPush => q.epoch = epoch /\ PushInv(q)' /\ q = req'
      BY <1>1, <2>1, <3>1 DEF IngestInv, FlightInv
    <3> QED
      BY <1>1, <3>2
  <2>4. ackReply # NoOffset => req # NoPush /\ curEpoch' = epoch'
    <3>1. curEpoch \in Int /\ curEpoch' \in Int /\ epoch \in Int
      BY <1>4 DEF IngestInv, IngestTypeOK
    <3> QED
      BY <1>1, <1>4, <3>1 DEF IngestInv, FlightInv, CursorInv
  <2>5. ackReply # NoOffset => StoredBelow(ackReply)'
    BY <1>1, <1>5, <1>6
  <2> QED
    BY <1>1, <2>2, <2>3, <2>4, <2>5 DEF FlightInv
<1> QED
  BY <1>2, <1>3, <1>4, <1>7, <1>8 DEF IngestInv, LogKept

LEMMA IngestInvNext == IngestInv /\ [IngestNext]_ingestVars => IngestInv'
<1>1. ASSUME IngestInv, IngestNext PROVE IngestInv'
  BY <1>1, DeviceKeeps, IngestKeeps, LateKeeps DEF IngestNext
<1>2. ASSUME IngestInv, UNCHANGED ingestVars PROVE IngestInv'
  BY <1>2, SameRows
     DEF ingestVars, setup, device, cursor, IngestInv, IngestTypeOK, FlightInv, PushInv, CursorInv,
         OrderInv, LogKept, AckedIsStored, StoredBelow, Stored
<1> QED
  BY <1>1, <1>2

LEMMA CursorNext == IngestInv /\ [IngestNext]_ingestVars => [CursorForward]_ingestVars
<1> SUFFICES ASSUME IngestInv, IngestNext PROVE CursorForward
  OBVIOUS
<1>1. curEpoch \in Int /\ curAck \in Int
  BY DEF IngestInv, IngestTypeOK, Offset
<1>2. ASSUME NEW m \in Push, ReassembleLog(m) PROVE CursorForward
  <2>1. m.epoch \in Int /\ m.end \in Int
    BY DEF Push, Offset
  <2> QED
    BY <1>1, <1>2, <2>1 DEF ReassembleLog, CursorForward, NewAck
<1>3. CASE UNCHANGED <<curEpoch, curAck>>
  BY <1>1, <1>3 DEF CursorForward
<1>4. CASE HandleIngest
  <2>1. req \in Push
    BY <1>4 DEF HandleIngest, IngestInv, IngestTypeOK
  <2> QED
    BY <1>2, <1>3, <1>4, <2>1 DEF HandleIngest, SkipFrame, cursor
<1>5. ASSUME NEW m \in late, HandleLate(m) PROVE CursorForward
  <2>1. m \in Push
    BY DEF IngestInv, IngestTypeOK
  <2> QED
    BY <1>2, <1>3, <1>5, <2>1 DEF HandleLate, SkipFrame, cursor
<1> QED
  BY <1>3, <1>4, <1>5 DEF IngestNext, Log, SendPush, ReceiveAck, PushFails, Reboot, cursor

(* What a device was told is stored is stored, up to what its ring had     *)
(* overrun; the rows are numbered densely and once per key; in order       *)
(* nothing is called suspect; and the cursor of reassembleLog never falls  *)
(* back, whatever is lost, late or repeated.                               *)
THEOREM LogsAreKept == IngestSpec => []LogKept /\ [][CursorForward]_ingestVars
<1>1. IngestSpec => []IngestInv
  BY IngestInvInit, IngestInvNext, PTL DEF IngestSpec
<1>2. IngestInv => LogKept
  BY DEF IngestInv
<1> QED
  BY <1>1, <1>2, CursorNext, PTL DEF IngestSpec

-----------------------------------------------------------------------------
(* The rebuild of what was stored (TilesInv).                              *)

\* Every set of numbers has a least one: the induction the rebuild needs.
LEMMA LeastNumber == ASSUME NEW T, T \subseteq Nat, T # {} PROVE \E x \in T : \A y \in T : x <= y
<1> DEFINE R == StrictSubsetOrdering(Nat)
           S == FiniteSubsetsOf(Nat)
           U == {0..n : n \in T}
<1>1. IsWellFoundedOn(R, S)
  BY FS_StrictSubsetOrderingWellFounded
<1>2. \A n \in T : 0..n \in S
  <2> SUFFICES ASSUME NEW n \in T PROVE 0..n \in S
    OBVIOUS
  <2>1. IsFiniteSet(0..n)
    BY FS_Interval
  <2>2. 0..n \subseteq Nat
    OBVIOUS
  <2> QED
    BY <2>1, <2>2 DEF FiniteSubsetsOf
<1>3. U \subseteq S /\ U # {}
  BY <1>2
<1>4. PICK u \in U : \A v \in U : ~(<<v, u>> \in R)
  <2> HIDE DEF R, S, U
  <2> QED
    BY <1>1, <1>3, WFMin
<1>5. PICK x \in T : u = 0..x
  OBVIOUS
<1>6. ASSUME NEW y \in T, y < x PROVE FALSE
  <2>1. 0..y \subseteq 0..x /\ 0..y # 0..x
    <3>1. x \in 0..x /\ x \notin 0..y
      BY <1>6
    <3> QED
      BY <1>6, <3>1
  <2>2. <<0..y, 0..x>> \in R
    BY <1>2, <2>1 DEF StrictSubsetOrdering, FiniteSubsetsOf
  <2> QED
    BY <1>4, <1>5, <2>2
<1>7. \A y \in T : ~(y < x)
  BY <1>6
<1>8. \A y \in T : x <= y
  BY <1>7
<1> QED
  BY <1>8

LEMMA RowTypes ==
  ASSUME IngestTypeOK, NEW r \in rows
  PROVE  /\ r.epoch \in Nat /\ r.from \in Nat /\ r.end \in Nat /\ r.start \in Int /\ r.gap \in BOOLEAN
         /\ r.start # NoOffset => r.start \in Nat
<1> USE LogAssumption
<1>1. r \in RowSet
  BY DEF IngestTypeOK
<1>2. r.epoch \in 1..MaxEpoch /\ r.from \in Offset /\ r.end \in Offset /\ r.start \in Offset \cup {NoOffset}
      /\ r.gap \in BOOLEAN
  BY <1>1 DEF RowSet
<1>3. Offset \subseteq Nat /\ 1..MaxEpoch \subseteq Nat
  BY DEF Offset
<1>4. NoOffset \in Int
  BY DEF NoOffset
<1>5. r.start \in Int /\ (r.start # NoOffset => r.start \in Nat)
  <2>1. CASE r.start = NoOffset
    BY <1>4, <2>1
  <2>2. CASE r.start \in Offset
    <3>1. r.start \in Nat
      BY <1>3, <2>2, Zenon
    <3> QED
      BY <3>1
  <2> QED
    BY <1>2, <2>1, <2>2
<1>6. r.epoch \in Nat /\ r.from \in Nat /\ r.end \in Nat
  BY <1>2, <1>3
<1> QED
  BY <1>2, <1>5, <1>6

\* A new row's span begins at the cursor, which no row is beyond.
LEMMA ReassembleTiles ==
  ASSUME ReadInv, NEW m \in Push, m.from <= m.end, ReassembleLog(m)
  PROVE  TilesInv'
<1> USE LogAssumption
<1>1. SUFFICES ASSUME ~Known(m) PROVE TilesInv'
  <2>1. CASE Known(m)
    BY <2>1 DEF ReassembleLog, ReadInv, TilesInv, Fragments
  <2> QED
    BY <1>1, <2>1
<1>2. PICK n : n = [epoch |-> m.epoch, from |-> m.from, end |-> m.end, start |-> StartOff(m),
                    seq |-> curSeq + 1, gap |-> Gap(m), suspect |-> Suspect(m)]
  OBVIOUS
<1>3. rows' = rows \cup {n}
  BY <1>1, <1>2 DEF ReassembleLog
<1>4. n.epoch = m.epoch /\ n.from = m.from /\ n.end = m.end /\ n.start = StartOff(m)
  BY <1>2
<1>5. IngestTypeOK /\ TilesInv
  BY DEF ReadInv, IngestInv
<1>6. n.start # NoOffset => n.epoch = curEpoch /\ n.start = curAck /\ curAck < n.end /\ curAck \in Nat
  BY <1>4, <1>5 DEF StartOff, IngestTypeOK, Offset
<1>7. ASSUME NEW s \in rows, s.epoch = curEpoch PROVE s.end <= curAck
  <2>1. s.epoch \in Int /\ curEpoch \in Int
    BY <1>5, RowTypes DEF IngestTypeOK
  <2> QED
    BY <1>7, <2>1 DEF ReadInv, IngestInv, CursorInv
<1>8. ASSUME NEW r \in rows, NEW s \in rows, s.epoch = r.epoch, r.start # NoOffset, s.start # NoOffset
      PROVE  s = r \/ s.end <= r.start \/ r.end <= s.start
  BY <1>5, <1>8 DEF TilesInv, Fragments
<1>9. ASSUME NEW r \in rows' PROVE r.from <= r.end /\ (r.start # NoOffset => r.start < r.end)
  BY <1>3, <1>4, <1>5, <1>6, <1>9 DEF TilesInv
<1>10. ASSUME NEW r \in rows', NEW s \in rows', s.epoch = r.epoch, r.start # NoOffset, s.start # NoOffset
       PROVE  s = r \/ s.end <= r.start \/ r.end <= s.start
  <2>1. CASE r \in rows /\ s \in rows
    BY <1>8, <1>10, <2>1
  <2>2. CASE r = n /\ s \in rows
    BY <1>6, <1>7, <1>10, <2>2
  <2>3. CASE s = n /\ r \in rows
    BY <1>6, <1>7, <1>10, <2>3
  <2> QED
    BY <1>3, <2>1, <2>2, <2>3
<1> QED
  BY <1>9, <1>10 DEF TilesInv, Fragments

LEMMA ReadNext == ReadInv /\ [IngestNext]_ingestVars => ReadInv'
<1> SUFFICES ASSUME ReadInv, [IngestNext]_ingestVars PROVE ReadInv'
  OBVIOUS
<1>1. IngestInv'
  BY IngestInvNext DEF ReadInv
<1>2. CASE UNCHANGED rows
  BY <1>1, <1>2 DEF ReadInv, TilesInv, Fragments
<1>3. ASSUME NEW m \in Push, PushInv(m), ReassembleLog(m) PROVE ReadInv'
  BY <1>1, <1>3, ReassembleTiles DEF ReadInv, PushInv
<1>4. CASE HandleIngest
  <2>1. req \in Push /\ PushInv(req)
    BY <1>4 DEF HandleIngest, ReadInv, IngestInv, IngestTypeOK, FlightInv
  <2> QED
    BY <1>2, <1>3, <1>4, <2>1 DEF HandleIngest, SkipFrame
<1>5. ASSUME NEW m \in late, HandleLate(m) PROVE ReadInv'
  <2>1. m \in Push /\ PushInv(m)
    BY DEF ReadInv, IngestInv, IngestTypeOK, FlightInv
  <2> QED
    BY <1>2, <1>3, <1>5, <2>1 DEF HandleLate, SkipFrame
<1> QED
  BY <1>2, <1>4, <1>5 DEF IngestNext, Log, SendPush, ReceiveAck, PushFails, Reboot, ingestVars

\* The order of the sort is a strict order in which no two rows of a boot are equal.
Orders(S) ==
  /\ IsFiniteSet(S)
  /\ \A f \in S : ~Before(f, f)
  /\ \A f, g \in S : f = g \/ Before(f, g) \/ Before(g, f)
  /\ \A f, g, h \in S : Before(f, g) /\ Before(g, h) => Before(f, h)

Lists(o, S) ==
  /\ o \in Seq(S)
  /\ \A k, m \in DOMAIN o : k < m => Before(o[k], o[m])
  /\ \A f \in S : \E k \in DOMAIN o : o[k] = f

LEMMA FragmentsOrdered == ASSUME ReadInv, NEW e PROVE Orders(Fragments(e))
<1> DEFINE S == Fragments(e)
<1>1. IsFiniteSet(S)
  BY FS_Subset DEF ReadInv, IngestInv, Fragments
<1>2. ASSUME NEW f \in S PROVE SortKey(f) \in Int /\ f.end \in Int
  <2>1. f \in rows
    BY DEF Fragments
  <2> QED
    BY <2>1, RowTypes DEF ReadInv, IngestInv, SortKey
<1>3. \A f, g \in S : f.end = g.end => f = g
  BY DEF Fragments, ReadInv, IngestInv, LogKept, SeqIsDense
<1> HIDE DEF S
<1>4. \A f \in S : ~Before(f, f)
  BY <1>2 DEF Before
<1>5. \A f, g \in S : f = g \/ Before(f, g) \/ Before(g, f)
  BY <1>2, <1>3 DEF Before
<1>6. \A f, g, h \in S : Before(f, g) /\ Before(g, h) => Before(f, h)
  BY <1>2 DEF Before
<1>7. Orders(S)
  BY <1>1, <1>4, <1>5, <1>6 DEF Orders
<1> QED
  BY <1>7 DEF S

\* The sort that Reconstruct begins with: rank in its order, which nobody shares.
LEMMA ArrangedLists ==
  ASSUME NEW S, Orders(S)
  PROVE  Lists(Arranged(S), S)
<1> DEFINE Under(i) == {j \in S : Before(j, i)}
           n == Cardinality(S)
           f == [i \in S |-> Cardinality(Under(i)) + 1]
           o == Arranged(S)
<1>1. IsFiniteSet(S) /\ n \in Nat
  BY FS_CardinalityType DEF Orders
<1>2. \A i \in S : ~Before(i, i)
  BY DEF Orders
<1>3. \A i, j \in S : i = j \/ Before(i, j) \/ Before(j, i)
  BY DEF Orders
<1>4. \A i, j, k \in S : Before(i, j) /\ Before(j, k) => Before(i, k)
  BY DEF Orders
<1>5. ASSUME NEW i \in S
      PROVE  IsFiniteSet(Under(i)) /\ Cardinality(Under(i)) \in Nat /\ Cardinality(Under(i)) + 1 <= n
  <2>1. Under(i) \subseteq S \ {i}
    BY <1>2
  <2>2. IsFiniteSet(S \ {i}) /\ Cardinality(S \ {i}) = n - 1
    BY <1>1, FS_RemoveElement
  <2> HIDE DEF Under
  <2>3. IsFiniteSet(Under(i)) /\ Cardinality(Under(i)) <= Cardinality(S \ {i})
    BY <2>1, <2>2, FS_Subset
  <2>4. Cardinality(Under(i)) \in Nat
    BY <2>3, FS_CardinalityType
  <2> HIDE DEF n
  <2> QED
    BY <1>1, <2>2, <2>3, <2>4
<1>6. ASSUME NEW i \in S, NEW j \in S, Before(i, j)
      PROVE  Cardinality(Under(i)) < Cardinality(Under(j))
  <2>1. Under(i) \cup {i} \subseteq Under(j) /\ i \notin Under(i)
    BY <1>2, <1>4, <1>6
  <2> HIDE DEF Under
  <2>2. Cardinality(Under(i) \cup {i}) = Cardinality(Under(i)) + 1
    BY <1>5, <2>1, FS_AddElement
  <2>3. Cardinality(Under(i) \cup {i}) <= Cardinality(Under(j))
    BY <1>5, <2>1, FS_Subset
  <2> QED
    BY <1>5, <2>2, <2>3
<1>7. f \in [S -> 1..n] /\ \A i \in S : f[i] = Cardinality(Under(i)) + 1
  <2> HIDE DEF Under, n
  <2>1. \A i \in S : Cardinality(Under(i)) + 1 \in 1..n
    BY <1>1, <1>5
  <2> QED
    BY <2>1
<1>8. \A i \in S : f[i] \in Int
  BY <1>7
<1>9. ASSUME NEW i \in S, NEW j \in S, Before(i, j) PROVE f[i] < f[j]
  <2> HIDE DEF Under, f
  <2> QED
    BY <1>5, <1>6, <1>7, <1>9
<1>10. ASSUME NEW i \in S, NEW j \in S, f[i] = f[j] PROVE i = j
  <2>1. ~Before(i, j) /\ ~Before(j, i)
    <3> HIDE DEF f
    <3> QED
      BY <1>8, <1>9, <1>10
  <2> QED
    BY <1>3, <2>1
<1>11. f \in Surjection(S, 1..n)
  <2> HIDE DEF f
  <2>1. f \in Injection(S, 1..n)
    BY <1>7, <1>10 DEF Injection, IsInjective
  <2>2. IsFiniteSet(1..n) /\ Cardinality(1..n) = n
    BY <1>1, FS_Interval
  <2> QED
    BY <1>1, <2>1, <2>2, FS_Injection
<1>12. DOMAIN o = 1..n /\ \A k \in 1..n : o[k] = CHOOSE i \in S : Cardinality(Under(i)) = k - 1
  BY DEF Arranged
<1>13. ASSUME NEW k \in 1..n PROVE o[k] \in S /\ f[o[k]] = k
  <2>1. PICK i \in S : f[i] = k
    <3> HIDE DEF f
    <3> QED
      BY <1>11, <1>13 DEF Surjection
  <2>2. Cardinality(Under(i)) = k - 1
    <3> HIDE DEF f, Under
    <3> QED
      BY <1>5, <1>7, <2>1
  <2>3. o[k] \in S /\ Cardinality(Under(o[k])) = k - 1
    <3> HIDE DEF o, Under
    <3> QED
      BY <1>12, <2>2
  <2> HIDE DEF f, Under, o
  <2> QED
    BY <1>7, <2>3
<1>14. o \in Seq(S)
  <2>1. o = [k \in 1..n |-> CHOOSE i \in S : Cardinality(Under(i)) = k - 1]
    BY DEF Arranged
  <2> HIDE DEF o, n, f, Under
  <2>2. o = [k \in 1..n |-> o[k]]
    BY <2>1
  <2> QED
    BY <1>1, <1>13, <2>2
<1>15. ASSUME NEW k \in 1..n, NEW m \in 1..n, k < m PROVE Before(o[k], o[m])
  <2> HIDE DEF o, f
  <2>1. o[k] \in S /\ o[m] \in S /\ f[o[k]] = k /\ f[o[m]] = m
    BY <1>13
  <2>2. k # m /\ ~(m < k)
    <3> HIDE DEF n
    <3> QED
      BY <1>1, <1>15
  <2>3. o[k] # o[m] /\ ~Before(o[m], o[k])
    BY <1>9, <2>1, <2>2
  <2> QED
    BY <1>3, <2>1, <2>3
<1>16. ASSUME NEW i \in S PROVE \E k \in DOMAIN o : o[k] = i
  <2> HIDE DEF o, f
  <2>1. f[i] \in 1..n
    BY <1>7
  <2>2. f[o[f[i]]] = f[i] /\ o[f[i]] \in S
    BY <1>13, <2>1
  <2> QED
    BY <1>10, <1>12, <2>1, <2>2
<1> QED
  BY <1>12, <1>14, <1>15, <1>16 DEF Lists

\* A row behind another in the order begins where that one ends, or later.
LEMMA SpansFollow ==
  ASSUME ReadInv, NEW e, NEW f \in Fragments(e), NEW g \in Fragments(e), Before(f, g), g.start # NoOffset
  PROVE  f.end <= g.start
<1>1. /\ f \in rows /\ g \in rows /\ f.epoch = g.epoch
  BY DEF Fragments
<1>2. /\ f.end \in Int /\ g.end \in Int /\ g.start \in Int /\ f.start \in Int
  BY <1>1, RowTypes DEF ReadInv, IngestInv
<1>3. g.start < g.end
  BY <1>1 DEF ReadInv, TilesInv
<1>4. CASE f.start = NoOffset
  BY <1>2, <1>4 DEF Before, SortKey
<1>5. CASE f.start # NoOffset
  <2>1. f.start <= g.start /\ f # g
    BY <1>2, <1>5 DEF Before, SortKey
  <2>2. f \in Fragments(g.epoch)
    BY <1>1 DEF Fragments
  <2>3. f.end <= g.start \/ g.end <= f.start
    BY <1>1, <1>5, <2>1, <2>2 DEF ReadInv, TilesInv
  <2> QED
    BY <1>2, <1>3, <2>1, <2>3
<1> QED
  BY <1>4, <1>5

LEMMA PayloadFacts ==
  ASSUME NEW f, f.from \in Nat, f.end \in Nat, f.from <= f.end
  PROVE  /\ Payload(f) \in Seq(Nat) /\ Len(Payload(f)) = f.end - f.from
         /\ Elements(Payload(f)) = f.from .. (f.end - 1)
<1> PICK a, b : a = f.from /\ b = f.end
  OBVIOUS
<1>1. a \in Nat /\ b \in Nat /\ a <= b /\ b - a \in Nat
  OBVIOUS
<1>2. PICK p : p = Payload(f)
  OBVIOUS
<1>3. p = [i \in 1..(b - a) |-> a + i - 1]
  BY <1>2 DEF Payload
<1>4. \A i \in 1..(b - a) : a + i - 1 \in Nat
  BY <1>1
<1>5. p \in Seq(Nat) /\ Len(p) = b - a
  BY <1>1, <1>3, <1>4
<1>6. DOMAIN p = 1..(b - a) /\ \A i \in 1..(b - a) : p[i] = a + i - 1
  BY <1>3
<1>7. Elements(p) \subseteq a..(b - 1)
  BY <1>1, <1>6 DEF Elements
<1>8. ASSUME NEW x \in a..(b - 1) PROVE x \in Elements(p)
  <2>1. x - a + 1 \in 1..(b - a) /\ a + (x - a + 1) - 1 = x
    BY <1>1
  <2>2. p[x - a + 1] = x
    BY <1>6, <2>1
  <2> QED
    BY <1>6, <2>1, <2>2 DEF Elements
<1>9. Elements(p) = a..(b - 1)
  BY <1>7, <1>8
<1> QED
  BY <1>2, <1>5, <1>9

LEMMA ElementsJoin ==
  ASSUME NEW s \in Seq(Nat), NEW t \in Seq(Nat)
  PROVE  s \o t \in Seq(Nat) /\ Elements(s \o t) = Elements(s) \cup Elements(t)
<1>1. PICK j \in Seq(Nat) : j = s \o t
  BY ConcatProperties
<1>2. PICK a, b : a = Len(s) /\ b = Len(t)
  OBVIOUS
<1>3. /\ a \in Nat /\ b \in Nat /\ Len(j) = a + b
      /\ DOMAIN s = 1..a /\ DOMAIN t = 1..b /\ DOMAIN j = 1..(a + b)
      /\ \A i \in 1..(a + b) : j[i] = IF i <= a THEN s[i] ELSE t[i - a]
  BY <1>1, <1>2, ConcatProperties, LenProperties
<1>4. \A i \in 1..a : i \in 1..(a + b) /\ j[i] = s[i]
  BY <1>3
<1>5. ASSUME NEW i \in 1..b PROVE i + a \in 1..(a + b) /\ j[i + a] = t[i]
  <2>1. i + a \in 1..(a + b) /\ ~(i + a <= a) /\ (i + a) - a = i
    BY <1>3
  <2> QED
    BY <1>3, <2>1
<1>6. ASSUME NEW i \in 1..(a + b) PROVE j[i] \in Elements(s) \cup Elements(t)
  <2>1. CASE i <= a
    <3>1. i \in 1..a
      BY <1>3, <2>1
    <3> QED
      BY <1>3, <1>4, <3>1 DEF Elements
  <2>2. CASE ~(i <= a)
    <3>1. i - a \in 1..b
      BY <1>3, <2>2
    <3>2. j[i] = t[i - a]
      BY <1>3, <2>2
    <3> QED
      BY <1>3, <3>1, <3>2 DEF Elements
  <2> QED
    BY <2>1, <2>2
<1>7. Elements(j) \subseteq Elements(s) \cup Elements(t)
  BY <1>3, <1>6 DEF Elements
<1>8. Elements(s) \subseteq Elements(j)
  BY <1>3, <1>4 DEF Elements
<1>9. Elements(t) \subseteq Elements(j)
  <2> SUFFICES ASSUME NEW x \in Elements(t) PROVE x \in Elements(j)
    OBVIOUS
  <2>1. PICK i \in 1..b : x = t[i]
    BY <1>3 DEF Elements
  <2>2. PICK k \in 1..(a + b) : k = i + a
    BY <1>5
  <2>3. j[k] = x
    BY <1>5, <2>1, <2>2
  <2>4. k \in DOMAIN j
    BY <1>3
  <2> QED
    BY <2>3, <2>4 DEF Elements
<1> QED
  BY <1>1, <1>7, <1>8, <1>9

Merging == [text : Seq(Nat), prevEnd : Int, started : BOOLEAN, gaps : Seq(Int)]

\* The merge after k fragments of the order: all their payloads are in the text.
MergedSoFar(acc, s, k) ==
  /\ acc \in Merging /\ (acc.started <=> k # 0)
  /\ k # 0 => acc.prevEnd = s[k].end
  /\ Elements(acc.text) = UNION {Elements(Payload(s[i])) : i \in 1..k}

\* A fragment whose span begins where the last one ended is taken whole: nothing
\* covered is ever skipped, so start_off need not be where the payload begins.
LEMMA MergeStep ==
  ASSUME ReadInv, NEW e, NEW s, Lists(s, Fragments(e)), NEW k \in DOMAIN s,
         NEW acc, MergedSoFar(acc, s, k - 1)
  PROVE  MergedSoFar(Merge(acc, s[k]), s, k)
<1>1. /\ s \in Seq(Fragments(e)) /\ DOMAIN s = 1..Len(s) /\ Len(s) \in Nat
      /\ k \in Nat /\ k # 0 /\ (k # 1 => k - 1 \in DOMAIN s /\ k - 1 < k) /\ (k = 1 <=> k - 1 = 0)
  BY DEF Lists
<1>2. PICK f \in Fragments(e) : f = s[k]
  BY <1>1
<1>3. f \in rows
  BY DEF Fragments
<1>4. f.from \in Nat /\ f.end \in Nat /\ f.start \in Int /\ f.gap \in BOOLEAN /\ f.from <= f.end
      /\ (f.start # NoOffset => f.start < f.end)
  BY <1>3, RowTypes DEF ReadInv, IngestInv, TilesInv
<1>5. /\ acc \in Merging /\ acc.text \in Seq(Nat) /\ acc.prevEnd \in Int /\ acc.gaps \in Seq(Int)
      /\ (acc.started <=> k # 1) /\ (k # 1 => acc.prevEnd = s[k - 1].end)
      /\ Elements(acc.text) = UNION {Elements(Payload(s[i])) : i \in 1..(k - 1)}
  BY <1>1 DEF MergedSoFar, Merging
<1>6. PICK p \in Seq(Nat) : p = Payload(f) /\ Len(p) = f.end - f.from
  BY <1>4, PayloadFacts
<1>7. PICK t \in Seq(Nat) : t = acc.text \o p
  BY <1>5, ElementsJoin
<1>8. Elements(t) = UNION {Elements(Payload(s[i])) : i \in 1..k}
  <2>1. 1..k = 1..(k - 1) \cup {k}
    BY <1>1
  <2>2. Elements(t) = Elements(acc.text) \cup Elements(Payload(s[k]))
    BY <1>2, <1>5, <1>6, <1>7, ElementsJoin
  <2> QED
    BY <1>5, <2>1, <2>2
<1>9. ASSUME NEW g \in Seq(Int), NEW a, a = [text |-> t, prevEnd |-> f.end, started |-> TRUE, gaps |-> g]
      PROVE  MergedSoFar(a, s, k)
  <2>1. a.text = t /\ a.prevEnd = f.end /\ a.started = TRUE /\ a \in Merging
    BY <1>4, <1>9 DEF Merging
  <2> QED
    BY <1>1, <1>2, <1>8, <2>1 DEF MergedSoFar
<1>10. ASSUME NEW b \in BOOLEAN PROVE MergedSoFar(Whole(acc, f, b), s, k)
  <2>1. PICK g : g = IF b THEN Append(acc.gaps, acc.prevEnd) ELSE acc.gaps
    OBVIOUS
  <2>2. g \in Seq(Int)
    BY <1>5, <2>1
  <2>3. Whole(acc, f, b) = [text |-> t, prevEnd |-> f.end, started |-> TRUE, gaps |-> g]
    BY <1>6, <1>7, <2>1 DEF Whole
  <2> QED
    BY <1>9, <2>2, <2>3
<1>11. CASE ~acc.started
  BY <1>2, <1>10, <1>11 DEF Merge
<1>12. CASE acc.started /\ (f.gap \/ f.start = NoOffset \/ f.start > acc.prevEnd)
  BY <1>2, <1>10, <1>12 DEF Merge
<1>13. CASE acc.started /\ ~(f.gap \/ f.start = NoOffset \/ f.start > acc.prevEnd)
  <2>1. PICK g \in Fragments(e) : g = s[k - 1]
    BY <1>1, <1>5, <1>13
  <2>2. Before(g, f)
    BY <1>1, <1>2, <1>5, <1>13, <2>1 DEF Lists
  <2>3. g.end <= f.start
    BY <1>13, <2>2, SpansFollow
  <2>4. acc.prevEnd = f.start
    BY <1>4, <1>5, <1>13, <2>1, <2>3
  <2>5. acc.prevEnd - f.start + 1 = 1 /\ Larger(acc.prevEnd, f.end) = f.end
    BY <1>4, <1>13, <2>4 DEF Larger
  <2>6. SubSeq(p, 1, f.end - f.from) = p
    BY <1>6
  <2>7. Merge(acc, f) = [acc EXCEPT !.text = t, !.prevEnd = f.end]
    BY <1>6, <1>7, <1>13, <2>5, <2>6 DEF Merge
  <2>8. PICK g2 \in Seq(Int) : g2 = acc.gaps
    BY <1>5
  <2>9. Merge(acc, f) = [text |-> t, prevEnd |-> f.end, started |-> TRUE, gaps |-> g2]
    BY <1>5, <1>13, <2>7, <2>8 DEF Merging
  <2> QED
    BY <1>2, <1>9, <2>9
<1> QED
  BY <1>11, <1>12, <1>13

\* The merge after each fragment.
MergesInto(f, s, n) == f = [k \in 0..n |-> IF k = 0 THEN Nothing ELSE Merge(f[k - 1], s[k])]

LEMMA MergesUnfold ==
  ASSUME NEW s, Len(s) \in Nat
  PROVE  \E f : MergesInto(f, s, Len(s)) /\ MergeAll(s) = f[Len(s)]
<1> DEFINE Failing == {m \in Nat : ~ \E f : MergesInto(f, s, m)}
           g == CHOOSE f : MergesInto(f, s, Len(s))
<1>1. Failing = {}
  <2> SUFFICES ASSUME Failing # {} PROVE FALSE
    OBVIOUS
  <2>1. PICK m \in Failing : \A y \in Failing : m <= y
    BY LeastNumber
  <2>2. m # 0
    <3>1. MergesInto([k \in 0..0 |-> Nothing], s, 0)
      BY DEF MergesInto
    <3> QED
      BY <2>1, <3>1
  <2>3. m - 1 \in Nat /\ ~(m <= m - 1)
    BY <2>2
  <2>4. m - 1 \notin Failing
    <3> HIDE DEF Failing
    <3> QED
      BY <2>1, <2>3
  <2>5. PICK f : MergesInto(f, s, m - 1)
    BY <2>3, <2>4
  <2> DEFINE h == [k \in 0..m |-> IF k < m THEN f[k] ELSE Merge(f[m - 1], s[m])]
  <2>6. ASSUME NEW k \in 0..m PROVE h[k] = IF k = 0 THEN Nothing ELSE Merge(h[k - 1], s[k])
    <3>1. CASE k = m
      <4>1. m - 1 \in 0..m /\ m - 1 < m /\ ~(m < m)
        BY <2>3
      <4>2. h[m] = Merge(f[m - 1], s[m]) /\ h[m - 1] = f[m - 1]
        BY <2>3, <4>1
      <4> QED
        BY <2>2, <3>1, <4>2
    <3>2. CASE k # m
      <4>1. k \in 0..(m - 1) /\ k < m
        BY <2>3, <3>2
      <4>2. f[k] = IF k = 0 THEN Nothing ELSE Merge(f[k - 1], s[k])
        BY <2>5, <4>1, Zenon DEF MergesInto
      <4>3. h[k] = f[k]
        BY <4>1
      <4>4. k # 0 => h[k - 1] = f[k - 1]
        <5> SUFFICES ASSUME k # 0 PROVE h[k - 1] = f[k - 1]
          OBVIOUS
        <5>1. k - 1 \in 0..m /\ k - 1 < m
          BY <4>1
        <5> QED
          BY <5>1
      <4> HIDE DEF h
      <4> QED
        BY <4>2, <4>3, <4>4
    <3> QED
      BY <3>1, <3>2
  <2>7. h = [k \in 0..m |-> h[k]]
    OBVIOUS
  <2>8. MergesInto(h, s, m)
    <3> HIDE DEF h
    <3>1. [k \in 0..m |-> h[k]] = [k \in 0..m |-> IF k = 0 THEN Nothing ELSE Merge(h[k - 1], s[k])]
      BY <2>6, Zenon
    <3> QED
      BY <2>7, <3>1 DEF MergesInto
  <2> QED
    BY <2>1, <2>8
<1>2. MergesInto(g, s, Len(s))
  BY <1>1
<1>3. MergeAll(s) = g[Len(s)]
  BY DEF MergeAll, MergesInto
<1> QED
  BY <1>2, <1>3

LEMMA RebuildIsWhole == ReadInv => RebuildKeepsEveryByte
<1> SUFFICES ASSUME ReadInv, NEW e \in 1..MaxEpoch
             PROVE  Elements(Reconstruct(e).text) = Bytes(Fragments(e))
  BY DEF RebuildKeepsEveryByte
<1>1. PICK s : s = Arranged(Fragments(e))
  OBVIOUS
<1>2. Lists(s, Fragments(e))
  BY <1>1, FragmentsOrdered, ArrangedLists
<1>3. /\ s \in Seq(Fragments(e)) /\ Len(s) \in Nat /\ DOMAIN s = 1..Len(s)
      /\ \A f \in Fragments(e) : \E k \in DOMAIN s : s[k] = f
  BY <1>2 DEF Lists
<1>4. PICK a : MergesInto(a, s, Len(s)) /\ MergeAll(s) = a[Len(s)]
  BY <1>3, MergesUnfold
<1>5. a[0] = Nothing /\ \A k \in 1..Len(s) : a[k] = Merge(a[k - 1], s[k])
  <2>1. PICK n \in Nat : n = Len(s)
    BY <1>3
  <2>2. \A k \in 0..n : a[k] = IF k = 0 THEN Nothing ELSE Merge(a[k - 1], s[k])
    BY <1>4, <2>1, Zenon DEF MergesInto
  <2>3. 0 \in 0..n /\ \A k \in 1..n : k \in 0..n /\ k # 0
    BY <2>1
  <2> QED
    BY <2>1, <2>2, <2>3
<1> DEFINE Failing == {k \in 0..Len(s) : ~MergedSoFar(a[k], s, k)}
<1>6. MergedSoFar(a[0], s, 0)
  <2>1. Elements(<<>>) = {} /\ {Elements(Payload(s[i])) : i \in 1..0} = {}
    BY DEF Elements
  <2>2. Nothing \in Merging /\ Nothing.text = <<>> /\ Nothing.started = FALSE
    BY DEF Merging, Nothing
  <2> QED
    BY <1>5, <2>1, <2>2 DEF MergedSoFar
<1>7. Failing = {}
  <2> SUFFICES ASSUME Failing # {} PROVE FALSE
    OBVIOUS
  <2>1. Failing \subseteq Nat
    BY <1>3
  <2>2. PICK k \in Failing : \A y \in Failing : k <= y
    BY <2>1, LeastNumber
  <2>3. k # 0
    BY <1>6, <2>2
  <2>4. k - 1 \in 0..Len(s) /\ k \in DOMAIN s /\ ~(k <= k - 1)
    BY <1>3, <2>2, <2>3
  <2>5. MergedSoFar(a[k - 1], s, k - 1)
    BY <2>2, <2>4
  <2>6. MergedSoFar(Merge(a[k - 1], s[k]), s, k)
    BY <1>2, <2>4, <2>5, MergeStep
  <2> QED
    BY <1>3, <1>5, <2>2, <2>4, <2>6
<1>8. MergedSoFar(a[Len(s)], s, Len(s))
  BY <1>3, <1>7
<1>9. Reconstruct(e) = a[Len(s)]
  BY <1>1, <1>4 DEF Reconstruct
<1>10. Elements(Reconstruct(e).text) = UNION {Elements(Payload(s[i])) : i \in 1..Len(s)}
  BY <1>8, <1>9 DEF MergedSoFar
<1>11. ASSUME NEW f \in Fragments(e) PROVE Elements(Payload(f)) = f.from .. (f.end - 1)
  <2>1. f \in rows
    BY DEF Fragments
  <2>2. f.from \in Nat /\ f.end \in Nat /\ f.from <= f.end
    BY <2>1, RowTypes DEF ReadInv, IngestInv, TilesInv
  <2> QED
    BY <2>2, PayloadFacts
<1>12. \A i \in 1..Len(s) : s[i] \in Fragments(e)
  BY <1>3
<1>13. UNION {Elements(Payload(s[i])) : i \in 1..Len(s)} = UNION {f.from .. (f.end - 1) : f \in Fragments(e)}
  <2>1. {Elements(Payload(s[i])) : i \in 1..Len(s)} = {Elements(Payload(f)) : f \in Fragments(e)}
    BY <1>3, <1>12
  <2>2. {Elements(Payload(f)) : f \in Fragments(e)} = {f.from .. (f.end - 1) : f \in Fragments(e)}
    BY <1>11
  <2> QED
    BY <2>1, <2>2
<1> QED
  BY <1>10, <1>13 DEF Bytes

(* What was stored is read back: besides LogKept and a cursor that never   *)
(* falls back, the text that Reconstruct merges from the fragments of a    *)
(* boot holds every stored byte, in whatever order the pushes arrived and  *)
(* wherever a start_off is not the first byte of its payload.              *)
THEOREM LogsAreReadable == IngestSpec => LogReadable
<1>1. IngestInit => ReadInv
  BY IngestInvInit DEF IngestInit, ReadInv, TilesInv
<1>2. IngestSpec => []ReadInv
  BY <1>1, ReadNext, PTL DEF IngestSpec
<1>3. ReadInv => IngestInv /\ LogKept /\ RebuildKeepsEveryByte
  BY RebuildIsWhole DEF ReadInv, IngestInv
<1>4. ReadInv /\ [IngestNext]_ingestVars => [CursorForward]_ingestVars
  BY CursorNext DEF ReadInv
<1> QED
  BY <1>2, <1>3, <1>4, PTL DEF IngestSpec, LogReadable
=============================================================================
