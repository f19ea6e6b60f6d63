----------------------------- MODULE AdminProofs -----------------------------
(***************************************************************************)
(* Proofs about the operator's side, for every number of processes,        *)
(* secrets, devices, requests and keys.                                    *)
(* Secrets: a rotation of the key neither loses nor changes a secret.      *)
(* SecInv adds in which order keys come (KeyOrder), under which a row can  *)
(* be (KeyKnown), and what a sweep under way has left to do (SweepInv).    *)
(* Rollout: a device downloads what was in effect for it (RolInv).         *)
(* AdminAuth: a revoked credential ends in time (AuthInv).  RateLimit: a   *)
(* client pays for itself only and no more than its share (RlInv).         *)
(* Templates: a preview is what its ETag says, an apply has one effect     *)
(* (TplInv).                                                               *)
(***************************************************************************)
EXTENDS Secrets, Rollout, AdminAuth, RateLimit, Templates, FiniteSetTheorems, TLAPS

LEMMA RowFacts == NoRow \in Row /\ NoRow.key = 0 /\ NoRow.val = 0
BY DEF NoRow, Row

LEMMA DownFacts == Down \in Process /\ Down.pc = "off" /\ ~Down.up
<1>1. [n \in {} |-> NoRow] \in UNION {[D -> Row] : D \in SUBSET Name}
  <2>1. [n \in {} |-> NoRow] \in [{} -> Row] /\ {} \in SUBSET Name
    OBVIOUS
  <2> QED
    BY <2>1
<1> QED
  BY <1>1 DEF Down, Process

LEMMA SecInvInit == SecInit => SecInv
<1> SUFFICES ASSUME SecInit PROVE SecInv
  OBVIOUS
<1>1. SecType
  <2>1. environ \in [cur : Nat \ {0}, prev : Nat]
    BY DEF SecInit
  <2>3. clean \in BOOLEAN
    BY DEF SecInit
  <2>2. /\ secrets \in [Name -> Row] /\ replica \in [Replica -> Process] /\ last \in [Name -> Nat]
        /\ nonce \in Nat /\ puts \in Nat
    BY RowFacts, DownFacts DEF SecInit
  <2> QED
    BY <2>1, <2>2, <2>3 DEF SecType
<1>2. SweepUndoesNothing /\ KeyKnown
  BY RowFacts DEF SecInit, SweepUndoesNothing, KeyKnown
<1>3. KeyOrder /\ SweepInv
  BY DownFacts DEF SecInit, KeyOrder, Consecutive, SweepInv
<1> QED
  BY <1>1, <1>2, <1>3 DEF SecInv

\* One process moves to x; rows, keys and latecomers stay.
LEMMA ProcessMoves ==
  ASSUME SecInv, NEW p \in Replica, NEW x \in Process, replica' = [replica EXCEPT ![p] = x],
         x.pc # "off" => Consecutive(x) /\ x.cur \in 1..environ.cur,
         x.pc = "sweep" /\ x.cur = environ.cur /\ ~x.stranded =>
           \A n \in Name \ late : secrets[n] # NoRow /\ secrets[n].key # environ.cur =>
             n \in DOMAIN x.all /\ x.all[n] = secrets[n],
         UNCHANGED <<environ, secrets, clean, nonce, puts, last, late>>
  PROVE  SecInv'
<1>1. /\ replica' \in [Replica -> Process] /\ replica'[p] = x
      /\ \A q \in Replica \ {p} : replica'[q] = replica[q]
  BY DEF SecInv, SecType
<1>2. SecType' /\ SweepUndoesNothing' /\ KeyKnown'
  BY <1>1 DEF SecInv, SecType, SweepUndoesNothing, KeyKnown
<1>3. KeyOrder'
  BY <1>1 DEF SecInv, KeyOrder, Consecutive
<1>4. SweepInv'
  <2> SUFFICES ASSUME NEW q \in Replica,
                      replica'[q].pc = "sweep", replica'[q].cur = environ.cur, ~replica'[q].stranded,
                      NEW n \in Name \ late, secrets[n] # NoRow, secrets[n].key # environ.cur
               PROVE  n \in DOMAIN replica'[q].all /\ replica'[q].all[n] = secrets[n]
    BY DEF SweepInv
  <2>1. CASE q = p
    BY <1>1, <2>1
  <2>2. CASE q # p
    BY <1>1, <2>2 DEF SecInv, SweepInv
  <2> QED
    BY <2>1, <2>2
<1> QED
  BY <1>2, <1>3, <1>4 DEF SecInv

LEMMA StartStopKeeps == ASSUME SecInv, NEW p \in Replica, New(p) \/ Stop(p) PROVE SecInv'
<1>1. CASE New(p)
  <2> DEFINE pc == IF environ.prev = 0 THEN "serving" ELSE "select"
             x == [Down EXCEPT !.up = TRUE, !.cur = environ.cur, !.prev = environ.prev, !.pc = pc]
  <2>1. environ.cur \in Nat \ {0} /\ environ.prev \in Nat /\ Consecutive(environ)
    BY DEF SecInv, SecType, KeyOrder
  <2>2. pc \in {"serving", "select"}
    OBVIOUS
  <2>3. replica' = [replica EXCEPT ![p] = x]
        /\ UNCHANGED <<environ, secrets, clean, nonce, puts, last, late>>
    BY <1>1 DEF New
  <2> HIDE DEF pc
  <2>4. x \in Process /\ x.pc = pc /\ x.cur = environ.cur /\ x.prev = environ.prev
    BY <2>1, <2>2, DownFacts DEF Process
  <2> HIDE DEF x
  <2>5. x.pc # "sweep" /\ Consecutive(x) /\ x.cur \in 1..environ.cur
    BY <2>1, <2>2, <2>4 DEF Consecutive
  <2> QED
    BY <2>3, <2>4, <2>5, ProcessMoves
<1>2. CASE Stop(p)
  BY <1>2, DownFacts, ProcessMoves DEF Stop
<1> QED
  BY <1>1, <1>2

\* A process, and what a sweep does to its record.
LEMMA ProcessFacts ==
  ASSUME SecInv, NEW p \in Replica
  PROVE  /\ replica[p] \in Process /\ replica \in [Replica -> Process]
         /\ replica[p].all \in UNION {[D -> Row] : D \in SUBSET Name}
         /\ replica[p].cur \in Nat /\ replica[p].prev \in Nat /\ replica[p].stranded \in BOOLEAN
         /\ replica[p].pc # "off" => Consecutive(replica[p]) /\ replica[p].cur \in 1..environ.cur
         /\ environ.cur \in Nat \ {0} /\ environ.prev \in Nat /\ Consecutive(environ)
BY DEF SecInv, SecType, Process, KeyOrder

LEMMA SweepSelectKeeps == ASSUME SecInv, NEW p \in Replica, SweepSelect(p) PROVE SecInv'
<1> DEFINE r == replica[p]
           a == [n \in {m \in Name : secrets[m] # NoRow} |-> secrets[n]]
           x == [r EXCEPT !.pc = "sweep", !.all = a]
<1>1. replica' = [replica EXCEPT ![p] = x] /\ r.pc = "select"
      /\ UNCHANGED <<environ, secrets, clean, nonce, puts, last, late>>
  BY ProcessFacts DEF SweepSelect
<1>2. a \in UNION {[D -> Row] : D \in SUBSET Name}
  <2> DEFINE E == {m \in Name : secrets[m] # NoRow}
  <2>1. E \in SUBSET Name /\ \A n \in E : secrets[n] \in Row
    BY DEF SecInv, SecType
  <2>2. [n \in E |-> secrets[n]] \in [E -> Row]
    BY <2>1
  <2> QED
    BY <2>1, <2>2
<1>3. \A n \in Name : secrets[n] # NoRow => n \in DOMAIN a /\ a[n] = secrets[n]
  OBVIOUS
<1> HIDE DEF a
<1>4. x \in Process /\ x.pc = "sweep" /\ x.all = a /\ x.cur = r.cur /\ x.prev = r.prev
  BY <1>2, ProcessFacts DEF Process
<1> HIDE DEF x
<1>5. Consecutive(x) /\ x.cur \in 1..environ.cur
  BY <1>1, <1>4, ProcessFacts DEF Consecutive
<1> QED
  BY <1>1, <1>3, <1>4, <1>5, ProcessMoves

LEMMA Swept1Step ==
  ASSUME SecInv, NEW p \in Replica, NEW n \in Name, NEW bad \in BOOLEAN, Swept1(p, n, bad)
  PROVE  \E x \in Process :
           /\ replica' = [replica EXCEPT ![p] = x]
           /\ x.pc = replica[p].pc /\ x.cur = replica[p].cur /\ x.prev = replica[p].prev
           /\ x.stranded = (replica[p].stranded \/ bad)
           /\ DOMAIN x.all = DOMAIN replica[p].all \ {n}
           /\ \A m \in DOMAIN x.all : x.all[m] = replica[p].all[m]
<1> DEFINE r == replica[p]
           a == [m \in DOMAIN r.all \ {n} |-> r.all[m]]
           b == r.stranded \/ bad
           x == [r EXCEPT !.all = a, !.stranded = b]
<1>1. replica' = [replica EXCEPT ![p] = x]
  BY ProcessFacts DEF Swept1
<1>2. a \in UNION {[D -> Row] : D \in SUBSET Name}
  <2>1. PICK D \in SUBSET Name : r.all \in [D -> Row]
    BY ProcessFacts
  <2>2. a \in [D \ {n} -> Row] /\ D \ {n} \in SUBSET Name
    BY <2>1
  <2> QED
    BY <2>2
<1>3. b \in BOOLEAN
  OBVIOUS
<1>4. DOMAIN a = DOMAIN r.all \ {n} /\ \A m \in DOMAIN a : a[m] = r.all[m]
  OBVIOUS
<1> HIDE DEF a, b
<1>5. x \in Process /\ x.pc = r.pc /\ x.cur = r.cur /\ x.prev = r.prev /\ x.stranded = b /\ x.all = a
  BY <1>2, <1>3, ProcessFacts DEF Process
<1> HIDE DEF x
<1> QED
  BY <1>1, <1>4, <1>5 DEF b

\* A row the sweep has in hand and that is not a latecomer's is this
\* environment's, so an older process does not write it.
LEMMA ReSealKeeps == ASSUME SecInv, NEW p \in Replica, NEW n \in Name, ReSeal(p, n) PROVE SecInv'
<1> DEFINE r == replica[p]
           a == r.all[n]
           opens == Opens(p, a)
           bad == ~opens
<1>1. /\ r.pc = "sweep" /\ n \in DOMAIN r.all /\ Swept1(p, n, bad)
      /\ UNCHANGED <<environ, clean, puts, last, late>>
  BY DEF ReSeal
<1>2. bad \in BOOLEAN
  OBVIOUS
<1>3. PICK x \in Process :
           /\ replica' = [replica EXCEPT ![p] = x]
           /\ x.pc = r.pc /\ x.cur = r.cur /\ x.prev = r.prev
           /\ x.stranded = (r.stranded \/ bad)
           /\ DOMAIN x.all = DOMAIN r.all \ {n}
           /\ \A m \in DOMAIN x.all : x.all[m] = r.all[m]
  <2> HIDE DEF bad
  <2> QED
    BY <1>1, <1>2, Swept1Step
<1>4. /\ r.cur \in 1..environ.cur /\ Consecutive(r) /\ Consecutive(environ) /\ r.cur \in Nat
      /\ r.prev \in Nat /\ environ.cur \in Nat \ {0} /\ environ.prev \in Nat
  BY <1>1, ProcessFacts
<1>5. CASE ~(opens /\ UsedPrev(p, a) /\ secrets[n] = a)
  <2>1. UNCHANGED <<secrets, nonce>>
    BY <1>5 DEF ReSeal
  <2>2. ASSUME x.cur = environ.cur, ~x.stranded, NEW m \in Name \ late,
               secrets[m] # NoRow, secrets[m].key # environ.cur
        PROVE  m \in DOMAIN x.all /\ x.all[m] = secrets[m]
    <3>1. m \in DOMAIN r.all /\ r.all[m] = secrets[m]
      BY <1>1, <1>3, <2>2 DEF SecInv, SweepInv
    <3>2. opens
      BY <1>3, <2>2
    <3>3. m # n
      BY <1>3, <1>5, <2>2, <3>1, <3>2 DEF UsedPrev
    <3> QED
      BY <1>3, <3>1, <3>3
  <2> QED
    BY <1>1, <1>3, <1>4, <2>1, <2>2, ProcessMoves DEF Consecutive
<1>6. CASE opens /\ UsedPrev(p, a) /\ secrets[n] = a
  <2> DEFINE y == [key |-> r.cur, val |-> a.val, nonce |-> nonce + 1]
  <2>1. secrets' = [secrets EXCEPT ![n] = y] /\ nonce' = nonce + 1
    BY <1>6 DEF ReSeal, Seal
  <2>2. a \in Row /\ a.key # 0 /\ a.key = r.prev /\ secrets \in [Name -> Row] /\ nonce \in Nat
    BY <1>6 DEF Opens, UsedPrev, SecInv, SecType
  <2>3. y \in Row /\ y.key = r.cur /\ y.val = a.val
    BY <1>4, <2>2 DEF Row
  <2> HIDE DEF y
  <2>4. /\ secrets' \in [Name -> Row] /\ secrets'[n] = y /\ \A m \in Name \ {n} : secrets'[m] = secrets[m]
    BY <2>1, <2>2, <2>3
  <2>5. y # NoRow /\ y.key # 0 /\ a # NoRow
    BY <1>4, <2>2, <2>3, RowFacts
  <2>6. n \notin late => r.cur = environ.cur
    <3> SUFFICES ASSUME n \notin late PROVE r.cur = environ.cur
      OBVIOUS
    <3>1. a.key \in {environ.cur, environ.prev}
      BY <1>6, <2>5 DEF SecInv, KeyKnown
    <3>2. r.prev = r.cur - 1 /\ (environ.prev = 0 \/ environ.prev = environ.cur - 1)
      BY <1>4, <2>2 DEF Consecutive
    <3> QED
      BY <1>4, <2>2, <3>1, <3>2
  <2>7. /\ replica' \in [Replica -> Process] /\ replica'[p] = x
        /\ \A q \in Replica \ {p} : replica'[q] = replica[q]
    BY <1>3 DEF SecInv, SecType
  <2>8. SecType' /\ SweepUndoesNothing'
    BY <1>1, <1>6, <2>1, <2>2, <2>3, <2>4, <2>7 DEF SecInv, SecType, SweepUndoesNothing
  <2>9. KeyOrder'
    BY <1>1, <1>3, <1>4, <2>7 DEF SecInv, KeyOrder, Consecutive
  <2>10. KeyKnown'
    BY <1>1, <2>3, <2>4, <2>5, <2>6 DEF SecInv, KeyKnown
  <2>11. SweepInv'
    <3> SUFFICES ASSUME NEW q \in Replica,
                        replica'[q].pc = "sweep", replica'[q].cur = environ.cur, ~replica'[q].stranded,
                        NEW m \in Name \ late, secrets'[m] # NoRow, secrets'[m].key # environ.cur
                 PROVE  m \in DOMAIN replica'[q].all /\ replica'[q].all[m] = secrets'[m]
      BY <1>1 DEF SweepInv
    <3>1. m # n /\ secrets'[m] = secrets[m]
      BY <2>3, <2>4, <2>6
    <3>2. CASE q = p
      <4>2. r.cur = environ.cur /\ ~r.stranded
        BY <1>3, <2>7, <3>2
      <4>3. secrets[m] # NoRow /\ secrets[m].key # environ.cur
        BY <3>1
      <4>1. m \in DOMAIN r.all /\ r.all[m] = secrets[m]
        BY <1>1, <4>2, <4>3 DEF SecInv, SweepInv
      <4> QED
        BY <1>3, <2>7, <3>1, <3>2, <4>1
    <3>3. CASE q # p
      BY <2>7, <3>1, <3>3 DEF SecInv, SweepInv
    <3> QED
      BY <3>2, <3>3
  <2> QED
    BY <2>8, <2>9, <2>10, <2>11 DEF SecInv
<1> QED
  BY <1>5, <1>6

LEMMA ReSealFailsKeeps ==
  ASSUME SecInv, NEW p \in Replica, NEW n \in Name, ReSealFails(p, n) PROVE SecInv'
<1>1. /\ replica[p].pc = "sweep" /\ Swept1(p, n, TRUE)
      /\ UNCHANGED <<environ, secrets, clean, nonce, puts, last, late>>
  BY DEF ReSealFails
<1>2. PICK x \in Process :
           /\ replica' = [replica EXCEPT ![p] = x]
           /\ x.pc = replica[p].pc /\ x.cur = replica[p].cur /\ x.prev = replica[p].prev
           /\ x.stranded
  BY <1>1, Swept1Step
<1>3. Consecutive(x) /\ x.cur \in 1..environ.cur
  BY <1>1, <1>2, ProcessFacts DEF Consecutive
<1> QED
  BY <1>1, <1>2, <1>3, ProcessMoves

LEMMA SweepDoneKeeps == ASSUME SecInv, NEW p \in Replica, SweepDone(p) PROVE SecInv'
<1> DEFINE r == replica[p]
           x == [r EXCEPT !.pc = "serving"]
<1>1. /\ r.pc = "sweep" /\ DOMAIN r.all = {} /\ replica' = [replica EXCEPT ![p] = x]
      /\ clean' = (IF r.cur = environ.cur THEN ~r.stranded ELSE clean)
      /\ UNCHANGED <<environ, secrets, nonce, puts, last, late>>
  BY ProcessFacts DEF SweepDone
<1>2. x \in Process /\ x.pc = "serving" /\ x.cur = r.cur /\ x.prev = r.prev
  BY ProcessFacts DEF Process
<1> HIDE DEF x
<1>3. /\ replica' \in [Replica -> Process] /\ replica'[p] = x
      /\ \A q \in Replica \ {p} : replica'[q] = replica[q]
  BY <1>1, <1>2 DEF SecInv, SecType
<1>4. clean' \in BOOLEAN
  <2>1. r.stranded \in BOOLEAN /\ clean \in BOOLEAN
    BY ProcessFacts DEF SecInv, SecType
  <2> QED
    BY <1>1, <2>1
<1>5. SecType' /\ SweepUndoesNothing'
  BY <1>1, <1>3, <1>4 DEF SecInv, SecType, SweepUndoesNothing
<1>6. KeyOrder'
  BY <1>1, <1>2, <1>3, ProcessFacts DEF SecInv, KeyOrder, Consecutive
<1>7. ASSUME clean', NEW n \in Name \ late, secrets[n] # NoRow PROVE secrets[n].key = environ.cur
  <2>1. CASE r.cur = environ.cur
    <3>1. ~r.stranded
      BY <1>1, <1>7, <2>1
    <3> QED
      BY <1>1, <1>7, <2>1, <3>1 DEF SecInv, SweepInv
  <2>2. CASE r.cur # environ.cur
    BY <1>1, <1>7, <2>2 DEF SecInv, KeyKnown
  <2> QED
    BY <2>1, <2>2
<1>8. KeyKnown'
  BY <1>1, <1>7 DEF SecInv, KeyKnown
<1>9. SweepInv'
  BY <1>1, <1>2, <1>3 DEF SecInv, SweepInv
<1> QED
  BY <1>5, <1>6, <1>8, <1>9 DEF SecInv

LEMMA PutSecretKeeps ==
  ASSUME SecInv, NEW p \in Replica, NEW n \in Name, PutSecretHTTP(p, n) PROVE SecInv'
<1> DEFINE y == [key |-> replica[p].cur, val |-> puts + 1, nonce |-> nonce + 1]
<1>1. /\ replica[p].pc = "serving" /\ secrets' = [secrets EXCEPT ![n] = y] /\ nonce' = nonce + 1
      /\ last' = [last EXCEPT ![n] = puts + 1] /\ puts' = puts + 1
      /\ late' = (IF Behind(p) THEN late \cup {n} ELSE late \ {n})
      /\ UNCHANGED <<environ, replica, clean>>
  BY DEF PutSecretHTTP, PutSecret, Seal, Written
<1>2. /\ secrets \in [Name -> Row] /\ nonce \in Nat /\ puts \in Nat /\ last \in [Name -> Nat]
  BY DEF SecInv, SecType
<1>3. y \in Row /\ y.key = replica[p].cur /\ y.val = puts + 1 /\ y.key # 0
  BY <1>1, <1>2, ProcessFacts DEF Row
<1> HIDE DEF y
<1>4. /\ secrets' \in [Name -> Row] /\ secrets'[n] = y
      /\ \A m \in Name \ {n} : secrets'[m] = secrets[m] /\ last'[m] = last[m] /\ (m \in late' <=> m \in late)
      /\ last' \in [Name -> Nat] /\ last'[n] = puts + 1
      /\ n \notin late' => y.key = environ.cur
  BY <1>1, <1>2, <1>3 DEF Behind
<1>5. SecType'
  BY <1>1, <1>2, <1>4 DEF SecInv, SecType
<1>6. SweepUndoesNothing' /\ KeyOrder' /\ KeyKnown'
  BY <1>1, <1>3, <1>4 DEF SecInv, SweepUndoesNothing, KeyOrder, Consecutive, KeyKnown
<1>7. SweepInv'
  BY <1>1, <1>4 DEF SecInv, SweepInv
<1> QED
  BY <1>5, <1>6, <1>7 DEF SecInv

LEMMA DelSecretKeeps ==
  ASSUME SecInv, NEW p \in Replica, NEW n \in Name, DelSecretHTTP(p, n) PROVE SecInv'
<1>1. /\ secrets' = [secrets EXCEPT ![n] = NoRow] /\ last' = [last EXCEPT ![n] = 0]
      /\ late' = late \ {n} /\ UNCHANGED <<environ, replica, clean, nonce, puts>>
  BY DEF DelSecretHTTP, DeleteSecret
<1>2. /\ secrets' \in [Name -> Row] /\ secrets'[n] = NoRow /\ last'[n] = 0 /\ last' \in [Name -> Nat]
      /\ \A m \in Name \ {n} : secrets'[m] = secrets[m] /\ last'[m] = last[m] /\ (m \in late' <=> m \in late)
  BY <1>1, RowFacts DEF SecInv, SecType
<1>3. SecType'
  BY <1>1, <1>2 DEF SecInv, SecType
<1>4. SweepUndoesNothing' /\ KeyOrder' /\ KeyKnown'
  BY <1>1, <1>2, RowFacts DEF SecInv, SweepUndoesNothing, KeyOrder, Consecutive, KeyKnown
<1>5. SweepInv'
  BY <1>1, <1>2 DEF SecInv, SweepInv
<1> QED
  BY <1>3, <1>4, <1>5 DEF SecInv

LEMMA OperatorKeeps == ASSUME SecInv, RotateKey \/ DropPrev PROVE SecInv'
<1> DEFINE e == environ
<1>1. /\ UNCHANGED <<secrets, replica, nonce, puts, last, late>>
      /\ e.cur \in Nat \ {0} /\ e.prev \in Nat /\ e \in [cur : Nat \ {0}, prev : Nat]
  BY DEF RotateKey, DropPrev, SecInv, SecType
<1>2. CASE RotateKey
  <2>1. e.prev = 0 /\ environ' = [cur |-> e.cur + 1, prev |-> e.cur] /\ ~clean' /\ clean' \in BOOLEAN
    BY <1>2 DEF RotateKey
  <2>2. /\ environ' \in [cur : Nat \ {0}, prev : Nat] /\ environ'.cur = e.cur + 1
        /\ environ'.prev = e.cur
    BY <1>1, <2>1
  <2>3. SecType' /\ SweepUndoesNothing'
    BY <1>1, <2>1, <2>2 DEF SecInv, SecType, SweepUndoesNothing
  <2>4. KeyOrder'
    BY <1>1, <2>2 DEF SecInv, KeyOrder, Consecutive
  <2>5. KeyKnown'
    BY <1>1, <2>1, <2>2 DEF SecInv, KeyKnown
  <2>6. SweepInv'
    BY <1>1, <2>2 DEF SecInv, SweepInv, KeyOrder
  <2> QED
    BY <2>3, <2>4, <2>5, <2>6 DEF SecInv
<1>3. CASE DropPrev
  <2>1. clean /\ environ' = [e EXCEPT !.prev = 0] /\ clean' = clean
    BY <1>3 DEF DropPrev
  <2>2. /\ environ' \in [cur : Nat \ {0}, prev : Nat] /\ environ'.cur = e.cur /\ environ'.prev = 0
    BY <1>1, <2>1
  <2>3. SecType' /\ SweepUndoesNothing'
    BY <1>1, <2>1, <2>2 DEF SecInv, SecType, SweepUndoesNothing
  <2>4. KeyOrder' /\ SweepInv'
    BY <1>1, <2>2 DEF SecInv, KeyOrder, Consecutive, SweepInv
  <2>5. KeyKnown'
    BY <1>1, <2>1, <2>2 DEF SecInv, KeyKnown
  <2> QED
    BY <2>3, <2>4, <2>5 DEF SecInv
<1> QED
  BY <1>2, <1>3

LEMMA SecInvNext == SecInv /\ [SecNext]_secVars => SecInv'
<1> SUFFICES ASSUME SecInv, [SecNext]_secVars PROVE SecInv'
  OBVIOUS
<1>1. CASE UNCHANGED secVars
  BY <1>1 DEF secVars, SecInv, SecType, SweepUndoesNothing, KeyOrder, Consecutive, KeyKnown, SweepInv
<1> QED
  BY <1>1, StartStopKeeps, SweepSelectKeeps, SweepDoneKeeps, ReSealKeeps, ReSealFailsKeeps,
     PutSecretKeeps, DelSecretKeeps, OperatorKeeps DEF SecNext

\* A rotation of the sealing key, swept by any number of processes against the
\* writes of the others (internal/secrets, sealbox), neither loses nor changes
\* a secret.
THEOREM SecretsAlwaysSurvive == SecSpec => []SecretsSurvive
<1>1. SecInv => SecretsSurvive
  <2> SUFFICES ASSUME SecInv, NEW p \in Replica, NEW n \in Name, replica[p].cur = environ.cur,
                      replica[p].prev = environ.prev, n \notin late
               PROVE  ResolveSecret(p, n) = last[n]
    BY DEF SecretsSurvive, EverySecretResolves, SecInv
  <2>1. secrets[n].val = last[n] /\ NoRow.val = 0
    BY RowFacts DEF SecInv, SweepUndoesNothing
  <2>2. secrets[n] # NoRow => secrets[n].key \in {environ.cur, environ.prev} \ {0}
    BY DEF SecInv, KeyKnown
  <2> QED
    BY <2>1, <2>2 DEF ResolveSecret, Opens
<1> QED
  BY <1>1, SecInvInit, SecInvNext, PTL DEF SecSpec

-----------------------------------------------------------------------------
LEMMA TargetFacts == NoTarget \in Target /\ NoTarget.ver = NoVer /\ NoTarget.state = "none"
BY DEF NoTarget, Target

LEMMA IdlePollFacts == IdlePoll \in Poll /\ IdlePoll.pc = "idle"
<1>1. [s \in {} |-> NoTarget] \in UNION {[S -> Target] : S \in SUBSET Serials}
  <2>1. [s \in {} |-> NoTarget] \in [{} -> Target] /\ {} \in SUBSET Serials
    OBVIOUS
  <2> QED
    BY <2>1
<1> QED
  BY <1>1 DEF IdlePoll, Poll

LEMMA RolInvInit == RolInit => RolInv
<1> SUFFICES ASSUME RolInit PROVE RolInv
  OBVIOUS
<1>3. RolType
  <2>1. chan \in [Gadget -> Chan \cup {"gone"}] /\ fw \in [Ver -> File \cup {NoFile}]
        /\ dflt \in [Chan -> Ver \cup {NoVer}] /\ wanted \in [Gadget -> [Ver -> Int]]
    BY DEF RolInit
  <2>2. targets \in [Serials \X Chan -> Target] /\ pollOf \in [Gadget -> Poll]
    BY IdlePollFacts, TargetFacts DEF RolInit
  <2>3. ticket \in [Gadget -> [ver : Ver \cup {NoVer}, exp : Nat, began : Nat]]
    BY DEF RolInit, NoTicket
  <2>4. got \in [Gadget -> [ver : Ver \cup {NoVer}, file : File \cup {NoFile}, at : Nat]]
    BY DEF RolInit
  <2> QED
    BY <2>1, <2>2, <2>3, <2>4 DEF RolInit, RolType
<1>4. \A d \in Gadget, v \in Ver : ~Names(d, v)
  <2> SUFFICES ASSUME NEW d \in Gadget, NEW v \in Ver, NEW c \in Chan,
                      dflt[c] = v \/ \E s \in {d, Fleet} : targets[<<s, c>>] = [ver |-> v, state |-> "active"]
               PROVE  FALSE
    BY DEF Names
  <2>1. dflt[c] = NoVer /\ \A s \in {d, Fleet} : targets[<<s, c>>] = NoTarget
    BY DEF RolInit, Serials
  <2> QED
    BY <2>1, RolAssumption DEF NoTarget
<1>5. NotedInv
  BY <1>4 DEF RolInit, NotedInv
<1>6. PollInv /\ GotInv /\ StopsWithinTicket
  BY IdlePollFacts DEF RolInit, PollInv, GotInv, StopsWithinTicket, NoTicket
<1>7. TargetInv /\ RegisteredServes
  BY DEF RolInit, TargetInv, RegisteredServes
<1>8. NoOrphanTarget
  BY DEF RolInit, NoOrphanTarget, Serials
<1> QED
  BY <1>3, <1>5, <1>6, <1>7, <1>8 DEF RolInv

LEMMA NoteKeeps ==
  ASSUME RolInv, Note, time' \in Nat, time' >= time
  PROVE  /\ wanted' \in [Gadget -> [Ver -> Int]] /\ NotedInv'
         /\ \A d \in Gadget, v \in Ver : wanted'[d][v] >= wanted[d][v]
<1>1. wanted \in [Gadget -> [Ver -> Int]] /\ time \in Nat
  BY DEF RolInv, RolType
<1>2. ASSUME NEW d \in Gadget, NEW v \in Ver
      PROVE  /\ wanted'[d][v] = IF Names(d, v)' THEN time' ELSE wanted[d][v]
             /\ wanted[d][v] \in Int /\ wanted[d][v] <= time
  BY <1>1 DEF Note, RolInv, NotedInv
<1>3. wanted' \in [Gadget -> [Ver -> Int]]
  <2> DEFINE w(d, v) == IF Names(d, v)' THEN time' ELSE wanted[d][v]
  <2>1. \A d \in Gadget, v \in Ver : w(d, v) \in Int
    BY <1>1
  <2>2. wanted' = [d \in Gadget |-> [v \in Ver |-> w(d, v)]]
    BY DEF Note
  <2> HIDE DEF w
  <2> QED
    BY <2>1, <2>2
<1>4. ASSUME NEW d \in Gadget, NEW v \in Ver
      PROVE  wanted'[d][v] >= wanted[d][v] /\ wanted'[d][v] <= time'
             /\ (Names(d, v)' => wanted'[d][v] = time')
  BY <1>1, <1>2
<1> QED
  BY <1>3, <1>4 DEF NotedInv

\* What devices hold stays true whatever the operator does meanwhile.
LEMMA DevicesKeep ==
  ASSUME RolInv, Note, time' \in Nat, time' >= time, GadgetIdle
  PROVE  /\ wanted' \in [Gadget -> [Ver -> Int]] /\ NotedInv' /\ PollInv' /\ GotInv'
         /\ StopsWithinTicket'
<1>1. /\ wanted' \in [Gadget -> [Ver -> Int]] /\ NotedInv'
      /\ \A d \in Gadget, v \in Ver : wanted'[d][v] >= wanted[d][v]
  BY NoteKeeps
<1>2. /\ UNCHANGED <<pollOf, ticket, got>> /\ time \in Nat /\ pollOf \in [Gadget -> Poll]
      /\ ticket \in [Gadget -> [ver : Ver \cup {NoVer}, exp : Nat, began : Nat]]
      /\ got \in [Gadget -> [ver : Ver \cup {NoVer}, file : File \cup {NoFile}, at : Nat]]
      /\ wanted \in [Gadget -> [Ver -> Int]]
  BY DEF GadgetIdle, RolInv, RolType
<1>3. ASSUME NEW d \in Gadget, pollOf[d].pc # "idle"
      PROVE  /\ pollOf[d].ch \in Chan /\ pollOf[d].began <= time'
             /\ pollOf[d].pc = "default" =>
                  \A s \in {d, Fleet} : LET t == pollOf[d].ts[s] IN
                    t.state = "active" => t.ver \in Ver /\ wanted'[d][t.ver] >= pollOf[d].began
  <2>1. pollOf[d].began \in Nat
    BY <1>2 DEF Poll
  <2>2. pollOf[d].ch \in Chan /\ pollOf[d].began <= time
    BY <1>3 DEF RolInv, PollInv
  <2>3. ASSUME pollOf[d].pc = "default", NEW s \in {d, Fleet}, pollOf[d].ts[s].state = "active"
        PROVE  pollOf[d].ts[s].ver \in Ver /\ wanted'[d][pollOf[d].ts[s].ver] >= pollOf[d].began
    <3>1. pollOf[d].ts[s].ver \in Ver /\ wanted[d][pollOf[d].ts[s].ver] >= pollOf[d].began
      BY <1>3, <2>3 DEF RolInv, PollInv
    <3>2. PICK v \in Ver : v = pollOf[d].ts[s].ver
      BY <3>1
    <3> QED
      BY <1>1, <1>2, <2>1, <3>1, <3>2
  <2> QED
    BY <1>2, <2>1, <2>2, <2>3
<1>4. PollInv'
  BY <1>2, <1>3 DEF PollInv
<1>5. GotInv'
  BY <1>2 DEF RolInv, GotInv
<1>6. StopsWithinTicket'
  <2> SUFFICES ASSUME NEW d \in Gadget, ticket[d].ver # NoVer
               PROVE  /\ wanted'[d][ticket[d].ver] >= ticket[d].began
                      /\ got[d].ver = ticket[d].ver =>
                           got[d].at < ticket[d].exp \/ got[d].at < ticket[d].began
    BY <1>2 DEF StopsWithinTicket
  <2>1. /\ wanted[d][ticket[d].ver] >= ticket[d].began
        /\ got[d].ver = ticket[d].ver =>
             got[d].at < ticket[d].exp \/ got[d].at < ticket[d].began
    BY DEF RolInv, StopsWithinTicket
  <2>2. ticket[d].ver \in Ver /\ ticket[d].began \in Nat
    BY <1>2
  <2> QED
    BY <1>1, <1>2, <2>1, <2>2
<1> QED
  BY <1>1, <1>4, <1>5, <1>6

\* The operator's requests, one conjunct of RolInv at a time.
LEMMA OperatorStepKeeps ==
  ASSUME RolInv, Note, GadgetIdle, time' \in Nat, time' >= time,
         chan' \in [Gadget -> Chan \cup {"gone"}], fw' \in [Ver -> File \cup {NoFile}],
         files' \subseteq File, acked' \subseteq Ver, targets' \in [Serials \X Chan -> Target],
         dflt' \in [Chan -> Ver \cup {NoVer}],
         upsert' \in [serial : Serials, ch : Chan, ver : Ver] \cup {NoUpsert},
         TargetInv', RegisteredServes', NoOrphanTarget'
  PROVE  RolInv'
<1>1. /\ wanted' \in [Gadget -> [Ver -> Int]] /\ NotedInv' /\ PollInv' /\ GotInv'
      /\ StopsWithinTicket'
  BY DevicesKeep
<1>2. RolType'
  BY <1>1 DEF RolInv, RolType, GadgetIdle
<1> QED
  BY <1>1, <1>2 DEF RolInv

LEMMA FirmwareKeeps ==
  ASSUME RolInv, NEW v \in Ver,
         (\E f \in File : PostFirmware(v, f)) \/ (\E ok \in BOOLEAN : WriteBlobAtomic(v, ok))
  PROVE  RolInv'
<1>1. /\ UNCHANGED <<time, chan, targets, dflt, upsert, ghost>> /\ GadgetIdle /\ Note
  BY DEF PostFirmware, WriteBlobAtomic
<1>2. /\ fw \in [Ver -> File \cup {NoFile}] /\ files \subseteq File /\ acked \subseteq Ver
      /\ \A w \in acked : fw[w] \in files
  BY DEF RolInv, RolType, RegisteredServes
<1>3. /\ fw' \in [Ver -> File \cup {NoFile}] /\ files' \subseteq File /\ acked' \subseteq Ver
      /\ \A w \in acked' : fw'[w] \in files'
  <2>1. ASSUME NEW f \in File, PostFirmware(v, f)
        PROVE  /\ fw' \in [Ver -> File \cup {NoFile}] /\ files' \subseteq File /\ acked' \subseteq Ver
               /\ \A w \in acked' : fw'[w] \in files'
    <3>1. v \notin acked /\ fw' = [fw EXCEPT ![v] = f] /\ UNCHANGED <<files, acked>>
      BY <1>2, <2>1, RolAssumption DEF PostFirmware, RegisterFirmware
    <3> QED
      BY <1>2, <3>1
  <2>2. ASSUME NEW ok \in BOOLEAN, WriteBlobAtomic(v, ok)
        PROVE  /\ fw' \in [Ver -> File \cup {NoFile}] /\ files' \subseteq File /\ acked' \subseteq Ver
               /\ \A w \in acked' : fw'[w] \in files'
    BY <1>2, <2>2 DEF WriteBlobAtomic
  <2> QED
    BY <2>1, <2>2
<1>4. TargetInv' /\ NoOrphanTarget' /\ RegisteredServes'
  BY <1>1, <1>3 DEF RolInv, TargetInv, NoOrphanTarget, RegisteredServes
<1> QED
  BY <1>1, <1>3, <1>4, OperatorStepKeeps DEF RolInv, RolType

LEMMA ChannelKeeps ==
  ASSUME RolInv, NEW c \in Chan, NEW v \in Ver,
         PutChannel(c, v) \/ (\E s \in Serials : CheckUpsert(s, c, v))
  PROVE  RolInv'
<1>1. /\ UNCHANGED <<time, chan, fw, files, acked, targets, ghost>> /\ GadgetIdle /\ Note
  BY DEF PutChannel, CheckUpsert, dbVars
<1>2. dflt' \in [Chan -> Ver \cup {NoVer}]
  BY DEF PutChannel, SetChannelDefault, CheckUpsert, dbVars, RolInv, RolType
<1>3. upsert' \in [serial : Serials, ch : Chan, ver : Ver] \cup {NoUpsert}
  BY DEF PutChannel, CheckUpsert, RolInv, RolType
<1>4. TargetInv' /\ NoOrphanTarget' /\ RegisteredServes'
  BY <1>1 DEF RolInv, TargetInv, NoOrphanTarget, RegisteredServes
<1> QED
  BY <1>1, <1>2, <1>3, <1>4, OperatorStepKeeps DEF RolInv, RolType

\* A row of rollout_targets is written, patched or dropped.
LEMMA TargetMoves ==
  ASSUME RolInv, Note, GadgetIdle, NEW k \in Serials \X Chan, NEW t \in Target,
         targets' = [targets EXCEPT ![k] = t], t # NoTarget => t.ver \in Ver,
         \A d \in Gadget : k[1] = d /\ t # NoTarget => chan[d] # "gone" \/ k \in ghost',
         ghost \subseteq ghost', UNCHANGED <<time, chan, fw, files, acked, dflt>>,
         upsert' \in {upsert, NoUpsert}
  PROVE  RolInv'
<1>1. targets \in [Serials \X Chan -> Target]
  BY DEF RolInv, RolType
<1>2. /\ targets' \in [Serials \X Chan -> Target] /\ targets'[k] = t
      /\ \A l \in Serials \X Chan : l # k => targets'[l] = targets[l]
  BY <1>1
<1>3. TargetInv' /\ RegisteredServes'
  BY <1>2 DEF RolInv, TargetInv, RegisteredServes
<1>4. NoOrphanTarget'
  <2> SUFFICES ASSUME NEW d \in Gadget, NEW c \in Chan, targets'[<<d, c>>] # NoTarget
               PROVE  chan[d] # "gone" \/ <<d, c>> \in ghost'
    BY DEF NoOrphanTarget
  <2>1. <<d, c>> \in Serials \X Chan
    BY DEF Serials
  <2>2. CASE <<d, c>> = k
    BY <1>2, <2>2
  <2>3. CASE <<d, c>> # k
    BY <1>2, <2>1, <2>3 DEF RolInv, NoOrphanTarget
  <2> QED
    BY <2>2, <2>3
<1> QED
  BY <1>2, <1>3, <1>4, OperatorStepKeeps DEF RolInv, RolType

LEMMA RolloutRowKeeps ==
  ASSUME RolInv, NEW s \in Serials, NEW c \in Chan,
         DropRollout(s, c) \/ (\E st \in {"active", "paused", "done"} : PatchRollout(s, c, st))
  PROVE  RolInv'
<1> DEFINE k == <<s, c>>
           r == targets[k]
<1>1. /\ k \in Serials \X Chan /\ r \in Target /\ r # NoTarget /\ r.ver \in Ver
      /\ targets \in [Serials \X Chan -> Target]
      /\ UNCHANGED <<time, chan, fw, files, acked, dflt, upsert, ghost>> /\ GadgetIdle /\ Note
  BY DEF DropRollout, DeleteRollout, PatchRollout, SetRolloutState, RolInv, RolType, TargetInv
<1>2. \A d \in Gadget : k[1] = d => chan[d] # "gone" \/ k \in ghost
  BY <1>1 DEF RolInv, NoOrphanTarget
<1>3. CASE DropRollout(s, c)
  <2>1. targets' = [targets EXCEPT ![k] = NoTarget]
    BY <1>3 DEF DropRollout, DeleteRollout
  <2> HIDE DEF k
  <2> QED
    BY <1>1, <2>1, TargetFacts, TargetMoves
<1>4. ASSUME NEW st \in {"active", "paused", "done"}, PatchRollout(s, c, st) PROVE RolInv'
  <2> DEFINE t == [r EXCEPT !.state = st]
  <2>1. targets' = [targets EXCEPT ![k] = t]
    BY <1>1, <1>4 DEF PatchRollout, SetRolloutState
  <2>2. t \in Target /\ t.ver = r.ver
    BY <1>1 DEF Target
  <2> HIDE DEF t, k
  <2> QED
    BY <1>1, <1>2, <2>1, <2>2, TargetMoves
<1> QED
  BY <1>3, <1>4

LEMMA UpsertKeeps == ASSUME RolInv, UpsertRollout PROVE RolInv'
<1>1. /\ upsert # NoUpsert /\ upsert \in [serial : Serials, ch : Chan, ver : Ver]
      /\ UNCHANGED <<time, chan, fw, files, acked, dflt>> /\ GadgetIdle /\ Note
      /\ upsert' = NoUpsert
  BY DEF UpsertRollout, RolInv, RolType
<1>2. PICK s \in Serials, c \in Chan, v \in Ver : s = upsert.serial /\ c = upsert.ch /\ v = upsert.ver
  BY <1>1
<1> DEFINE k == <<s, c>>
           t == [ver |-> v, state |-> "active"]
<1>3. CASE fw[v] # NoFile
  <2>1. /\ targets' = [targets EXCEPT ![k] = t]
        /\ ghost' = IF SerialResolvable(s) THEN ghost ELSE ghost \cup {k}
    BY <1>2, <1>3 DEF UpsertRollout
  <2>2. k \in Serials \X Chan /\ t \in Target /\ t.ver \in Ver
    BY DEF Target
  <2>3. \A d \in Gadget : k[1] = d => chan[d] # "gone" \/ k \in ghost'
    <3> SUFFICES ASSUME NEW d \in Gadget, s = d, chan[d] = "gone" PROVE k \in ghost'
      OBVIOUS
    <3>1. ~SerialResolvable(s)
      BY RolAssumption DEF SerialResolvable
    <3> QED
      BY <2>1, <3>1
  <2>4. ghost \subseteq ghost'
    BY <2>1
  <2> HIDE DEF k, t
  <2> QED
    BY <1>1, <2>1, <2>2, <2>3, <2>4, TargetMoves
<1>4. CASE fw[v] = NoFile
  <2>1. UNCHANGED <<targets, ghost>>
    BY <1>2, <1>4 DEF UpsertRollout
  <2>2. TargetInv' /\ NoOrphanTarget' /\ RegisteredServes'
    BY <1>1, <2>1 DEF RolInv, TargetInv, NoOrphanTarget, RegisteredServes
  <2> QED
    BY <1>1, <2>1, <2>2, OperatorStepKeeps DEF RolInv, RolType
<1> QED
  BY <1>3, <1>4

LEMMA DeviceRowKeeps ==
  ASSUME RolInv, NEW d \in Gadget, (\E c \in Chan : PatchDevice(d, c)) \/ DeleteGadget(d)
  PROVE  RolInv'
<1>1. /\ UNCHANGED <<time, fw, files, acked, dflt, upsert>> /\ GadgetIdle /\ Note
  BY DEF PatchDevice, DeleteGadget
<1>2. /\ chan \in [Gadget -> Chan \cup {"gone"}] /\ targets \in [Serials \X Chan -> Target]
  BY DEF RolInv, RolType
<1>3. ASSUME NEW c \in Chan, PatchDevice(d, c) PROVE RolInv'
  <2>1. chan' = [chan EXCEPT ![d] = c] /\ UNCHANGED <<targets, ghost>>
    BY <1>3 DEF PatchDevice, Patch
  <2>2. TargetInv' /\ NoOrphanTarget' /\ RegisteredServes'
    BY <1>1, <1>2, <2>1, RolAssumption DEF RolInv, TargetInv, NoOrphanTarget, RegisteredServes
  <2>3. chan' \in [Gadget -> Chan \cup {"gone"}]
    BY <1>2, <2>1
  <2> QED
    BY <1>1, <2>1, <2>2, <2>3, OperatorStepKeeps DEF RolInv, RolType
<1>4. CASE DeleteGadget(d)
  <2>1. /\ chan' = [chan EXCEPT ![d] = "gone"]
        /\ targets' = [k \in Serials \X Chan |-> IF k[1] = d THEN NoTarget ELSE targets[k]]
        /\ ghost' = {k \in ghost : k[1] # d}
    BY <1>4 DEF DeleteGadget
  <2>2. chan' \in [Gadget -> Chan \cup {"gone"}] /\ targets' \in [Serials \X Chan -> Target]
    BY <1>2, <2>1, TargetFacts
  <2>3. TargetInv' /\ RegisteredServes'
    BY <1>1, <2>1 DEF RolInv, TargetInv, RegisteredServes
  <2>4. NoOrphanTarget'
    <3> SUFFICES ASSUME NEW e \in Gadget, NEW c \in Chan, targets'[<<e, c>>] # NoTarget
                 PROVE  chan'[e] # "gone" \/ <<e, c>> \in ghost'
      BY DEF NoOrphanTarget
    <3>1. <<e, c>> \in Serials \X Chan
      BY DEF Serials
    <3>2. e # d /\ targets[<<e, c>>] # NoTarget
      BY <2>1, <3>1
    <3>3. chan[e] # "gone" \/ <<e, c>> \in ghost
      BY <3>2 DEF RolInv, NoOrphanTarget
    <3> QED
      BY <1>2, <2>1, <3>2, <3>3
  <2> QED
    BY <1>1, <2>2, <2>3, <2>4, OperatorStepKeeps DEF RolInv, RolType
<1> QED
  BY <1>3, <1>4

LEMMA ElapseKeeps == ASSUME RolInv, Elapse PROVE RolInv'
<1>1. /\ UNCHANGED <<chan, fw, files, acked, targets, dflt, ghost, upsert>> /\ GadgetIdle /\ Note
      /\ time' = time + 1 /\ time \in Nat
  BY DEF Elapse, dbVars, RolInv, RolType
<1>2. TargetInv' /\ NoOrphanTarget' /\ RegisteredServes'
  BY <1>1 DEF RolInv, TargetInv, NoOrphanTarget, RegisteredServes
<1> QED
  BY <1>1, <1>2, OperatorStepKeeps DEF RolInv, RolType

\* A device's step leaves the operator's rows alone.
LEMMA PollStepKeeps ==
  ASSUME RolInv, Note, UNCHANGED <<time, dbVars, upsert>>,
         pollOf' \in [Gadget -> Poll],
         ticket' \in [Gadget -> [ver : Ver \cup {NoVer}, exp : Nat, began : Nat]],
         got' \in [Gadget -> [ver : Ver \cup {NoVer}, file : File \cup {NoFile}, at : Nat]],
         PollInv', GotInv', StopsWithinTicket'
  PROVE  RolInv'
<1>1. wanted' \in [Gadget -> [Ver -> Int]] /\ NotedInv'
  BY NoteKeeps DEF RolInv, RolType
<1>2. RolType' /\ TargetInv' /\ RegisteredServes' /\ NoOrphanTarget'
  BY <1>1 DEF RolInv, RolType, dbVars, TargetInv, RegisteredServes, NoOrphanTarget
<1> QED
  BY <1>1, <1>2 DEF RolInv

\* What every device's poll and ticket say holds after the step's Note as well.
LEMMA StillNoted ==
  ASSUME RolInv, Note, UNCHANGED time, NEW d \in Gadget
  PROVE  /\ pollOf[d].pc # "idle" =>
              /\ pollOf[d].ch \in Chan /\ pollOf[d].began <= time /\ pollOf[d].began \in Nat
              /\ pollOf[d].pc = "default" =>
                   \A s \in {d, Fleet} : LET t == pollOf[d].ts[s] IN
                     t.state = "active" => t.ver \in Ver /\ wanted'[d][t.ver] >= pollOf[d].began
         /\ ticket[d].ver # NoVer =>
              /\ ticket[d].ver \in Ver /\ wanted'[d][ticket[d].ver] >= ticket[d].began
              /\ got[d].ver = ticket[d].ver =>
                   got[d].at < ticket[d].exp \/ got[d].at < ticket[d].began
<1>1. /\ \A v \in Ver : wanted'[d][v] >= wanted[d][v] /\ wanted'[d][v] \in Int
      /\ wanted \in [Gadget -> [Ver -> Int]] /\ wanted' \in [Gadget -> [Ver -> Int]] /\ time \in Nat
      /\ pollOf[d] \in Poll /\ ticket[d] \in [ver : Ver \cup {NoVer}, exp : Nat, began : Nat]
  BY NoteKeeps DEF RolInv, RolType
<1>2. pollOf[d].began \in Nat /\ ticket[d].began \in Nat /\ ticket[d].ver \in Ver \cup {NoVer}
  BY <1>1 DEF Poll
<1>3. ASSUME pollOf[d].pc = "default", NEW s \in {d, Fleet}, pollOf[d].ts[s].state = "active"
      PROVE  pollOf[d].ts[s].ver \in Ver /\ wanted'[d][pollOf[d].ts[s].ver] >= pollOf[d].began
  <2>1. pollOf[d].ts[s].ver \in Ver /\ wanted[d][pollOf[d].ts[s].ver] >= pollOf[d].began
    BY <1>3 DEF RolInv, PollInv
  <2>2. PICK v \in Ver : v = pollOf[d].ts[s].ver
    BY <2>1
  <2>3. wanted[d][v] \in Int
    BY <1>1
  <2> QED
    BY <1>1, <1>2, <2>1, <2>2, <2>3
<1>4. pollOf[d].pc # "idle" => pollOf[d].ch \in Chan /\ pollOf[d].began <= time
  BY DEF RolInv, PollInv
<1>5. ASSUME ticket[d].ver # NoVer
      PROVE  /\ ticket[d].ver \in Ver /\ wanted'[d][ticket[d].ver] >= ticket[d].began
             /\ got[d].ver = ticket[d].ver =>
                  got[d].at < ticket[d].exp \/ got[d].at < ticket[d].began
  <2>1. /\ wanted[d][ticket[d].ver] >= ticket[d].began
        /\ got[d].ver = ticket[d].ver =>
             got[d].at < ticket[d].exp \/ got[d].at < ticket[d].began
    BY <1>5 DEF RolInv, StopsWithinTicket
  <2>2. PICK v \in Ver : v = ticket[d].ver
    BY <1>2, <1>5
  <2>3. wanted[d][v] \in Int
    BY <1>1
  <2> QED
    BY <1>1, <1>2, <2>1, <2>2, <2>3
<1> QED
  BY <1>2, <1>3, <1>4, <1>5

\* One poll moves to x; tickets and downloads stay.
LEMMA PollMoves ==
  ASSUME RolInv, Note, UNCHANGED <<time, dbVars, upsert, ticket, got>>,
         NEW d \in Gadget, NEW x \in Poll, pollOf' = [pollOf EXCEPT ![d] = x],
         x.pc # "idle" =>
           /\ x.ch \in Chan /\ x.began <= time
           /\ x.pc = "default" =>
                \A s \in {d, Fleet} : LET t == x.ts[s] IN
                  t.state = "active" => t.ver \in Ver /\ wanted'[d][t.ver] >= x.began
  PROVE  RolInv'
<1>1. /\ pollOf' \in [Gadget -> Poll] /\ pollOf'[d] = x
      /\ \A e \in Gadget \ {d} : pollOf'[e] = pollOf[e]
  BY DEF RolInv, RolType
<1>2. ASSUME NEW e \in Gadget, pollOf'[e].pc # "idle"
      PROVE  /\ pollOf'[e].ch \in Chan /\ pollOf'[e].began <= time
             /\ pollOf'[e].pc = "default" =>
                  \A s \in {e, Fleet} : LET t == pollOf'[e].ts[s] IN
                    t.state = "active" => t.ver \in Ver /\ wanted'[e][t.ver] >= pollOf'[e].began
  <2>1. CASE e = d
    BY <1>1, <1>2, <2>1
  <2>2. CASE e # d
    <3>1. pollOf'[e] = pollOf[e]
      BY <1>1, <2>2
    <3> QED
      BY <1>2, <3>1, StillNoted
  <2> QED
    BY <2>1, <2>2
<1>3. PollInv'
  BY <1>2 DEF PollInv
<1>4. GotInv' /\ StopsWithinTicket'
  BY StillNoted DEF RolInv, GotInv, StopsWithinTicket
<1> QED
  BY <1>1, <1>3, <1>4, PollStepKeeps DEF RolInv, RolType

LEMMA ReadChannelKeeps == ASSUME RolInv, NEW d \in Gadget, ReadChannel(d) PROVE RolInv'
<1> DEFINE x == [IdlePoll EXCEPT !.pc = "targets", !.ch = chan[d], !.began = time]
<1>1. chan[d] \in Chan /\ time \in Nat
  BY DEF ReadChannel, RolInv, RolType
<1>2. pollOf' = [pollOf EXCEPT ![d] = x] /\ Note /\ UNCHANGED <<time, dbVars, upsert, ticket, got>>
  BY DEF ReadChannel
<1>3. x \in Poll /\ x.pc = "targets" /\ x.ch = chan[d] /\ x.began = time
  BY <1>1, IdlePollFacts DEF Poll
<1> HIDE DEF x
<1>4. x.ch \in Chan /\ x.began <= time /\ x.pc # "default"
  BY <1>1, <1>3
<1> QED
  BY <1>2, <1>3, <1>4, PollMoves

LEMMA ReadTargetsKeeps == ASSUME RolInv, NEW d \in Gadget, ReadTargets(d) PROVE RolInv'
<1> DEFINE r == pollOf[d]
           a == [s \in {d, Fleet} |-> targets[<<s, r.ch>>]]
           x == [r EXCEPT !.pc = "default", !.ts = a]
<1>1. /\ r.pc = "targets" /\ r \in Poll /\ r.ch \in Chan /\ r.began <= time /\ r.began \in Nat
      /\ Note /\ UNCHANGED <<time, dbVars, upsert, ticket, got>> /\ time \in Nat
  BY DEF ReadTargets, RolInv, RolType, PollInv, Poll
<1>2. pollOf' = [pollOf EXCEPT ![d] = x]
  BY DEF ReadTargets, RolInv, RolType
<1>3. \A s \in {d, Fleet} : /\ <<s, r.ch>> \in Serials \X Chan /\ targets[<<s, r.ch>>] \in Target
                            /\ a[s] = targets[<<s, r.ch>>]
  BY <1>1 DEF RolInv, RolType, Serials
<1>4. a \in UNION {[S -> Target] : S \in SUBSET Serials}
  <2>1. a \in [{d, Fleet} -> Target] /\ {d, Fleet} \in SUBSET Serials
    BY <1>3 DEF Serials
  <2> QED
    BY <2>1
<1> HIDE DEF a
<1>5. x \in Poll /\ x.pc = "default" /\ x.ts = a /\ x.ch = r.ch /\ x.began = r.began
  BY <1>1, <1>4 DEF Poll
<1> HIDE DEF x
<1>6. pollOf'[d] = x
  BY <1>2 DEF RolInv, RolType
<1>7. ASSUME NEW s \in {d, Fleet}, a[s].state = "active"
      PROVE  a[s].ver \in Ver /\ wanted'[d][a[s].ver] >= x.began
  <2>1. PICK t \in Target : t = a[s] /\ t = targets[<<s, r.ch>>]
    BY <1>3
  <2>2. t.ver \in Ver
    BY <1>3, <1>7, <2>1, TargetFacts DEF RolInv, TargetInv
  <2>3. t = [ver |-> t.ver, state |-> "active"]
    BY <1>7, <2>1 DEF Target
  <2>4. Names(d, t.ver)'
    BY <1>1, <1>5, <1>6, <2>1, <2>3 DEF Names, dbVars
  <2>5. NotedInv'
    BY <1>1, NoteKeeps
  <2>6. wanted'[d][t.ver] = time
    BY <1>1, <2>2, <2>4, <2>5 DEF NotedInv
  <2> QED
    BY <1>1, <1>5, <2>1, <2>2, <2>6
<1> QED
  BY <1>1, <1>2, <1>5, <1>7, PollMoves

LEMMA InjectKeeps == ASSUME RolInv, NEW d \in Gadget, InjectOTASignal(d) PROVE RolInv'
<1> DEFINE r == pollOf[d]
           v == ResolveRollout(d, r.ts, dflt[r.ch])
           x == [ver |-> v, exp |-> time + TicketTTL, began |-> r.began]
<1>1. /\ r.pc = "default" /\ pollOf' = [pollOf EXCEPT ![d] = IdlePoll] /\ Note
      /\ UNCHANGED <<time, dbVars, upsert, got>>
      /\ ticket' = IF v = NoVer THEN ticket ELSE [ticket EXCEPT ![d] = x]
  BY DEF InjectOTASignal
<1>2. /\ time \in Nat /\ TicketTTL \in Nat \ {0} /\ wanted \in [Gadget -> [Ver -> Int]]
      /\ ticket \in [Gadget -> [ver : Ver \cup {NoVer}, exp : Nat, began : Nat]]
      /\ got[d] \in [ver : Ver \cup {NoVer}, file : File \cup {NoFile}, at : Nat] /\ got[d].at <= time
  BY RolAssumption DEF RolInv, RolType, GotInv
<1>3. /\ r.ch \in Chan /\ r.began <= time /\ r.began \in Nat
      /\ \A s \in {d, Fleet} : LET t == r.ts[s] IN
           t.state = "active" => t.ver \in Ver /\ wanted'[d][t.ver] >= r.began
  BY <1>1, StillNoted
<1>4. CASE v = NoVer
  BY <1>1, <1>4, IdlePollFacts, PollMoves
<1>5. CASE v # NoVer
  <2>1. v \in Ver /\ wanted'[d][v] >= r.began
    <3>1. CASE \E s \in {d, Fleet} : r.ts[s].state = "active" /\ v = r.ts[s].ver
      BY <1>3, <3>1
    <3>2. CASE v = dflt[r.ch]
      <4>1. v \in Ver
        BY <1>3, <1>5, <3>2 DEF RolInv, RolType
      <4>2. Names(d, v)
        BY <1>3, <3>2 DEF Names
      <4>3. PICK w \in Ver : w = v
        BY <4>1
      <4>4. wanted[d][w] = time /\ wanted'[d][w] >= wanted[d][w] /\ wanted'[d][w] \in Int
        BY <1>1, <1>2, <4>2, <4>3, NoteKeeps DEF RolInv, NotedInv
      <4> QED
        BY <1>2, <1>3, <4>3, <4>4
    <3> QED
      BY <3>1, <3>2 DEF ResolveRollout
  <2> HIDE DEF v
  <2>2. /\ x \in [ver : Ver \cup {NoVer}, exp : Nat, began : Nat]
        /\ x.ver = v /\ x.exp = time + TicketTTL /\ x.began = r.began
    BY <1>2, <1>3, <2>1
  <2> HIDE DEF x
  <2>3. /\ ticket' \in [Gadget -> [ver : Ver \cup {NoVer}, exp : Nat, began : Nat]] /\ ticket'[d] = x
        /\ \A e \in Gadget \ {d} : ticket'[e] = ticket[e]
    BY <1>1, <1>2, <1>5, <2>2
  <2>4. /\ pollOf' \in [Gadget -> Poll] /\ pollOf'[d].pc = "idle"
        /\ \A e \in Gadget \ {d} : pollOf'[e] = pollOf[e]
    BY <1>1, IdlePollFacts DEF RolInv, RolType
  <2>5. PollInv'
    <3>1. ASSUME NEW e \in Gadget, pollOf'[e].pc # "idle"
          PROVE  /\ pollOf'[e].ch \in Chan /\ pollOf'[e].began <= time
                 /\ pollOf'[e].pc = "default" =>
                      \A s \in {e, Fleet} : LET t == pollOf'[e].ts[s] IN
                        t.state = "active" => t.ver \in Ver /\ wanted'[e][t.ver] >= pollOf'[e].began
      <4>1. pollOf'[e] = pollOf[e]
        BY <2>4, <3>1
      <4> QED
        BY <1>1, <3>1, <4>1, StillNoted
    <3> QED
      BY <1>1, <3>1 DEF PollInv
  <2>6. StopsWithinTicket'
    <3> SUFFICES ASSUME NEW e \in Gadget, ticket'[e].ver # NoVer
                 PROVE  /\ wanted'[e][ticket'[e].ver] >= ticket'[e].began
                        /\ got[e].ver = ticket'[e].ver =>
                             got[e].at < ticket'[e].exp \/ got[e].at < ticket'[e].began
      BY <1>1 DEF StopsWithinTicket
    <3>1. CASE e = d
      <4>1. ticket'[e].ver = v /\ ticket'[e].exp = time + TicketTTL /\ ticket'[e].began = r.began
        BY <2>2, <2>3, <3>1
      <4>2. got[e].at \in Nat /\ got[e].at <= time
        BY <1>2, <3>1
      <4>3. got[e].at < ticket'[e].exp
        BY <1>2, <4>1, <4>2
      <4>4. wanted'[e][v] >= r.began
        BY <2>1, <3>1
      <4> QED
        BY <4>1, <4>3, <4>4
    <3>2. CASE e # d
      BY <1>1, <2>3, <3>2, StillNoted
    <3> QED
      BY <3>1, <3>2
  <2>7. GotInv'
    BY <1>1 DEF RolInv, GotInv
  <2> QED
    BY <1>1, <2>3, <2>4, <2>5, <2>6, <2>7, PollStepKeeps DEF RolInv, RolType
<1> QED
  BY <1>4, <1>5

LEMMA HandleFirmwareKeeps == ASSUME RolInv, NEW d \in Gadget, HandleFirmware(d) PROVE RolInv'
<1> DEFINE v == ticket[d].ver
           x == [ver |-> v, file |-> fw[v], at |-> time]
<1>1. /\ v # NoVer /\ time < ticket[d].exp /\ got' = [got EXCEPT ![d] = x] /\ Note
      /\ UNCHANGED <<time, dbVars, upsert, pollOf, ticket>>
  BY DEF HandleFirmware, Verify
<1>2. v \in Ver /\ fw[v] \in File \cup {NoFile} /\ time \in Nat
  BY <1>1 DEF RolInv, RolType
<1>3. /\ x \in [ver : Ver \cup {NoVer}, file : File \cup {NoFile}, at : Nat] /\ x.at = time
  BY <1>2
<1> HIDE DEF x
<1>4. /\ got' \in [Gadget -> [ver : Ver \cup {NoVer}, file : File \cup {NoFile}, at : Nat]]
      /\ got'[d] = x /\ \A e \in Gadget \ {d} : got'[e] = got[e]
  BY <1>1, <1>3 DEF RolInv, RolType
<1>5. GotInv'
  BY <1>1, <1>2, <1>3, <1>4 DEF RolInv, GotInv
<1>6. PollInv'
  BY <1>1, StillNoted DEF PollInv
<1>7. StopsWithinTicket'
  <2> SUFFICES ASSUME NEW e \in Gadget, ticket[e].ver # NoVer
               PROVE  /\ wanted'[e][ticket[e].ver] >= ticket[e].began
                      /\ got'[e].ver = ticket[e].ver =>
                           got'[e].at < ticket[e].exp \/ got'[e].at < ticket[e].began
    BY <1>1 DEF StopsWithinTicket
  <2>1. CASE e = d
    BY <1>1, <1>3, <1>4, <2>1, StillNoted
  <2>2. CASE e # d
    BY <1>1, <1>4, <2>2, StillNoted
  <2> QED
    BY <2>1, <2>2
<1> QED
  BY <1>1, <1>4, <1>5, <1>6, <1>7, PollStepKeeps DEF RolInv, RolType

LEMMA RolInvNext == RolInv /\ [RolNext]_rolVars => RolInv'
<1> SUFFICES ASSUME RolInv, [RolNext]_rolVars PROVE RolInv'
  OBVIOUS
<1>1. CASE UNCHANGED rolVars
  BY <1>1 DEF rolVars, RolInv, RolType, TargetInv, NotedInv, Names, PollInv, GotInv,
              StopsWithinTicket, RegisteredServes, NoOrphanTarget
<1>2. CASE RolNext
  BY <1>2, FirmwareKeeps, ChannelKeeps, RolloutRowKeeps, UpsertKeeps, ElapseKeeps, DeviceRowKeeps,
     ReadChannelKeeps, ReadTargetsKeeps, InjectKeeps, HandleFirmwareKeeps DEF RolNext
<1> QED
  BY <1>1, <1>2

\* ResolveRollout gives the most specific tier that is active, for any rows.
LEMMA ResolvesMostSpecific == RolInv => MostSpecific
<1> SUFFICES ASSUME RolInv, NEW d \in Gadget, NEW c \in Chan
             PROVE  LET v == ResolveRollout(d, [s \in {d, Fleet} |-> targets[<<s, c>>]], dflt[c]) IN
                    /\ v # NoVer => Tier(d, c, v) < 4
                    /\ \A w \in Ver : IF v = NoVer THEN Tier(d, c, w) = 4
                                      ELSE Tier(d, c, v) <= Tier(d, c, w)
  BY DEF MostSpecific
<1>1. PICK a \in Target, b \in Target, e \in Ver \cup {NoVer} :
        a = targets[<<d, c>>] /\ b = targets[<<Fleet, c>>] /\ e = dflt[c]
  <2>1. <<d, c>> \in Serials \X Chan /\ <<Fleet, c>> \in Serials \X Chan
    BY DEF Serials
  <2> QED
    BY <2>1 DEF RolInv, RolType
<1>2. (a.state = "active" => a.ver \in Ver) /\ (b.state = "active" => b.ver \in Ver)
  <2>1. <<d, c>> \in Serials \X Chan /\ <<Fleet, c>> \in Serials \X Chan
    BY DEF Serials
  <2> QED
    BY <1>1, <2>1, TargetFacts DEF RolInv, TargetInv
<1> DEFINE v == IF a.state = "active" THEN a.ver ELSE IF b.state = "active" THEN b.ver ELSE e
<1>3. ResolveRollout(d, [s \in {d, Fleet} |-> targets[<<s, c>>]], dflt[c]) = v
  BY <1>1 DEF ResolveRollout
<1>4. \A w : /\ a = [ver |-> w, state |-> "active"] <=> a.state = "active" /\ a.ver = w
             /\ b = [ver |-> w, state |-> "active"] <=> b.state = "active" /\ b.ver = w
  BY DEF Target
<1>5. \A w : Tier(d, c, w) = IF a.state = "active" /\ a.ver = w THEN 1
                             ELSE IF b.state = "active" /\ b.ver = w THEN 2
                             ELSE IF e = w THEN 3 ELSE 4
  BY <1>1, <1>4 DEF Tier
<1>6. v # NoVer => Tier(d, c, v) < 4
  BY <1>5
<1>7. ASSUME NEW w \in Ver
      PROVE  IF v = NoVer THEN Tier(d, c, w) = 4 ELSE Tier(d, c, v) <= Tier(d, c, w)
  BY <1>2, <1>5, RolAssumption
<1> QED
  BY <1>3, <1>6, <1>7

\* A rollout that is paused, deleted or replaced stops within the life of a
\* ticket, a device is served the version meant for it, and one that can be
\* served, for every fleet, channel and interleaving of internal/rollout,
\* rolloutadmin and ingestcore/ota.go.
THEOREM RolloutsAreSound == RolSpec => []RolloutSound
<1>1. RolInv => RolloutSound
  BY ResolvesMostSpecific DEF RolInv, RolloutSound
<1> QED
  BY <1>1, RolInvInit, RolInvNext, PTL DEF RolSpec

-----------------------------------------------------------------------------
\* The list operations keep elements, and no others than the one put in front.
LEMMA RemoveFacts ==
  ASSUME NEW S, NEW l \in Seq(S), NEW i \in 1..Len(l)
  PROVE  /\ Remove(l, i) \in Seq(S) /\ Len(Remove(l, i)) = Len(l) - 1
         /\ \A j \in 1..(Len(l) - 1) : Remove(l, i)[j] = IF j < i THEN l[j] ELSE l[j + 1]
<1>1. Len(l) - 1 \in Nat /\ \A j \in 1..(Len(l) - 1) : (IF j < i THEN l[j] ELSE l[j + 1]) \in S
  OBVIOUS
<1> QED
  BY <1>1 DEF Remove

LEMMA PushFrontFacts ==
  ASSUME NEW S, NEW l \in Seq(S), NEW x \in S
  PROVE  /\ PushFront(l, x) \in Seq(S) /\ Len(PushFront(l, x)) = Len(l) + 1
         /\ \A j \in 1..(Len(l) + 1) : PushFront(l, x)[j] = IF j = 1 THEN x ELSE l[j - 1]
<1>1. Len(l) + 1 \in Nat /\ \A j \in 1..(Len(l) + 1) : (IF j = 1 THEN x ELSE l[j - 1]) \in S
  OBVIOUS
<1> QED
  BY <1>1 DEF PushFront

LEMMA MoveToFrontFacts ==
  ASSUME NEW S, NEW l \in Seq(S), NEW i \in 1..Len(l), NEW x \in S
  PROVE  /\ MoveToFront(l, i, x) \in Seq(S) /\ Len(MoveToFront(l, i, x)) = Len(l)
         /\ \A j \in 1..Len(l) : MoveToFront(l, i, x)[j] = IF j = 1 THEN x
                                                           ELSE IF j <= i THEN l[j - 1] ELSE l[j]
<1>1. PICK m \in Seq(S) : m = Remove(l, i)
  BY RemoveFacts
<1>2. Len(m) = Len(l) - 1 /\ \A j \in 1..(Len(l) - 1) : m[j] = IF j < i THEN l[j] ELSE l[j + 1]
  BY <1>1, RemoveFacts
<1>3. PushFront(m, x) \in Seq(S) /\ Len(PushFront(m, x)) = Len(m) + 1
  BY PushFrontFacts
<1>4. \A j \in 1..(Len(m) + 1) : PushFront(m, x)[j] = IF j = 1 THEN x ELSE m[j - 1]
  BY PushFrontFacts
<1>5. MoveToFront(l, i, x) = PushFront(m, x)
  BY <1>1 DEF MoveToFront
<1> QED
  BY <1>2, <1>3, <1>4, <1>5

LEMMA CappedFacts ==
  ASSUME NEW S, NEW l \in Seq(S), NEW n \in Nat
  PROVE  /\ Capped(l, n) \in Seq(S) /\ Len(Capped(l, n)) = IF Len(l) < n THEN Len(l) ELSE n
         /\ \A j \in 1..Len(Capped(l, n)) : j \in 1..Len(l) /\ Capped(l, n)[j] = l[j]
<1>1. (IF Len(l) < n THEN Len(l) ELSE n) \in Nat
  OBVIOUS
<1>2. \A j \in 1..(IF Len(l) < n THEN Len(l) ELSE n) : j \in 1..Len(l) /\ l[j] \in S
  OBVIOUS
<1> QED
  BY <1>1, <1>2 DEF Capped

-----------------------------------------------------------------------------
LEMMA IdleRqFacts == IdleRq \in AuthRequest /\ IdleRq.pc = "idle" /\ IdleRq.kind = "none"
                     /\ IdleRq.u = NoUser /\ IdleRq.k = 0
BY DEF IdleRq, AuthRequest

LEMMA IdleRqOK == RqOK(IdleRq) /\ RqOK(IdleRq)'
BY IdleRqFacts DEF RqOK

LEMMA AuthInvInit == AuthInit => AuthInv
<1> SUFFICES ASSUME AuthInit PROVE AuthInv
  OBVIOUS
<1>1. AuthType
  <2>1. users \in [User -> [on : BOOLEAN, off : Nat]] /\ sess \in [User -> [live : BOOLEAN, exp : Nat]]
    BY DEF AuthInit
  <2>2. okeys \in [Keys -> [st : {"none", "live", "off"}, exp : Nat, off : Nat, succ : Keys \cup {0}]]
    BY DEF AuthInit
  <2>3. toks \in [Keys -> [st : {"none", "live", "off"}, shown : BOOLEAN, logged : BOOLEAN]]
    BY DEF AuthInit
  <2>4. rq \in [Rq -> AuthRequest]
    BY IdleRqFacts DEF AuthInit
  <2>5. stream \in Listener /\ cache \in Seq([u : User, exp : Nat, over : BOOLEAN])
    BY DEF AuthInit, Listener, NoStream
  <2> QED
    BY <2>1, <2>2, <2>3, <2>4, <2>5 DEF AuthInit, AuthType
<1>2. RqInv
  BY IdleRqOK DEF AuthInit, RqInv
<1>3. CacheInv /\ StreamInv /\ RotateInv
  BY DEF AuthInit, CacheInv, StreamInv, NoStream, RotateInv
<1>4. ShownIsLogged /\ RotationOverlaps
  BY DEF AuthInit, ShownIsLogged, RotationOverlaps
<1>5. SlotsExact
  <2>1. {r \in Rq : rq[r].pc = "hash"} = {}
    BY IdleRqFacts DEF AuthInit
  <2> QED
    BY <2>1, FS_EmptySet DEF AuthInit, SlotsExact
<1> QED
  BY <1>1, <1>2, <1>3, <1>4, <1>5 DEF AuthInv

Hashing(q) == IF q.pc = "hash" THEN 1 ELSE 0

\* One request moves to x: the slots are counted with it.
LEMMA RqStep ==
  ASSUME AuthInv, NEW r \in Rq, NEW x \in AuthRequest, rq' = [rq EXCEPT ![r] = x],
         \A q \in AuthRequest : RqOK(q) => RqOK(q)', RqOK(x)',
         slots' = slots + Hashing(x) - Hashing(rq[r])
  PROVE  rq' \in [Rq -> AuthRequest] /\ RqInv' /\ SlotsExact'
<1>1. /\ rq' \in [Rq -> AuthRequest] /\ rq'[r] = x /\ \A s \in Rq \ {r} : rq'[s] = rq[s]
      /\ \A s \in Rq : rq[s] \in AuthRequest /\ RqOK(rq[s])
  BY DEF AuthInv, AuthType, RqInv
<1>2. RqInv'
  <2> SUFFICES ASSUME NEW s \in Rq PROVE RqOK(rq[s])'
    BY DEF RqInv
  <2>1. CASE s = r
    BY <1>1, <2>1 DEF RqOK, SessionValid
  <2>2. CASE s # r
    <3>1. PICK q \in AuthRequest : q = rq[s] /\ q = rq'[s] /\ RqOK(q)'
      BY <1>1, <2>2
    <3> QED
      BY <3>1 DEF RqOK, SessionValid
  <2> QED
    BY <2>1, <2>2
<1> DEFINE H == {s \in Rq : rq[s].pc = "hash"}
           G == {s \in Rq : rq'[s].pc = "hash"}
<1>3. IsFiniteSet(H) /\ Cardinality(H) \in Nat /\ slots = Cardinality(H)
  <2>1. IsFiniteSet(H)
    BY AuthAssumption, FS_Subset
  <2> QED
    BY <2>1, FS_CardinalityType DEF AuthInv, SlotsExact
<1>4. Cardinality(G) = slots'
  <2>1. CASE rq[r].pc = "hash" /\ x.pc = "hash"
    <3>1. G = H
      BY <1>1, <2>1
    <3>2. slots' = slots
      BY <1>3, <2>1 DEF Hashing
    <3> HIDE DEF G, H
    <3> QED
      BY <1>3, <3>1, <3>2
  <2>2. CASE rq[r].pc # "hash" /\ x.pc # "hash"
    <3>1. G = H
      BY <1>1, <2>2
    <3>2. slots' = slots
      BY <1>3, <2>2 DEF Hashing
    <3> HIDE DEF G, H
    <3> QED
      BY <1>3, <3>1, <3>2
  <2>3. CASE rq[r].pc # "hash" /\ x.pc = "hash"
    <3>1. G = H \cup {r} /\ r \notin H
      BY <1>1, <2>3
    <3>2. Cardinality(G) = Cardinality(H) + 1
      BY <1>3, <3>1, FS_AddElement
    <3> QED
      BY <1>3, <2>3, <3>2 DEF Hashing
  <2>4. CASE rq[r].pc = "hash" /\ x.pc # "hash"
    <3>1. G = H \ {r} /\ r \in H
      BY <1>1, <2>4
    <3>2. Cardinality(G) = Cardinality(H) - 1
      BY <1>3, <3>1, FS_RemoveElement
    <3> QED
      BY <1>3, <2>4, <3>2 DEF Hashing
  <2> QED
    BY <2>1, <2>2, <2>3, <2>4
<1> QED
  BY <1>1, <1>2, <1>4 DEF SlotsExact

\* ... and nothing but the slots changes with it.
LEMMA RqOnly ==
  ASSUME AuthInv, NEW r \in Rq, NEW x \in AuthRequest, rq' = [rq EXCEPT ![r] = x], RqOK(x),
         slots' = slots + Hashing(x) - Hashing(rq[r]),
         UNCHANGED <<now, users, sess, okeys, toks, cache, stream, cli>>
  PROVE  AuthInv'
<1>1. (\A q \in AuthRequest : RqOK(q) => RqOK(q)') /\ RqOK(x)'
  BY DEF RqOK, SessionValid
<1>2. rq' \in [Rq -> AuthRequest] /\ RqInv' /\ SlotsExact'
  BY <1>1, RqStep
<1>3. AuthType' /\ CacheInv' /\ StreamInv' /\ RotateInv' /\ ShownIsLogged' /\ RotationOverlaps'
  BY <1>2 DEF AuthInv, AuthType, CacheInv, CacheOK, StreamInv, KeyValid, RotateInv, FreeIn,
              ShownIsLogged, RotationOverlaps
<1> QED
  BY <1>2, <1>3 DEF AuthInv

\* Goto changes where a request is, and nothing it knows.
LEMMA GotoStep ==
  ASSUME AuthInv, NEW r \in Rq, NEW pc, Goto(r, pc),
         pc \in {"idle", "auth", "user", "slot", "hash", "create", "refused", "in", "audit"}
  PROVE  \E x \in AuthRequest :
           /\ rq' = [rq EXCEPT ![r] = x] /\ x.pc = pc /\ x.kind = rq[r].kind /\ x.u = rq[r].u
           /\ x.k = rq[r].k /\ x.ok = rq[r].ok
<1> DEFINE q == rq[r]
           x == [q EXCEPT !.pc = pc]
<1>1. q \in AuthRequest /\ rq \in [Rq -> AuthRequest]
  BY DEF AuthInv, AuthType
<1>2. rq' = [rq EXCEPT ![r] = x]
  BY <1>1 DEF Goto
<1>3. x \in AuthRequest /\ x.pc = pc /\ x.kind = q.kind /\ x.u = q.u /\ x.k = q.k /\ x.ok = q.ok
  BY <1>1 DEF AuthRequest
<1> HIDE DEF x
<1> QED
  BY <1>2, <1>3

CacheEntry == [u : User, exp : Nat, over : BOOLEAN]

\* A request moves and the Basic cache with it.
LEMMA RqAndCache ==
  ASSUME AuthInv, NEW r \in Rq, NEW x \in AuthRequest, rq' = [rq EXCEPT ![r] = x], RqOK(x),
         slots' = slots + Hashing(x) - Hashing(rq[r]),
         cache' \in Seq(CacheEntry), \A i \in DOMAIN cache' : CacheOK(cache'[i]),
         UNCHANGED <<now, users, sess, okeys, toks, stream, cli>>
  PROVE  AuthInv'
<1>1. (\A q \in AuthRequest : RqOK(q) => RqOK(q)') /\ RqOK(x)'
  BY DEF RqOK, SessionValid
<1>2. rq' \in [Rq -> AuthRequest] /\ RqInv' /\ SlotsExact'
  BY <1>1, RqStep
<1>3. AuthType' /\ StreamInv' /\ RotateInv' /\ ShownIsLogged' /\ RotationOverlaps'
  BY <1>2 DEF AuthInv, AuthType, CacheEntry, StreamInv, KeyValid, RotateInv, FreeIn,
              ShownIsLogged, RotationOverlaps
<1>4. CacheInv'
  BY DEF CacheInv, CacheOK
<1> QED
  BY <1>2, <1>3, <1>4 DEF AuthInv

LEMMA CacheKept == ASSUME AuthInv, UNCHANGED cache
                   PROVE  cache' \in Seq(CacheEntry) /\ \A i \in DOMAIN cache' : CacheOK(cache'[i])
BY DEF AuthInv, AuthType, CacheInv, CacheEntry

\* The states a request may go to after the query or the check it was at.
LEMMA GotoOnly ==
  ASSUME AuthInv, NEW r \in Rq, NEW pc \in {"user", "slot", "create", "refused", "in"}, Goto(r, pc),
         slots' = slots - Hashing(rq[r]),
         pc \in {"slot", "user", "create"} => rq[r].kind \in {"session", "basic", "login"},
         rq[r].kind = "session" /\ ~rq[r].ok =>
           pc \in {"user", "refused"} /\ (pc = "user" => ~users[rq[r].u].on),
         cache' \in Seq(CacheEntry), \A i \in DOMAIN cache' : CacheOK(cache'[i]),
         UNCHANGED <<now, users, sess, okeys, toks, stream, cli>>
  PROVE  AuthInv'
<1>1. PICK x \in AuthRequest :
        /\ rq' = [rq EXCEPT ![r] = x] /\ x.pc = pc /\ x.kind = rq[r].kind /\ x.u = rq[r].u
        /\ x.k = rq[r].k /\ x.ok = rq[r].ok
  BY GotoStep
<1>2. RqOK(rq[r]) /\ slots \in Nat
  <2>1. IsFiniteSet({s \in Rq : rq[s].pc = "hash"})
    BY AuthAssumption, FS_Subset
  <2> QED
    BY <2>1, FS_CardinalityType DEF AuthInv, RqInv, SlotsExact
<1>3. RqOK(x)
  BY <1>1, <1>2 DEF RqOK
<1>4. slots' = slots + Hashing(x) - Hashing(rq[r])
  BY <1>1, <1>2 DEF Hashing
<1> QED
  BY <1>1, <1>3, <1>4, RqAndCache

\* What is known of the request at hand.
LEMMA RqFacts ==
  ASSUME AuthInv, NEW r \in Rq
  PROVE  /\ rq[r] \in AuthRequest /\ RqOK(rq[r])
         /\ rq[r].kind \in {"session", "basic", "login"} => rq[r].u \in User
         /\ rq[r].pc # "hash" => Hashing(rq[r]) = 0
         /\ rq[r].pc = "hash" => Hashing(rq[r]) = 1
         /\ slots \in Nat
<1>1. IsFiniteSet({s \in Rq : rq[s].pc = "hash"})
  BY AuthAssumption, FS_Subset
<1> QED
  BY <1>1, FS_CardinalityType DEF AuthInv, AuthType, RqInv, RqOK, SlotsExact, Hashing

LEMMA ArriveInv == ASSUME AuthInv, NEW r \in Rq, NEW kind \in Carrier, NEW u \in User \cup {NoUser},
                          NEW k \in Keys \cup {0}, Arrive(r, kind, u, k),
                          kind \in {"session", "basic"} => u \in User,
                          kind \in {"operator", "bearer"} => k \in Keys
                   PROVE  AuthInv'
<1>1. PICK v : v = Valid(kind, u, k)
  OBVIOUS
<1>2. v \in BOOLEAN
  <2>1. CASE kind = "operator"
    BY <1>1, <2>1 DEF Valid, KeyValid
  <2>2. CASE kind = "bearer"
    BY <1>1, <2>2 DEF Valid, TokenValid
  <2>3. CASE kind = "session"
    <3>1. users[u].on \in BOOLEAN
      BY <2>3 DEF AuthInv, AuthType
    <3> QED
      BY <1>1, <2>3, <3>1 DEF Valid
  <2>4. CASE kind = "basic"
    <3>1. users[u].on \in BOOLEAN
      BY <2>4 DEF AuthInv, AuthType
    <3> QED
      BY <1>1, <2>4, <3>1 DEF Valid
  <2> QED
    BY <2>1, <2>2, <2>3, <2>4 DEF Carrier
<1>3. kind = "session" /\ ~v => ~SessionValid(u) \/ ~users[u].on
  BY <1>1 DEF Valid
<1> DEFINE x == [pc |-> "auth", kind |-> kind, u |-> u, k |-> k, on |-> FALSE, ok |-> v]
<1>4. /\ x \in AuthRequest /\ x.pc = "auth" /\ x.kind = kind /\ x.u = u /\ x.k = k /\ x.ok = v
  BY <1>2 DEF AuthRequest
<1>5. rq' = [rq EXCEPT ![r] = x] /\ rq[r].pc = "idle" /\ slots' = slots
      /\ UNCHANGED <<now, users, sess, okeys, toks, cache, stream, cli>>
  BY <1>1 DEF Arrive
<1> HIDE DEF x
<1>6. RqOK(x)
  BY <1>3, <1>4 DEF RqOK, Carrier
<1>7. slots' = slots + Hashing(x) - Hashing(rq[r])
  BY <1>4, <1>5, RqFacts DEF Hashing
<1> QED
  BY <1>4, <1>5, <1>6, <1>7, RqOnly

LEMMA ResolveBearerInv == ASSUME AuthInv, NEW r \in Rq, ResolveBearer(r) PROVE AuthInv'
<1>1. PICK pc \in {"in", "refused"} : Goto(r, pc)
  BY DEF ResolveBearer
<1>2. slots' = slots - Hashing(rq[r]) /\ rq[r].kind # "session"
  BY RqFacts DEF ResolveBearer
<1>3. UNCHANGED <<now, users, sess, okeys, toks, cache, stream, cli>>
  BY DEF ResolveBearer
<1> QED
  BY <1>1, <1>2, <1>3, CacheKept, GotoOnly

LEMMA ResolveSessionInv == ASSUME AuthInv, NEW r \in Rq, ResolveSession(r) PROVE AuthInv'
<1>1. PICK pc \in {"user", "refused"} : Goto(r, pc) /\ (pc = "user" => SessionValid(rq[r].u))
  BY DEF ResolveSession
<1>2. slots' = slots - Hashing(rq[r]) /\ rq[r].kind = "session" /\ rq[r].pc = "auth"
  BY RqFacts DEF ResolveSession
<1>3. ~rq[r].ok => ~SessionValid(rq[r].u) \/ ~users[rq[r].u].on
  BY <1>2, RqFacts DEF RqOK
<1>4. UNCHANGED <<now, users, sess, okeys, toks, cache, stream, cli>>
  BY DEF ResolveSession
<1> QED
  BY <1>1, <1>2, <1>3, <1>4, CacheKept, GotoOnly

LEMMA SessionUserInv == ASSUME AuthInv, NEW r \in Rq, SessionUser(r) PROVE AuthInv'
<1>1. PICK pc \in {"in", "refused"} : Goto(r, pc) /\ (pc = "in" => users[rq[r].u].on)
  BY DEF SessionUser
<1>2. slots' = slots - Hashing(rq[r]) /\ rq[r].pc = "user"
  BY RqFacts DEF SessionUser
<1>3. rq[r].kind = "session" /\ ~rq[r].ok => ~users[rq[r].u].on
  BY <1>2, RqFacts DEF RqOK
<1>4. UNCHANGED <<now, users, sess, okeys, toks, cache, stream, cli>>
  BY DEF SessionUser
<1> QED
  BY <1>1, <1>2, <1>3, <1>4, CacheKept, GotoOnly

LEMMA LoginInv == ASSUME AuthInv, NEW r \in Rq, NEW u \in User, Login(r, u) PROVE AuthInv'
<1> DEFINE x == [IdleRq EXCEPT !.pc = "slot", !.kind = "login", !.u = u]
<1>1. x \in AuthRequest /\ x.pc = "slot" /\ x.kind = "login" /\ x.u = u
  BY DEF IdleRq, AuthRequest
<1>2. rq' = [rq EXCEPT ![r] = x] /\ rq[r].pc = "idle" /\ slots' = slots
      /\ UNCHANGED <<now, users, sess, okeys, toks, cache, stream, cli>>
  BY DEF Login
<1> HIDE DEF x
<1>3. RqOK(x)
  BY <1>1 DEF RqOK
<1>4. slots' = slots + Hashing(x) - Hashing(rq[r])
  BY <1>1, <1>2, RqFacts DEF Hashing
<1> QED
  BY <1>1, <1>2, <1>3, <1>4, RqOnly

LEMMA TryAcquireInv == ASSUME AuthInv, NEW r \in Rq, TryAcquireArgon2(r) PROVE AuthInv'
<1>1. rq[r].pc = "slot" /\ UNCHANGED <<now, users, sess, okeys, toks, cache, stream, cli>>
  BY DEF TryAcquireArgon2
<1>2. /\ rq[r] \in AuthRequest /\ RqOK(rq[r]) /\ rq[r].kind \in {"session", "basic", "login"}
      /\ rq[r].u \in User /\ Hashing(rq[r]) = 0 /\ slots \in Nat
      /\ ~(rq[r].kind = "session" /\ ~rq[r].ok)
  BY <1>1, RqFacts DEF RqOK
<1>3. CASE slots < Slots
  <2>1. PICK on \in BOOLEAN : on = users[rq[r].u].on
    BY <1>2 DEF AuthInv, AuthType
  <2> DEFINE q == rq[r]
             x == [q EXCEPT !.pc = "hash", !.on = on]
  <2>2. rq' = [rq EXCEPT ![r] = x]
    BY <1>3, <2>1 DEF TryAcquireArgon2, AuthInv, AuthType
  <2>3. /\ x \in AuthRequest /\ x.pc = "hash" /\ x.kind = q.kind /\ x.u = q.u /\ x.k = q.k
        /\ x.ok = q.ok
    BY <1>2 DEF AuthRequest
  <2> HIDE DEF x
  <2>4. RqOK(x)
    BY <1>2, <2>3 DEF RqOK
  <2>5. slots' = slots + Hashing(x) - Hashing(rq[r])
    BY <1>2, <1>3, <2>3 DEF Hashing, TryAcquireArgon2
  <2> QED
    BY <1>1, <2>2, <2>3, <2>4, <2>5, RqOnly
<1>4. CASE ~(slots < Slots)
  <2>1. Goto(r, "refused") /\ slots' = slots - Hashing(rq[r])
    BY <1>2, <1>4 DEF TryAcquireArgon2
  <2> QED
    BY <1>1, <1>2, <2>1, CacheKept, GotoOnly
<1> QED
  BY <1>3, <1>4

LEMMA VerifyLoginInv == ASSUME AuthInv, NEW r \in Rq, VerifyLogin(r) PROVE AuthInv'
<1>1. PICK pc \in {"create", "refused"} : Goto(r, pc)
  BY DEF VerifyLogin
<1>2. slots' = slots - Hashing(rq[r]) /\ rq[r].kind = "login"
  BY RqFacts DEF VerifyLogin
<1>3. UNCHANGED <<now, users, sess, okeys, toks, cache, stream, cli>>
  BY DEF VerifyLogin
<1> QED
  BY <1>1, <1>2, <1>3, CacheKept, GotoOnly

\* A request that is over leaves nothing behind.
LEMMA DoneInv ==
  ASSUME AuthInv, NEW r \in Rq, Done(r), rq[r].pc # "hash",
         UNCHANGED <<now, users, sess, okeys, toks, cache, slots, stream, cli>>
  PROVE  AuthInv'
<1>1. slots' = slots + Hashing(IdleRq) - Hashing(rq[r])
  BY IdleRqFacts, RqFacts DEF Hashing
<1> QED
  BY <1>1, IdleRqFacts, IdleRqOK, RqOnly DEF Done

LEMMA EntryFacts ==
  ASSUME AuthInv, NEW u, Entry(u) # {}
  PROVE  EntryOf(u) \in 1..Len(cache) /\ EntryOf(u) \in DOMAIN cache /\ cache[EntryOf(u)].u = u
<1>1. EntryOf(u) \in Entry(u)
  BY DEF EntryOf
<1>2. DOMAIN cache = 1..Len(cache)
  BY DEF AuthInv, AuthType
<1> QED
  BY <1>1, <1>2 DEF Entry

LEMMA CacheFacts ==
  ASSUME AuthInv
  PROVE  /\ cache \in Seq(CacheEntry)
         /\ \A i \in 1..Len(cache) : cache[i] \in CacheEntry /\ CacheOK(cache[i])
<1>1. cache \in Seq(CacheEntry) /\ DOMAIN cache = 1..Len(cache)
  BY DEF AuthInv, AuthType, CacheEntry
<1> QED
  BY <1>1 DEF AuthInv, CacheInv

\* The list keeps the bounds of what is in it, if what comes in has them.
LEMMA ListOK ==
  ASSUME NEW S, NEW l \in Seq(S), \A i \in 1..Len(l) : CacheOK(l[i])
  PROVE  /\ \A i \in 1..Len(l) :
              /\ Remove(l, i) \in Seq(S)
              /\ \A j \in DOMAIN Remove(l, i) : CacheOK(Remove(l, i)[j])
         /\ \A i \in 1..Len(l), x \in S : CacheOK(x) =>
              /\ MoveToFront(l, i, x) \in Seq(S)
              /\ \A j \in DOMAIN MoveToFront(l, i, x) : CacheOK(MoveToFront(l, i, x)[j])
         /\ \A x \in S : CacheOK(x) =>
              /\ Capped(PushFront(l, x), CacheMax) \in Seq(S)
              /\ \A j \in DOMAIN Capped(PushFront(l, x), CacheMax) :
                   CacheOK(Capped(PushFront(l, x), CacheMax)[j])
<1>1. ASSUME NEW i \in 1..Len(l)
      PROVE  /\ Remove(l, i) \in Seq(S)
             /\ \A j \in DOMAIN Remove(l, i) : CacheOK(Remove(l, i)[j])
  <2>1. PICK m : m = Remove(l, i)
    OBVIOUS
  <2>2. /\ m \in Seq(S) /\ Len(m) = Len(l) - 1
        /\ \A j \in 1..(Len(l) - 1) : m[j] = IF j < i THEN l[j] ELSE l[j + 1]
    BY <2>1, RemoveFacts
  <2>3. ASSUME NEW j \in DOMAIN m PROVE CacheOK(m[j])
    <3>1. j \in 1..(Len(l) - 1) /\ j \in 1..Len(l) /\ j + 1 \in 1..Len(l)
      BY <2>2
    <3>2. m[j] = l[j] \/ m[j] = l[j + 1]
      BY <2>2, <3>1
    <3> QED
      BY <3>1, <3>2
  <2> QED
    BY <2>1, <2>2, <2>3
<1>2. ASSUME NEW i \in 1..Len(l), NEW x \in S, CacheOK(x)
      PROVE  /\ MoveToFront(l, i, x) \in Seq(S)
             /\ \A j \in DOMAIN MoveToFront(l, i, x) : CacheOK(MoveToFront(l, i, x)[j])
  <2>1. PICK m \in Seq(S) : m = MoveToFront(l, i, x)
    BY MoveToFrontFacts
  <2>2. m \in Seq(S) /\ Len(m) = Len(l)
    <3>1. Len(MoveToFront(l, i, x)) = Len(l)
      BY MoveToFrontFacts
    <3> QED
      BY <2>1, <3>1
  <2>4. \A j \in 1..Len(l) : m[j] = IF j = 1 THEN x ELSE IF j <= i THEN l[j - 1] ELSE l[j]
    <3>1. \A j \in 1..Len(l) : MoveToFront(l, i, x)[j] =
                                IF j = 1 THEN x ELSE IF j <= i THEN l[j - 1] ELSE l[j]
      BY MoveToFrontFacts
    <3> QED
      BY <2>1, <3>1
  <2>3. ASSUME NEW j \in DOMAIN m PROVE CacheOK(m[j])
    <3>1. j \in 1..Len(l) /\ (j # 1 => j - 1 \in 1..Len(l))
      BY <2>2
    <3>2. m[j] = x \/ (j # 1 /\ m[j] = l[j - 1]) \/ m[j] = l[j]
      BY <2>4, <3>1
    <3> QED
      BY <1>2, <3>1, <3>2
  <2> QED
    BY <2>1, <2>2, <2>3
<1>3. ASSUME NEW x \in S, CacheOK(x)
      PROVE  /\ Capped(PushFront(l, x), CacheMax) \in Seq(S)
             /\ \A j \in DOMAIN Capped(PushFront(l, x), CacheMax) :
                  CacheOK(Capped(PushFront(l, x), CacheMax)[j])
  <2>1. PICK p \in Seq(S) : p = PushFront(l, x)
    BY PushFrontFacts
  <2>2. p \in Seq(S) /\ Len(p) = Len(l) + 1
    <3>1. Len(PushFront(l, x)) = Len(l) + 1
      BY PushFrontFacts
    <3> QED
      BY <2>1, <3>1
  <2>6. \A j \in 1..(Len(l) + 1) : p[j] = IF j = 1 THEN x ELSE l[j - 1]
    <3>1. \A j \in 1..(Len(l) + 1) : PushFront(l, x)[j] = IF j = 1 THEN x ELSE l[j - 1]
      BY PushFrontFacts
    <3> QED
      BY <2>1, <3>1
  <2>3. PICK m : m = Capped(p, CacheMax)
    OBVIOUS
  <2>4. m \in Seq(S) /\ \A j \in 1..Len(m) : j \in 1..Len(p) /\ m[j] = p[j]
    BY <2>2, <2>3, CappedFacts, AuthAssumption
  <2>5. ASSUME NEW j \in DOMAIN m PROVE CacheOK(m[j])
    <3>1. j \in 1..Len(m)
      BY <2>4
    <3>2. j \in 1..(Len(l) + 1) /\ m[j] = p[j] /\ (j # 1 => j - 1 \in 1..Len(l))
      BY <2>2, <2>4, <3>1
    <3>3. m[j] = x \/ (j # 1 /\ m[j] = l[j - 1])
      BY <2>6, <3>2
    <3> QED
      BY <1>3, <3>2, <3>3
  <2> QED
    BY <2>1, <2>3, <2>4, <2>5
<1> QED
  BY <1>1, <1>2, <1>3

LEMMA GetOK ==
  ASSUME AuthInv, NEW u, cache' = Get(u)
  PROVE  cache' \in Seq(CacheEntry) /\ \A i \in DOMAIN cache' : CacheOK(cache'[i])
<1>1. PICK l \in Seq(CacheEntry) : l = cache
  BY CacheFacts
<1>2. \A i \in 1..Len(l) : l[i] \in CacheEntry /\ CacheOK(l[i])
  BY <1>1, CacheFacts
<1>3. CASE Entry(u) = {}
  BY <1>3, CacheKept DEF Get
<1>4. CASE Entry(u) # {}
  <2>1. PICK i \in 1..Len(l) : i = EntryOf(u)
    BY <1>1, <1>4, EntryFacts
  <2>2. cache' = Remove(l, i) \/ cache' = MoveToFront(l, i, l[i])
    BY <1>1, <1>4, <2>1 DEF Get
  <2>3. PICK x \in CacheEntry : x = l[i] /\ CacheOK(x)
    BY <1>2
  <2> QED
    BY <1>2, <2>2, <2>3, ListOK
<1> QED
  BY <1>3, <1>4

LEMMA PutOK ==
  ASSUME AuthInv, NEW u \in User, NEW over \in BOOLEAN, over = ~users[u].on, cache' = Put(u, over)
  PROVE  cache' \in Seq(CacheEntry) /\ \A i \in DOMAIN cache' : CacheOK(cache'[i])
<1>1. PICK l \in Seq(CacheEntry) : l = cache
  BY CacheFacts
<1>2. \A i \in 1..Len(l) : CacheOK(l[i])
  BY <1>1, CacheFacts
<1>3. PICK t \in Nat : t = now + TTL
  BY AuthAssumption DEF AuthInv, AuthType
<1> DEFINE x == [u |-> u, exp |-> t, over |-> over]
<1>4. x \in CacheEntry /\ x.u = u /\ x.exp = t /\ x.over = over
  BY DEF CacheEntry
<1>5. cache' = IF Entry(u) = {} THEN Capped(PushFront(l, x), CacheMax)
               ELSE MoveToFront(l, EntryOf(u), x)
  BY <1>1, <1>3 DEF Put
<1> HIDE DEF x
<1>6. CacheOK(x)
  <2>1. x.exp <= now + TTL
    BY <1>3, <1>4
  <2>2. ~users[x.u].on => x.over
    BY <1>4
  <2> QED
    BY <2>1, <2>2 DEF CacheOK
<1>7. CASE Entry(u) = {}
  BY <1>2, <1>4, <1>5, <1>6, <1>7, ListOK
<1>8. CASE Entry(u) # {}
  <2>1. PICK i \in 1..Len(l) : i = EntryOf(u)
    BY <1>1, <1>8, EntryFacts
  <2> QED
    BY <1>2, <1>4, <1>5, <1>6, <1>8, <2>1, ListOK
<1> QED
  BY <1>7, <1>8

LEMMA BasicGetInv == ASSUME AuthInv, NEW r \in Rq, BasicGet(r) PROVE AuthInv'
<1>1. PICK pc \in {"in", "slot"} : Goto(r, pc)
  BY DEF BasicGet
<1>2. slots' = slots - Hashing(rq[r]) /\ rq[r].kind = "basic"
  BY RqFacts DEF BasicGet
<1>3. UNCHANGED <<now, users, sess, okeys, toks, stream, cli>>
  BY DEF BasicGet
<1>4. PICK u : u = rq[r].u
  OBVIOUS
<1>5. cache' \in Seq(CacheEntry) /\ \A i \in DOMAIN cache' : CacheOK(cache'[i])
  BY <1>4, GetOK DEF BasicGet
<1> QED
  BY <1>1, <1>2, <1>3, <1>5, GotoOnly

LEMMA VerifyBasicInv == ASSUME AuthInv, NEW r \in Rq, VerifyBasic(r) PROVE AuthInv'
<1>1. PICK pc \in {"in", "refused"} : Goto(r, pc)
  BY DEF VerifyBasic
<1>2. slots' = slots - Hashing(rq[r]) /\ rq[r].kind = "basic"
  BY RqFacts DEF VerifyBasic
<1>3. UNCHANGED <<now, users, sess, okeys, toks, stream, cli>>
  BY DEF VerifyBasic
<1>4. PICK u \in User : u = rq[r].u
  BY <1>2, RqFacts
<1>5. PICK over \in BOOLEAN : over = ~users[u].on
  OBVIOUS
<1>6. cache' = cache \/ cache' = Put(u, over)
  BY <1>4, <1>5 DEF VerifyBasic
<1>7. cache' \in Seq(CacheEntry) /\ \A i \in DOMAIN cache' : CacheOK(cache'[i])
  BY <1>5, <1>6, PutOK, CacheKept
<1> QED
  BY <1>1, <1>2, <1>3, <1>7, GotoOnly

\* What no other component of the state than the named ones depends on.
LEMMA SlotsKept ==
  ASSUME AuthInv, UNCHANGED slots, \A s \in Rq : rq'[s].pc = "hash" <=> rq[s].pc = "hash"
  PROVE  SlotsExact'
BY DEF AuthInv, SlotsExact

\* Excuse touches what a request is excused for, nothing else.
LEMMA ExcuseFacts ==
  ASSUME AuthInv, NEW u
  PROVE  \E e \in [Rq -> AuthRequest] :
           /\ e = Excuse(u)
           /\ \A s \in Rq :
                /\ e[s].pc = rq[s].pc /\ e[s].kind = rq[s].kind /\ e[s].u = rq[s].u
                /\ e[s].k = rq[s].k /\ IF rq[s].u = u THEN e[s].ok = TRUE ELSE e[s].ok = rq[s].ok
<1>1. \A q \in AuthRequest :
        LET x == [q EXCEPT !.ok = TRUE] IN
          /\ x \in AuthRequest /\ x.pc = q.pc /\ x.kind = q.kind /\ x.u = q.u /\ x.k = q.k
          /\ x.ok = TRUE
  BY DEF AuthRequest
<1>2. \A s \in Rq : rq[s] \in AuthRequest
  BY DEF AuthInv, AuthType
<1>3. \A s \in Rq : Excuse(u)[s] = IF rq[s].u = u THEN [rq[s] EXCEPT !.ok = TRUE] ELSE rq[s]
  BY DEF Excuse
<1>4. ASSUME NEW s \in Rq
      PROVE  LET x == Excuse(u)[s] IN
              /\ x \in AuthRequest
              /\ x.pc = rq[s].pc /\ x.kind = rq[s].kind /\ x.u = rq[s].u /\ x.k = rq[s].k
              /\ IF rq[s].u = u THEN x.ok = TRUE ELSE x.ok = rq[s].ok
  BY <1>1, <1>2, <1>3
<1>5. PICK e : e = Excuse(u)
  OBVIOUS
<1>6. e = [s \in Rq |-> e[s]]
  BY <1>5 DEF Excuse
<1>7. \A s \in Rq :
        /\ e[s] \in AuthRequest
        /\ e[s].pc = rq[s].pc /\ e[s].kind = rq[s].kind /\ e[s].u = rq[s].u
        /\ e[s].k = rq[s].k /\ IF rq[s].u = u THEN e[s].ok = TRUE ELSE e[s].ok = rq[s].ok
  BY <1>4, <1>5, Zenon
<1>8. e \in [Rq -> AuthRequest]
  BY <1>6, <1>7
<1> QED
  BY <1>5, <1>7, <1>8

\* A request that is over, with what it did to the sessions.
LEMMA LogoutInv == ASSUME AuthInv, NEW r \in Rq, Logout(r) PROVE AuthInv'
<1>1. PICK u \in User : u = rq[r].u
  BY RqFacts DEF Logout
<1>2. /\ UNCHANGED <<now, users, okeys, toks, cache, slots, stream, cli>>
      /\ rq' = [rq EXCEPT ![r] = IdleRq] /\ rq[r].pc = "in"
  BY DEF Logout, Done
<1>3. /\ sess' \in [User -> [live : BOOLEAN, exp : Nat]]
      /\ \A v \in User : sess'[v].exp = sess[v].exp /\ (sess'[v].live => sess[v].live)
  <2>1. sess \in [User -> [live : BOOLEAN, exp : Nat]]
    BY DEF AuthInv, AuthType
  <2>2. sess' = [sess EXCEPT ![u].live = FALSE]
    BY <1>1 DEF Logout
  <2>3. PICK y : y = [sess[u] EXCEPT !.live = FALSE]
    OBVIOUS
  <2>4. y \in [live : BOOLEAN, exp : Nat] /\ y.live = FALSE /\ y.exp = sess[u].exp
    BY <2>1, <2>3
  <2>5. sess' = [sess EXCEPT ![u] = y]
    BY <2>2, <2>3
  <2> QED
    BY <2>1, <2>4, <2>5
<1>4. \A q \in AuthRequest : RqOK(q) => RqOK(q)'
  BY <1>2, <1>3 DEF RqOK, SessionValid
<1>5. slots' = slots + Hashing(IdleRq) - Hashing(rq[r])
  BY <1>2, IdleRqFacts, RqFacts DEF Hashing
<1>6. rq' \in [Rq -> AuthRequest] /\ RqInv' /\ SlotsExact'
  BY <1>2, <1>4, <1>5, IdleRqFacts, IdleRqOK, RqStep
<1>7. AuthType' /\ CacheInv' /\ StreamInv' /\ RotateInv' /\ ShownIsLogged' /\ RotationOverlaps'
  BY <1>2, <1>3, <1>6 DEF AuthInv, AuthType, CacheInv, CacheOK, StreamInv, KeyValid, RotateInv,
                          FreeIn, ShownIsLogged, RotationOverlaps
<1> QED
  BY <1>6, <1>7 DEF AuthInv

LEMMA CreateSessionInv == ASSUME AuthInv, NEW r \in Rq, CreateSession(r) PROVE AuthInv'
<1>1. PICK u \in User : u = rq[r].u
  BY RqFacts DEF CreateSession, RqOK
<1>2. /\ UNCHANGED <<now, users, okeys, toks, cache, slots, stream, cli>>
      /\ rq' = [Excuse(u) EXCEPT ![r] = IdleRq] /\ rq[r].pc = "create"
  BY <1>1 DEF CreateSession
<1>3. /\ sess' \in [User -> [live : BOOLEAN, exp : Nat]]
      /\ \A v \in User \ {u} : sess'[v] = sess[v]
  <2>1. now + Life \in Nat
    BY AuthAssumption DEF AuthInv, AuthType
  <2> QED
    BY <1>1, <2>1 DEF CreateSession, AuthInv, AuthType
<1>4. PICK e \in [Rq -> AuthRequest] :
        /\ e = Excuse(u)
        /\ \A s \in Rq :
             /\ e[s].pc = rq[s].pc /\ e[s].kind = rq[s].kind /\ e[s].u = rq[s].u
             /\ e[s].k = rq[s].k /\ IF rq[s].u = u THEN e[s].ok = TRUE ELSE e[s].ok = rq[s].ok
  BY ExcuseFacts
<1>6. /\ rq' \in [Rq -> AuthRequest] /\ rq'[r] = IdleRq /\ \A s \in Rq \ {r} : rq'[s] = e[s]
  BY <1>2, <1>4, IdleRqFacts
<1>7. RqInv'
  <2> SUFFICES ASSUME NEW s \in Rq PROVE RqOK(rq[s])'
    BY DEF RqInv
  <2>1. CASE s = r
    BY <1>6, <2>1, IdleRqFacts DEF RqOK
  <2>2. CASE s # r
    <3>1. rq'[s] = e[s] /\ RqOK(rq[s])
      BY <1>6, <2>2 DEF AuthInv, RqInv
    <3>2. CASE rq[s].u = u
      BY <1>4, <3>1, <3>2 DEF RqOK
    <3>3. CASE rq[s].u # u
      BY <1>2, <1>3, <1>4, <3>1, <3>3 DEF RqOK, SessionValid
    <3> QED
      BY <3>2, <3>3
  <2> QED
    BY <2>1, <2>2
<1>8. SlotsExact'
  BY <1>2, <1>4, <1>6, IdleRqFacts, SlotsKept
<1>9. AuthType' /\ CacheInv' /\ StreamInv' /\ RotateInv' /\ ShownIsLogged' /\ RotationOverlaps'
  BY <1>2, <1>3, <1>6 DEF AuthInv, AuthType, CacheInv, CacheOK, StreamInv, KeyValid, RotateInv,
                          FreeIn, ShownIsLogged, RotationOverlaps
<1> QED
  BY <1>7, <1>8, <1>9 DEF AuthInv

LEMMA CleanupInv == ASSUME AuthInv, Cleanup PROVE AuthInv'
<1>1. UNCHANGED <<now, users, okeys, toks, cache, slots, rq, stream, cli>>
  BY DEF Cleanup
<1>2. /\ sess' \in [User -> [live : BOOLEAN, exp : Nat]]
      /\ \A v \in User : sess'[v].exp = sess[v].exp /\ (sess'[v].live => sess[v].live)
  <2> DEFINE f(v) == IF sess[v].exp < now THEN [sess[v] EXCEPT !.live = FALSE] ELSE sess[v]
  <2>1. ASSUME NEW v \in User
        PROVE  f(v) \in [live : BOOLEAN, exp : Nat] /\ f(v).exp = sess[v].exp
               /\ (f(v).live => sess[v].live)
    <3>1. sess[v] \in [live : BOOLEAN, exp : Nat]
      BY DEF AuthInv, AuthType
    <3>2. PICK y : y = [sess[v] EXCEPT !.live = FALSE]
      OBVIOUS
    <3>3. y \in [live : BOOLEAN, exp : Nat] /\ y.exp = sess[v].exp /\ y.live = FALSE
      BY <3>1, <3>2
    <3>4. CASE sess[v].exp < now
      BY <3>2, <3>3, <3>4
    <3>5. CASE ~(sess[v].exp < now)
      BY <3>1, <3>5
    <3> QED
      BY <3>4, <3>5
  <2>2. sess' = [v \in User |-> f(v)]
    BY DEF Cleanup
  <2> HIDE DEF f
  <2> QED
    BY <2>1, <2>2
<1>3. RqInv'
  <2> SUFFICES ASSUME NEW s \in Rq PROVE RqOK(rq[s])'
    BY DEF RqInv
  <2>1. RqOK(rq[s])
    BY DEF AuthInv, RqInv
  <2> QED
    BY <1>1, <1>2, <2>1 DEF RqOK, SessionValid
<1>4. SlotsExact'
  BY <1>1 DEF AuthInv, SlotsExact
<1>5. AuthType' /\ CacheInv' /\ StreamInv' /\ RotateInv' /\ ShownIsLogged' /\ RotationOverlaps'
  BY <1>1, <1>2 DEF AuthInv, AuthType, CacheInv, CacheOK, StreamInv, KeyValid, RotateInv, FreeIn,
                    ShownIsLogged, RotationOverlaps
<1> QED
  BY <1>3, <1>4, <1>5 DEF AuthInv

\* A request moves to x and tokens change: nothing else depends on them.
LEMMA TokenStep ==
  ASSUME AuthInv, NEW r \in Rq, NEW x \in AuthRequest, rq' = [rq EXCEPT ![r] = x], RqOK(x),
         x.pc # "hash", rq[r].pc # "hash",
         toks' \in [Keys -> [st : {"none", "live", "off"}, shown : BOOLEAN, logged : BOOLEAN]],
         \A k \in Keys : toks'[k].shown => toks'[k].logged,
         UNCHANGED <<now, users, sess, okeys, cache, slots, stream, cli>>
  PROVE  AuthInv'
<1>1. (\A q \in AuthRequest : RqOK(q) => RqOK(q)') /\ RqOK(x)'
  BY DEF RqOK, SessionValid
<1>2. slots' = slots + Hashing(x) - Hashing(rq[r])
  BY RqFacts DEF Hashing
<1>3. rq' \in [Rq -> AuthRequest] /\ RqInv' /\ SlotsExact'
  BY <1>1, <1>2, RqStep
<1>4. AuthType' /\ CacheInv' /\ StreamInv' /\ RotateInv' /\ ShownIsLogged' /\ RotationOverlaps'
  BY <1>3 DEF AuthInv, AuthType, CacheInv, CacheOK, StreamInv, KeyValid, RotateInv, FreeIn,
              ShownIsLogged, RotationOverlaps
<1> QED
  BY <1>3, <1>4 DEF AuthInv

LEMMA CreateTokenInv == ASSUME AuthInv, NEW r \in Rq, CreateToken(r) PROVE AuthInv'
<1>1. PICK k \in Keys : k = Next1(toks)
  BY DEF CreateToken, Next1, FreeIn
<1> DEFINE q == rq[r]
           x == [q EXCEPT !.pc = "audit", !.k = k]
<1>2. q \in AuthRequest /\ RqOK(q) /\ q.pc = "in"
  BY RqFacts DEF CreateToken
<1>3. x \in AuthRequest /\ x.pc = "audit" /\ x.kind = q.kind /\ x.u = q.u /\ x.k = k /\ x.ok = q.ok
  BY <1>2 DEF AuthRequest
<1>4. rq' = [rq EXCEPT ![r] = x]
  BY <1>1 DEF CreateToken, AuthInv, AuthType
<1> HIDE DEF x
<1>5. RqOK(x)
  BY <1>2, <1>3 DEF RqOK
<1>6. /\ toks' \in [Keys -> [st : {"none", "live", "off"}, shown : BOOLEAN, logged : BOOLEAN]]
      /\ \A j \in Keys : toks'[j].shown => toks'[j].logged
  <2>1. toks \in [Keys -> [st : {"none", "live", "off"}, shown : BOOLEAN, logged : BOOLEAN]]
        /\ \A j \in Keys : toks[j].shown => toks[j].logged
    BY DEF AuthInv, AuthType, ShownIsLogged
  <2>2. PICK y : y = [toks[k] EXCEPT !.st = "live"]
    OBVIOUS
  <2>3. y \in [st : {"none", "live", "off"}, shown : BOOLEAN, logged : BOOLEAN]
        /\ y.shown = toks[k].shown /\ y.logged = toks[k].logged
    BY <2>1, <2>2
  <2>4. toks' = [toks EXCEPT ![k] = y]
    BY <1>1, <2>2 DEF CreateToken
  <2>5. toks' \in [Keys -> [st : {"none", "live", "off"}, shown : BOOLEAN, logged : BOOLEAN]] /\ toks'[k] = y
        /\ \A j \in Keys \ {k} : toks'[j] = toks[j]
    BY <2>1, <2>3, <2>4
  <2> QED
    BY <2>1, <2>3, <2>5
<1>7. UNCHANGED <<now, users, sess, okeys, cache, slots, stream, cli>>
  BY DEF CreateToken
<1> QED
  BY <1>2, <1>3, <1>4, <1>5, <1>6, <1>7, TokenStep

LEMMA MintInv == ASSUME AuthInv, NEW r \in Rq, NEW w \in BOOLEAN, Mint(r, w) PROVE AuthInv'
<1>1. PICK k \in Keys : k = rq[r].k
  BY RqFacts DEF Mint, RqOK
<1>2. /\ toks' \in [Keys -> [st : {"none", "live", "off"}, shown : BOOLEAN, logged : BOOLEAN]]
      /\ \A j \in Keys : toks'[j].shown => toks'[j].logged
  <2> DEFINE t == toks[k]
             x == [t EXCEPT !.shown = w, !.logged = w]
  <2>1. t \in [st : {"none", "live", "off"}, shown : BOOLEAN, logged : BOOLEAN]
    BY DEF AuthInv, AuthType
  <2>2. x \in [st : {"none", "live", "off"}, shown : BOOLEAN, logged : BOOLEAN]
        /\ x.shown = w /\ x.logged = w
    BY <2>1
  <2>3. toks' = [toks EXCEPT ![k] = x]
    BY <1>1 DEF Mint, AuthInv, AuthType
  <2> HIDE DEF x
  <2> QED
    BY <2>2, <2>3 DEF AuthInv, AuthType, ShownIsLogged
<1>3. /\ UNCHANGED <<now, users, sess, okeys, cache, slots, stream, cli>>
      /\ rq[r].pc # "hash" /\ rq' = [rq EXCEPT ![r] = IdleRq] /\ IdleRq.pc # "hash"
  BY IdleRqFacts DEF Mint, Done
<1> QED
  BY <1>2, <1>3, IdleRqFacts, IdleRqOK, TokenStep

LEMMA RevokeInv == ASSUME AuthInv, NEW r \in Rq, NEW k \in Keys, Revoke(r, k) PROVE AuthInv'
<1>1. /\ toks' \in [Keys -> [st : {"none", "live", "off"}, shown : BOOLEAN, logged : BOOLEAN]]
      /\ \A j \in Keys : toks'[j].shown => toks'[j].logged
  <2>1. toks \in [Keys -> [st : {"none", "live", "off"}, shown : BOOLEAN, logged : BOOLEAN]]
        /\ \A j \in Keys : toks[j].shown => toks[j].logged
    BY DEF AuthInv, AuthType, ShownIsLogged
  <2>2. PICK y : y = [toks[k] EXCEPT !.st = "off"]
    OBVIOUS
  <2>3. y \in [st : {"none", "live", "off"}, shown : BOOLEAN, logged : BOOLEAN]
        /\ y.shown = toks[k].shown /\ y.logged = toks[k].logged
    BY <2>1, <2>2
  <2>4. toks' = [toks EXCEPT ![k] = y]
    BY <2>2 DEF Revoke
  <2>5. toks' \in [Keys -> [st : {"none", "live", "off"}, shown : BOOLEAN, logged : BOOLEAN]] /\ toks'[k] = y
        /\ \A j \in Keys \ {k} : toks'[j] = toks[j]
    BY <2>1, <2>3, <2>4
  <2> QED
    BY <2>1, <2>3, <2>5
<1>2. /\ UNCHANGED <<now, users, sess, okeys, cache, slots, stream, cli>>
      /\ rq[r].pc # "hash" /\ rq' = [rq EXCEPT ![r] = IdleRq] /\ IdleRq.pc # "hash"
  BY IdleRqFacts DEF Revoke, Done
<1> QED
  BY <1>1, <1>2, IdleRqFacts, IdleRqOK, TokenStep

\* The stream and what it says of its key; requests end or stay.
LEMMA StreamStep ==
  ASSUME AuthInv, stream' \in Listener, StreamInv', RqInv', rq' \in [Rq -> AuthRequest], SlotsExact',
         UNCHANGED <<now, users, sess, okeys, toks, cache, slots, cli>>
  PROVE  AuthInv'
<1>1. AuthType' /\ CacheInv' /\ RotateInv' /\ ShownIsLogged' /\ RotationOverlaps'
  BY DEF AuthInv, AuthType, CacheInv, CacheOK, RotateInv, FreeIn, ShownIsLogged, RotationOverlaps
<1> QED
  BY <1>1 DEF AuthInv

LEMMA OpenStreamInv == ASSUME AuthInv, NEW r \in Rq, OpenStream(r) PROVE AuthInv'
<1>1. /\ UNCHANGED <<now, users, sess, okeys, toks, cache, slots, cli>>
      /\ rq[r].pc = "in" /\ rq' = [rq EXCEPT ![r] = IdleRq]
  BY DEF OpenStream, Done
<1>2. rq' \in [Rq -> AuthRequest] /\ RqInv' /\ SlotsExact'
  <2>1. \A q \in AuthRequest : RqOK(q) => RqOK(q)'
    BY <1>1 DEF RqOK, SessionValid
  <2>2. slots' = slots + Hashing(IdleRq) - Hashing(rq[r])
    BY <1>1, IdleRqFacts, RqFacts DEF Hashing
  <2> QED
    BY <1>1, <2>1, <2>2, IdleRqFacts, IdleRqOK, RqStep
<1>3. /\ stream' \in Listener /\ stream'.kind = rq[r].kind /\ stream'.k = rq[r].k
      /\ stream'.due = now + Reauth /\ stream'.from = now
  <2>1. now \in Nat /\ now + Reauth \in Nat
    BY AuthAssumption DEF AuthInv, AuthType
  <2>2. PICK q \in AuthRequest : q = rq[r]
    BY RqFacts
  <2>3. stream' = [kind |-> q.kind, u |-> q.u, k |-> q.k, due |-> now + Reauth, from |-> now]
    BY <2>2 DEF OpenStream
  <2>4. q.kind \in Carrier \cup {"login", "none"} /\ q.u \in User \cup {NoUser} /\ q.k \in Keys \cup {0}
    BY DEF AuthRequest
  <2> QED
    BY <2>1, <2>2, <2>3, <2>4 DEF Listener
<1>4. rq[r].kind = "operator" => rq[r].k \in Keys
  BY RqFacts DEF RqOK
<1>5. StreamInv'
  BY <1>1, <1>3, <1>4, AuthAssumption DEF StreamInv, AuthInv, AuthType
<1> QED
  BY <1>1, <1>2, <1>3, <1>5, StreamStep

LEMMA RqKept ==
  ASSUME AuthInv, UNCHANGED <<now, users, sess, rq, slots>>
  PROVE  rq' \in [Rq -> AuthRequest] /\ RqInv' /\ SlotsExact'
<1>1. RqInv'
  BY DEF AuthInv, RqInv, RqOK, SessionValid
<1> QED
  BY <1>1 DEF AuthInv, AuthType, SlotsExact

LEMMA CloseStreamInv == ASSUME AuthInv, stream' = NoStream,
                               UNCHANGED <<now, users, sess, okeys, toks, cache, slots, rq, cli>>
                        PROVE  AuthInv'
<1>1. stream' \in Listener /\ stream'.kind = "none"
  BY DEF NoStream, Listener
<1>2. StreamInv'
  BY <1>1 DEF StreamInv
<1> QED
  BY <1>1, <1>2, RqKept, StreamStep

LEMMA ReauthStreamInv == ASSUME AuthInv, ReauthStream PROVE AuthInv'
<1>1. UNCHANGED <<now, users, sess, okeys, toks, cache, slots, rq, cli>>
  BY DEF ReauthStream
<1>2. CASE StillValid(stream)
  <2>1. now + Reauth \in Nat /\ stream \in Listener /\ now \in Nat
    BY AuthAssumption DEF AuthInv, AuthType
  <2>2. PICK t \in Nat : t = now + Reauth
    BY <2>1
  <2> DEFINE x == [stream EXCEPT !.due = t]
  <2>3. x \in Listener /\ x.kind = stream.kind /\ x.k = stream.k /\ x.due = t
    BY <2>1 DEF Listener
  <2>4. stream' = x
    BY <1>2, <2>2 DEF ReauthStream
  <2> HIDE DEF x
  <2>5. KeyValid(stream.k) /\ stream.kind = "operator"
    BY <1>2 DEF StillValid
  <2>6. KeyValid(stream.k)'
    BY <1>1, <2>3, <2>4, <2>5 DEF KeyValid
  <2>7. stream.k \in Keys
    BY <2>5 DEF AuthInv, StreamInv
  <2>8. StreamInv'
    BY <1>1, <2>1, <2>2, <2>3, <2>4, <2>6, <2>7, AuthAssumption DEF StreamInv
  <2> QED
    BY <1>1, <2>3, <2>4, <2>8, RqKept, StreamStep
<1>3. CASE ~StillValid(stream)
  BY <1>1, <1>3, CloseStreamInv DEF ReauthStream
<1> QED
  BY <1>2, <1>3

LEMMA SetDisabledInv == ASSUME AuthInv, NEW u \in User, NEW off \in BOOLEAN, SetDisabled(u, off)
                        PROVE  AuthInv'
<1>1. UNCHANGED <<now, sess, okeys, toks, cache, slots, stream, cli>> /\ users[u].on = off
  BY DEF SetDisabled
<1>2. /\ users' \in [User -> [on : BOOLEAN, off : Nat]]
      /\ users'[u].on = ~off /\ (off => users'[u].off = now)
      /\ \A v \in User \ {u} : users'[v] = users[v]
  <2>1. PICK t \in Nat : t = IF off THEN now ELSE users[u].off
    BY DEF AuthInv, AuthType
  <2> DEFINE x == [on |-> ~off, off |-> t]
  <2>2. x \in [on : BOOLEAN, off : Nat] /\ x.on = ~off /\ x.off = t
    OBVIOUS
  <2>3. users' = [users EXCEPT ![u] = x]
    BY <2>1 DEF SetDisabled, AuthInv, AuthType
  <2> HIDE DEF x
  <2> QED
    BY <2>1, <2>2, <2>3 DEF AuthInv, AuthType
<1>3. rq' \in [Rq -> AuthRequest] /\ RqInv' /\ SlotsExact'
  <2>1. CASE off
    <3>1. rq' = rq
      BY <2>1 DEF SetDisabled
    <3>2. \A v \in User : users'[v].on => users[v].on
      BY <1>1, <1>2, <2>1
    <3>3. RqInv'
      <4> SUFFICES ASSUME NEW s \in Rq PROVE RqOK(rq[s])'
        BY DEF RqInv
      <4>1. RqOK(rq[s])
        BY DEF AuthInv, RqInv
      <4> QED
        BY <1>1, <3>1, <3>2, <4>1 DEF RqOK, SessionValid
    <3> QED
      BY <1>1, <3>1, <3>3 DEF AuthInv, AuthType, SlotsExact
  <2>2. CASE ~off
    <3>1. PICK e \in [Rq -> AuthRequest] :
            /\ e = Excuse(u)
            /\ \A s \in Rq :
                 /\ e[s].pc = rq[s].pc /\ e[s].kind = rq[s].kind /\ e[s].u = rq[s].u
                 /\ e[s].k = rq[s].k /\ IF rq[s].u = u THEN e[s].ok = TRUE ELSE e[s].ok = rq[s].ok
      BY ExcuseFacts
    <3>2. rq' = e
      BY <2>2, <3>1 DEF SetDisabled
    <3>3. RqInv'
      <4> SUFFICES ASSUME NEW s \in Rq PROVE RqOK(rq[s])'
        BY DEF RqInv
      <4>1. RqOK(rq[s])
        BY DEF AuthInv, RqInv
      <4>2. CASE rq[s].u = u
        BY <3>1, <3>2, <4>1, <4>2 DEF RqOK
      <4>3. CASE rq[s].u # u
        BY <1>1, <1>2, <3>1, <3>2, <4>1, <4>3 DEF RqOK, SessionValid
      <4> QED
        BY <4>2, <4>3
    <3>4. SlotsExact'
      BY <1>1, <3>1, <3>2, SlotsKept
    <3> QED
      BY <3>2, <3>3, <3>4
  <2> QED
    BY <2>1, <2>2
<1>4. CacheInv'
  <2> SUFFICES ASSUME NEW i \in DOMAIN cache' PROVE CacheOK(cache[i])'
    BY DEF CacheInv
  <2>1. i \in DOMAIN cache /\ CacheOK(cache[i]) /\ cache'[i] = cache[i]
    BY <1>1 DEF AuthInv, CacheInv
  <2>2. cache[i].u \in User /\ cache[i].exp \in Nat
    BY <2>1, CacheFacts DEF CacheEntry
  <2>3. CASE cache[i].u = u
    BY <1>1, <1>2, <2>1, <2>2, <2>3, AuthAssumption DEF CacheOK, AuthInv, AuthType
  <2>4. CASE cache[i].u # u
    BY <1>1, <1>2, <2>1, <2>2, <2>4 DEF CacheOK
  <2> QED
    BY <2>3, <2>4
<1>5. AuthType' /\ StreamInv' /\ RotateInv' /\ ShownIsLogged' /\ RotationOverlaps'
  BY <1>1, <1>2, <1>3 DEF AuthInv, AuthType, StreamInv, KeyValid, RotateInv, FreeIn,
                          ShownIsLogged, RotationOverlaps
<1> QED
  BY <1>3, <1>4, <1>5 DEF AuthInv

\* Keys change, nobody else does.
LEMMA KeyStep ==
  ASSUME AuthInv, StreamInv', RotateInv', RotationOverlaps', cli' \in Keys \cup {0},
         okeys' \in [Keys -> [st : {"none", "live", "off"}, exp : Nat, off : Nat,
                              succ : Keys \cup {0}]],
         UNCHANGED <<now, users, sess, toks, cache, slots, rq, stream>>
  PROVE  AuthInv'
<1>1. rq' \in [Rq -> AuthRequest] /\ RqInv' /\ SlotsExact'
  BY RqKept
<1>2. AuthType' /\ CacheInv' /\ ShownIsLogged'
  BY <1>1 DEF AuthInv, AuthType, CacheInv, CacheOK, ShownIsLogged
<1> QED
  BY <1>1, <1>2 DEF AuthInv

LEMMA KeysFacts ==
  AuthInv => /\ \A k \in Keys : /\ okeys[k].st \in {"none", "live", "off"} /\ okeys[k].exp \in Nat
                                /\ okeys[k].off \in Nat /\ okeys[k].succ \in Keys \cup {0}
             /\ now \in Nat /\ 0 \notin Keys
             /\ stream.kind # "none" => stream.due \in Nat /\ stream.from \in Nat
<1> SUFFICES ASSUME AuthInv
             PROVE  /\ \A k \in Keys : /\ okeys[k].st \in {"none", "live", "off"}
                                       /\ okeys[k].exp \in Nat /\ okeys[k].off \in Nat
                                       /\ okeys[k].succ \in Keys \cup {0}
                    /\ now \in Nat /\ 0 \notin Keys
                    /\ stream.kind # "none" => stream.due \in Nat /\ stream.from \in Nat
  OBVIOUS
<1>1. stream.due \in Nat /\ stream.from \in Nat
  BY DEF AuthInv, AuthType, Listener
<1>2. 0 \notin Keys
  BY AuthAssumption DEF Keys
<1>3. \A k \in Keys : /\ okeys[k].st \in {"none", "live", "off"} /\ okeys[k].exp \in Nat
                      /\ okeys[k].off \in Nat /\ okeys[k].succ \in Keys \cup {0}
  BY DEF AuthInv, AuthType
<1> QED
  BY <1>1, <1>2, <1>3 DEF AuthInv, AuthType

LEMMA DisableOperatorInv == ASSUME AuthInv, NEW k \in Keys, DisableOperator(k) PROVE AuthInv'
<1>1. UNCHANGED <<now, users, sess, toks, cache, slots, rq, stream, cli>> /\ okeys[k].st = "live"
  BY DEF DisableOperator
<1>2. /\ okeys' \in [Keys -> [st : {"none", "live", "off"}, exp : Nat, off : Nat,
                              succ : Keys \cup {0}]]
      /\ okeys'[k].st = "off" /\ okeys'[k].off = now /\ okeys'[k].exp = okeys[k].exp
      /\ okeys'[k].succ = okeys[k].succ /\ \A j \in Keys \ {k} : okeys'[j] = okeys[j]
  <2> DEFINE o == okeys[k]
             x == [o EXCEPT !.st = "off", !.off = now]
  <2>1. o \in [st : {"none", "live", "off"}, exp : Nat, off : Nat, succ : Keys \cup {0}] /\ now \in Nat
    BY DEF AuthInv, AuthType
  <2>2. x \in [st : {"none", "live", "off"}, exp : Nat, off : Nat, succ : Keys \cup {0}]
        /\ x.st = "off" /\ x.off = now /\ x.exp = o.exp /\ x.succ = o.succ
    BY <2>1
  <2>3. okeys' = [okeys EXCEPT ![k] = x]
    BY DEF DisableOperator, AuthInv, AuthType
  <2> HIDE DEF x
  <2> QED
    BY <2>2, <2>3 DEF AuthInv, AuthType
<1>3. StreamInv'
  <2>1. CASE stream.k = k
    BY <1>1, <1>2, <2>1, KeysFacts DEF StreamInv, AuthInv
  <2>2. CASE stream.k # k
    BY <1>1, <1>2, <2>2, KeysFacts DEF StreamInv, AuthInv, KeyValid
  <2> QED
    BY <2>1, <2>2
<1>4. \A j \in Keys : okeys'[j].st = "none" <=> okeys[j].st = "none"
  BY <1>1, <1>2
<1>5. RotateInv'
  <2>1. FreeIn(okeys)' = FreeIn(okeys)
    BY <1>4 DEF FreeIn
  <2> QED
    BY <1>1, <1>4, <2>1, KeysFacts DEF RotateInv, AuthInv, AuthType
<1>6. RotationOverlaps'
  <2>1. \A j \in Keys : okeys'[j].exp = okeys[j].exp /\ okeys'[j].succ = okeys[j].succ
    BY <1>2
  <2> QED
    BY <1>4, <2>1, KeysFacts DEF RotationOverlaps, AuthInv
<1> QED
  BY <1>1, <1>2, <1>3, <1>5, <1>6, KeyStep DEF AuthInv, AuthType

LEMMA RotateCheckInv == ASSUME AuthInv, NEW k \in Keys, RotateCheck(k) PROVE AuthInv'
<1>1. UNCHANGED <<now, users, sess, okeys, toks, cache, slots, rq, stream>> /\ cli' = k
      /\ okeys[k].st = "live" /\ FreeIn(okeys) # {}
  BY DEF RotateCheck
<1>2. StreamInv' /\ RotateInv' /\ RotationOverlaps'
  BY <1>1 DEF AuthInv, StreamInv, KeyValid, RotateInv, FreeIn, RotationOverlaps
<1> QED
  BY <1>1, <1>2, KeyStep DEF AuthInv, AuthType

LEMMA RotateCommitInv == ASSUME AuthInv, RotateCommit PROVE AuthInv'
<1>1. UNCHANGED <<now, users, sess, toks, cache, slots, rq, stream>> /\ cli' = 0 /\ cli # 0
  BY DEF RotateCommit
<1>2. PICK c \in Keys, n \in Keys : c = cli /\ n = Next1(okeys) /\ okeys[n].st = "none"
                                    /\ okeys[c].st # "none"
  <2>1. Next1(okeys) \in FreeIn(okeys)
    BY <1>1 DEF AuthInv, RotateInv, Next1
  <2> QED
    BY <1>1, <2>1 DEF AuthInv, AuthType, RotateInv, FreeIn
<1>3. PICK t \in Nat : t = now + Grace
  BY AuthAssumption DEF AuthInv, AuthType
<1>4. /\ okeys' \in [Keys -> [st : {"none", "live", "off"}, exp : Nat, off : Nat,
                              succ : Keys \cup {0}]]
      /\ okeys'[c].st = okeys[c].st /\ okeys'[c].off = okeys[c].off /\ okeys'[c].exp = t
      /\ okeys'[c].succ = n
      /\ okeys'[n].st = "live" /\ okeys'[n].exp = okeys[n].exp /\ okeys'[n].succ = okeys[n].succ
      /\ \A j \in Keys \ {c, n} : okeys'[j] = okeys[j]
  <2> DEFINE T == [st : {"none", "live", "off"}, exp : Nat, off : Nat, succ : Keys \cup {0}]
             o == okeys[c]
             m == okeys[n]
             x == [o EXCEPT !.exp = t, !.succ = n]
             y == [m EXCEPT !.st = "live"]
  <2>1. o \in T /\ m \in T /\ okeys \in [Keys -> T]
    BY DEF AuthInv, AuthType
  <2>2. x \in T /\ x.st = o.st /\ x.off = o.off /\ x.exp = t /\ x.succ = n
    BY <2>1
  <2>3. y \in T /\ y.st = "live" /\ y.exp = m.exp /\ y.succ = m.succ
    BY <2>1
  <2>4. okeys' = [okeys EXCEPT ![n] = y, ![c] = x]
    BY <1>2, <1>3, <2>1 DEF RotateCommit
  <2> HIDE DEF x, y
  <2> QED
    BY <1>2, <2>1, <2>2, <2>3, <2>4
<1>5. StreamInv'
  <2>1. CASE stream.kind = "operator" /\ stream.k = c
    BY <1>1, <1>3, <1>4, <2>1, KeysFacts, AuthAssumption DEF StreamInv, AuthInv, KeyValid
  <2>2. CASE stream.kind = "operator" /\ stream.k = n
    BY <1>1, <1>2, <1>4, <2>2, KeysFacts DEF StreamInv, AuthInv, KeyValid
  <2>3. CASE stream.kind = "operator" /\ stream.k \notin {c, n}
    BY <1>1, <1>4, <2>3, KeysFacts DEF StreamInv, AuthInv, KeyValid
  <2>4. CASE stream.kind # "operator"
    BY <1>1, <2>4 DEF StreamInv, AuthInv
  <2> QED
    BY <2>1, <2>2, <2>3, <2>4
<1>6. RotateInv'
  BY <1>1 DEF RotateInv
<1>7. RotationOverlaps'
  <2>1. \A j \in Keys : okeys[j].st # "none" => okeys'[j].st # "none"
    BY <1>2, <1>4
  <2>2. \A j \in Keys \ {c} : okeys'[j].exp = okeys[j].exp /\ okeys'[j].succ = okeys[j].succ
    BY <1>2, <1>4
  <2>3. \A j \in Keys \ {c} : okeys'[j].exp # 0 =>
                              okeys'[j].succ # 0 /\ okeys'[okeys'[j].succ].st # "none"
    BY <2>1, <2>2, KeysFacts DEF RotationOverlaps, AuthInv
  <2>4. okeys'[c].succ # 0 /\ okeys'[okeys'[c].succ].st # "none"
    BY <1>4, KeysFacts
  <2> QED
    BY <2>3, <2>4 DEF RotationOverlaps
<1> QED
  BY <1>1, <1>4, <1>5, <1>6, <1>7, KeyStep

LEMMA AuthTickInv == ASSUME AuthInv, AuthTick PROVE AuthInv'
<1>1. /\ UNCHANGED <<users, sess, okeys, toks, cache, slots, rq, stream, cli>> /\ now' = now + 1
      /\ (stream.kind = "none" \/ now < stream.due) /\ now \in Nat
  BY DEF AuthTick, AuthInv, AuthType
<1>2. RqInv'
  <2>1. \A u \in User : SessionValid(u)' => SessionValid(u)
    BY <1>1 DEF SessionValid, AuthInv, AuthType
  <2> SUFFICES ASSUME NEW s \in Rq PROVE RqOK(rq[s])'
    BY DEF RqInv
  <2>2. RqOK(rq[s])
    BY DEF AuthInv, RqInv
  <2>3. rq'[s] = rq[s]
    BY <1>1
  <2>4. rq[s].kind = "session" => rq[s].u \in User /\ (SessionValid(rq[s].u)' => SessionValid(rq[s].u))
    <3>1. rq[s].kind = "session" => rq[s].u \in User
      BY <2>2 DEF RqOK
    <3>2. rq[s].kind = "session" => sess[rq[s].u].exp \in Nat
      BY <3>1 DEF AuthInv, AuthType
    <3> QED
      BY <1>1, <3>1, <3>2 DEF SessionValid
  <2> QED
    BY <1>1, <2>2, <2>3, <2>4 DEF RqOK
<1>3. CacheInv'
  <2> SUFFICES ASSUME NEW i \in DOMAIN cache' PROVE CacheOK(cache[i])'
    BY DEF CacheInv
  <2>1. i \in DOMAIN cache /\ CacheOK(cache[i]) /\ cache'[i] = cache[i]
    BY <1>1 DEF AuthInv, CacheInv
  <2>2. cache[i].exp \in Nat
    BY <2>1, CacheFacts DEF CacheEntry
  <2> QED
    BY <1>1, <2>1, <2>2, AuthAssumption DEF CacheOK
<1>4. StreamInv'
  <2>1. CASE stream.kind = "operator"
    <3>1. stream.k \in Keys
      BY <2>1 DEF AuthInv, StreamInv
    <3> QED
      BY <1>1, <2>1, <3>1, KeysFacts, AuthAssumption DEF StreamInv, AuthInv, KeyValid
  <2>2. CASE stream.kind # "operator"
    BY <1>1, <2>2, KeysFacts, AuthAssumption DEF StreamInv, AuthInv
  <2> QED
    BY <2>1, <2>2
<1>5. AuthType' /\ RotateInv' /\ ShownIsLogged' /\ RotationOverlaps' /\ SlotsExact'
  BY <1>1 DEF AuthInv, AuthType, RotateInv, FreeIn, ShownIsLogged, RotationOverlaps, SlotsExact
<1> QED
  BY <1>2, <1>3, <1>4, <1>5 DEF AuthInv

LEMMA AuthInvNext == AuthInv /\ [AuthNext]_authVars => AuthInv'
<1> SUFFICES ASSUME AuthInv, [AuthNext]_authVars PROVE AuthInv'
  OBVIOUS
<1>1. CASE UNCHANGED authVars
  <2>1. UNCHANGED <<now, users, sess, okeys, toks, cache, slots, rq, stream, cli>>
    BY <1>1 DEF authVars
  <2> QED
    BY <2>1, RqKept, KeyStep DEF AuthInv, AuthType, StreamInv, KeyValid, RotateInv, FreeIn,
                                 RotationOverlaps
<1>2. ASSUME NEW r \in Rq, NEW u \in User, Login(r, u) \/ Arrive(r, "session", u, 0) \/ Arrive(r, "basic", u, 0)
      PROVE  AuthInv'
  BY <1>2, LoginInv, ArriveInv DEF Carrier
<1>3. ASSUME NEW r \in Rq, NEW k \in Keys,
             Arrive(r, "operator", NoUser, k) \/ Arrive(r, "bearer", NoUser, k)
      PROVE  AuthInv'
  BY <1>3, ArriveInv DEF Carrier
<1>4. ASSUME NEW r \in Rq, Authenticate(r) PROVE AuthInv'
  <2>1. CASE Refuse(r)
    BY <2>1, DoneInv DEF Refuse
  <2> QED
    BY <1>4, <2>1, ResolveBearerInv, ResolveSessionInv, SessionUserInv, BasicGetInv, TryAcquireInv,
       VerifyBasicInv, VerifyLoginInv, CreateSessionInv DEF Authenticate
<1>5. ASSUME NEW r \in Rq, Serve(r) \/ Logout(r) \/ CreateToken(r) \/ OpenStream(r) PROVE AuthInv'
  <2>1. CASE Serve(r)
    BY <2>1, DoneInv DEF Serve
  <2> QED
    BY <1>5, <2>1, LogoutInv, CreateTokenInv, OpenStreamInv
<1>6. ASSUME NEW u \in User, NEW off \in BOOLEAN, SetDisabled(u, off) PROVE AuthInv'
  BY <1>6, SetDisabledInv
<1>7. CASE CloseStream
  BY <1>7, CloseStreamInv DEF CloseStream
<1>8. ASSUME NEW r \in Rq, (\E w \in BOOLEAN : Mint(r, w)) \/ (\E k \in Keys : Revoke(r, k)) PROVE AuthInv'
  BY <1>8, MintInv, RevokeInv
<1>9. ASSUME NEW k \in Keys, DisableOperator(k) \/ RotateCheck(k) PROVE AuthInv'
  BY <1>9, DisableOperatorInv, RotateCheckInv
<1> QED
  BY <1>1, <1>2, <1>3, <1>4, <1>5, <1>6, <1>7, <1>8, <1>9, ReauthStreamInv, RotateCommitInv, CleanupInv,
     AuthTickInv DEF AuthNext

\* Who is let in had the right to, a revocation binds within its bound, the
\* argon2 slots are exact and no credential is handed out unlogged or taken
\* away without a successor, for every number of users, requests, keys, cache
\* entries and slots and every length of the intervals (internal/adminhttp,
\* adminsession, apitoken, operator, events.go).
THEOREM AccessIsSound == AuthSpec => []AccessSound
<1>1. AuthInv => AccessSound
  <2> SUFFICES ASSUME AuthInv PROVE AccessSound
    OBVIOUS
  <2>1. AdmittedWasValid
    BY DEF AuthInv, RqInv, RqOK, AdmittedWasValid
  <2>2. BasicWithinTTL
    <3> SUFFICES ASSUME NEW i \in DOMAIN cache, ~users[cache[i].u].on, now <= cache[i].exp
                 PROVE  now <= users[cache[i].u].off + TTL \/ cache[i].over
      BY DEF BasicWithinTTL
    <3>1. cache[i].u \in User /\ cache[i].exp \in Nat /\ CacheOK(cache[i])
      BY CacheFacts DEF CacheEntry, AuthInv, CacheInv
    <3>2. users[cache[i].u].off \in Nat /\ now \in Nat
      BY <3>1 DEF AuthInv, AuthType
    <3> QED
      BY <3>1, <3>2, AuthAssumption DEF CacheOK
  <2>3. StreamRevoked
    <3> SUFFICES ASSUME stream.kind = "operator", ~KeyValid(stream.k)
                 PROVE  \/ now <= stream.from + Reauth
                        \/ now <= (IF okeys[stream.k].st = "off" THEN okeys[stream.k].off
                                   ELSE okeys[stream.k].exp) + Reauth
      BY DEF StreamRevoked
    <3>1. stream.k \in Keys
      BY DEF AuthInv, StreamInv
    <3> QED
      BY <3>1, KeysFacts, AuthAssumption DEF AuthInv, StreamInv
  <2> QED
    BY <2>1, <2>2, <2>3 DEF AuthInv, AccessSound
<1> QED
  BY <1>1, AuthInvInit, AuthInvNext, PTL DEF AuthSpec

-----------------------------------------------------------------------------
\* m is l with the bucket of k, refilled or new, in front, and less than l at
\* most by the buckets of the keys in S.
InHand(l, m, k, S) ==
  /\ Len(m) >= 1 /\ OneBucket(m) /\ m[1].key = k /\ m[1].last = ticks
  /\ \A j \in 2..Len(m) : \E i \in DOMAIN l : m[j] = l[i] /\ l[i].key # k
  /\ \A i \in DOMAIN l : l[i].key # k => l[i].key \in S \/ \E j \in 2..Len(m) : m[j] = l[i]
  /\ IF Held(l, k) = {} THEN m[1].tokens = Burst
     ELSE \E i \in DOMAIN l : l[i].key = k /\ m[1].tokens = Fill(l[i])

LEMMA TouchFacts ==
  ASSUME ticks \in Nat, NEW l \in Seq(Bucket), OneBucket(l), NEW k \in Addr,
         \A i \in DOMAIN l : l[i].last <= ticks
  PROVE  \E m \in Seq(Bucket) :
           /\ m = Touch(l, k) /\ Len(m) >= 1 /\ OneBucket(m)
           /\ m[1].key = k /\ m[1].last = ticks
           /\ \A j \in 2..Len(m) : \E i \in DOMAIN l : m[j] = l[i] /\ l[i].key # k
           /\ \A i \in DOMAIN l : l[i].key # k => \E j \in 2..Len(m) : m[j] = l[i]
           /\ IF Held(l, k) = {} THEN m[1].tokens = Burst
              ELSE \E i \in DOMAIN l : l[i].key = k /\ m[1].tokens = Fill(l[i])
<1>1. DOMAIN l = 1..Len(l) /\ Len(l) \in Nat
  OBVIOUS
<1>2. CASE Held(l, k) = {}
  <2> DEFINE x == [key |-> k, tokens |-> Burst, last |-> ticks]
  <2>1. x \in Bucket /\ x.key = k /\ x.tokens = Burst /\ x.last = ticks
    BY RlAssumption DEF Bucket
  <2>2. Touch(l, k) = PushFront(l, x)
    BY <1>2 DEF Touch
  <2> HIDE DEF x
  <2>3. PICK m \in Seq(Bucket) : m = PushFront(l, x)
    BY <2>1, PushFrontFacts
  <2>4. Len(m) = Len(l) + 1
    <3>1. Len(PushFront(l, x)) = Len(l) + 1
      BY <2>1, PushFrontFacts
    <3> QED
      BY <2>3, <3>1
  <2>5. \A j \in 1..(Len(l) + 1) : m[j] = IF j = 1 THEN x ELSE l[j - 1]
    <3>1. \A j \in 1..(Len(l) + 1) : PushFront(l, x)[j] = IF j = 1 THEN x ELSE l[j - 1]
      BY <2>1, PushFrontFacts
    <3> QED
      BY <2>3, <3>1
  <2>6. \A i \in DOMAIN l : l[i].key # k
    BY <1>2 DEF Held
  <2>7. \A j \in 2..Len(m) : j - 1 \in DOMAIN l /\ m[j] = l[j - 1]
    BY <1>1, <2>4, <2>5
  <2>8. m[1] = x
    BY <1>1, <2>5
  <2>9. \A i \in DOMAIN l : i + 1 \in 2..Len(m) /\ m[i + 1] = l[i]
    BY <1>1, <2>4, <2>5
  <2>10. OneBucket(m)
    <3> SUFFICES ASSUME NEW i \in DOMAIN m, NEW j \in DOMAIN m, m[i].key = m[j].key PROVE i = j
      BY DEF OneBucket
    <3>1. i \in 1..Len(m) /\ j \in 1..Len(m)
      OBVIOUS
    <3> QED
      BY <2>1, <2>6, <2>7, <2>8, <3>1 DEF OneBucket
  <2> QED
    <3>1. Len(m) >= 1 /\ m[1].key = k /\ m[1].last = ticks /\ m[1].tokens = Burst
      BY <1>1, <2>1, <2>4, <2>8
    <3>2. ASSUME NEW j \in 2..Len(m)
          PROVE  \E i \in DOMAIN l : m[j] = l[i] /\ l[i].key # k
      <4>1. j - 1 \in DOMAIN l /\ m[j] = l[j - 1]
        BY <2>7
      <4> QED
        BY <2>6, <4>1
    <3>3. ASSUME NEW i \in DOMAIN l
          PROVE  \E j \in 2..Len(m) : m[j] = l[i]
      <4>1. i + 1 \in 2..Len(m) /\ m[i + 1] = l[i]
        BY <2>9
      <4> QED
        BY <4>1
    <3>4. m = Touch(l, k)
      BY <2>2, <2>3
    <3> QED
      BY <1>2, <2>10, <3>1, <3>2, <3>3, <3>4
<1>3. CASE Held(l, k) # {}
  <2>1. PICK i \in 1..Len(l) : l[i].key = k /\ i = CHOOSE n \in Held(l, k) : TRUE
    BY <1>1, <1>3 DEF Held
  <2>2. l[i] \in Bucket /\ i \in DOMAIN l
    BY <1>1
  <2>3. Fill(l[i]) \in 0..Burst
    BY <2>2, RlAssumption DEF Fill, Least, Bucket
  <2> DEFINE x == [key |-> k, tokens |-> Fill(l[i]), last |-> ticks]
  <2>4. x \in Bucket /\ x.key = k /\ x.tokens = Fill(l[i]) /\ x.last = ticks
    BY <2>3 DEF Bucket
  <2>5. Touch(l, k) = MoveToFront(l, i, x)
    BY <1>3, <2>1 DEF Touch
  <2> HIDE DEF x
  <2>6. PICK m \in Seq(Bucket) : m = MoveToFront(l, i, x)
    BY <2>2, <2>4, MoveToFrontFacts
  <2>7. Len(m) = Len(l)
    <3>1. Len(MoveToFront(l, i, x)) = Len(l)
      BY <2>2, <2>4, MoveToFrontFacts
    <3> QED
      BY <2>6, <3>1
  <2>8. \A j \in 1..Len(l) : m[j] = IF j = 1 THEN x ELSE IF j <= i THEN l[j - 1] ELSE l[j]
    <3>1. \A j \in 1..Len(l) : MoveToFront(l, i, x)[j] =
                                IF j = 1 THEN x ELSE IF j <= i THEN l[j - 1] ELSE l[j]
      <4>1. x \in Bucket
        BY <2>4
      <4> QED
        BY <4>1, MoveToFrontFacts
    <3> QED
      BY <2>6, <3>1
  <2>9. \A j \in DOMAIN l : l[j].key = k => j = i
    BY <2>1, <2>2 DEF OneBucket
  <2> DEFINE from(n) == IF n <= i THEN n - 1 ELSE n
             to(n) == IF n < i THEN n + 1 ELSE n
  <2>10. \A n \in 2..Len(m) : from(n) \in DOMAIN l /\ m[n] = l[from(n)] /\ from(n) # i
    BY <1>1, <2>7, <2>8
  <2>11. \A n \in DOMAIN l : n # i => to(n) \in 2..Len(m) /\ m[to(n)] = l[n]
    BY <1>1, <2>7, <2>8
  <2>12. m[1] = x
    BY <1>1, <2>8
  <2>13. \A a, b \in 2..Len(m) : from(a) = from(b) => a = b
    BY <2>10
  <2> HIDE DEF from, to
  <2>14. \A n \in 2..Len(m) : m[n].key # k
    BY <2>9, <2>10
  <2>15. OneBucket(m)
    <3> SUFFICES ASSUME NEW a \in DOMAIN m, NEW b \in DOMAIN m, m[a].key = m[b].key PROVE a = b
      BY DEF OneBucket
    <3>1. a \in 1..Len(m) /\ b \in 1..Len(m)
      OBVIOUS
    <3>2. CASE a = 1 \/ b = 1
      BY <2>4, <2>12, <2>14, <3>1, <3>2
    <3>3. CASE a # 1 /\ b # 1
      <4>1. a \in 2..Len(m) /\ b \in 2..Len(m)
        BY <3>1, <3>3
      <4>2. from(a) = from(b)
        BY <2>10, <4>1 DEF OneBucket
      <4> QED
        BY <2>13, <4>1, <4>2
    <3> QED
      BY <3>2, <3>3
  <2>16. \A j \in 2..Len(m) : \E n \in DOMAIN l : m[j] = l[n] /\ l[n].key # k
    BY <2>10, <2>14
  <2>17. \A n \in DOMAIN l : l[n].key # k => \E j \in 2..Len(m) : m[j] = l[n]
    BY <2>1, <2>11
  <2>18. Len(m) >= 1 /\ m[1].key = k /\ m[1].last = ticks /\ m[1].tokens = Fill(l[i])
    BY <1>1, <2>1, <2>4, <2>7, <2>12
  <2>19. \E n \in DOMAIN l : l[n].key = k /\ m[1].tokens = Fill(l[n])
    BY <2>1, <2>2, <2>18
  <2> QED
    BY <1>3, <2>5, <2>6, <2>15, <2>16, <2>17, <2>18, <2>19
<1> QED
  BY <1>2, <1>3

\* ... and what the bound on the buckets takes away is counted.
LEMMA LockedFacts ==
  ASSUME ticks \in Nat, NEW l \in Seq(Bucket), OneBucket(l), NEW k \in Addr,
         \A i \in DOMAIN l : l[i].last <= ticks
  PROVE  \E m \in Seq(Bucket) : m = BucketLocked(l, k) /\ InHand(l, m, k, Evicted(l, k))
<1>1. PICK p \in Seq(Bucket) :
           /\ p = Touch(l, k) /\ Len(p) >= 1 /\ OneBucket(p)
           /\ p[1].key = k /\ p[1].last = ticks
           /\ \A j \in 2..Len(p) : \E i \in DOMAIN l : p[j] = l[i] /\ l[i].key # k
           /\ \A i \in DOMAIN l : l[i].key # k => \E j \in 2..Len(p) : p[j] = l[i]
           /\ IF Held(l, k) = {} THEN p[1].tokens = Burst
              ELSE \E i \in DOMAIN l : l[i].key = k /\ p[1].tokens = Fill(l[i])
  BY TouchFacts
<1>2. PICK m : m = Capped(p, MaxBuckets)
  OBVIOUS
<1>3. /\ m \in Seq(Bucket) /\ Len(m) = (IF Len(p) < MaxBuckets THEN Len(p) ELSE MaxBuckets)
      /\ \A j \in 1..Len(m) : j \in 1..Len(p) /\ m[j] = p[j]
  BY <1>2, CappedFacts, RlAssumption
<1>4. Len(m) >= 1 /\ m[1] = p[1]
  BY <1>1, <1>3, RlAssumption
<1>5. OneBucket(m)
  <2>1. DOMAIN m = 1..Len(m) /\ DOMAIN p = 1..Len(p)
    BY <1>3
  <2> QED
    BY <1>1, <1>3, <2>1 DEF OneBucket
<1>6. \A j \in 2..Len(m) : j \in 2..Len(p) /\ m[j] = p[j]
  BY <1>3
<1>7. ASSUME NEW i \in DOMAIN l, l[i].key # k
      PROVE  l[i].key \in Evicted(l, k) \/ \E j \in 2..Len(m) : m[j] = l[i]
  <2>1. PICK j \in 2..Len(p) : p[j] = l[i]
    BY <1>1, <1>7
  <2>2. CASE j <= Len(m)
    BY <1>3, <1>6, <2>1, <2>2
  <2>3. CASE ~(j <= Len(m))
    <3>1. j \in (MaxBuckets + 1)..Len(p)
      BY <1>3, <2>3, RlAssumption
    <3> QED
      BY <1>1, <2>1, <3>1 DEF Evicted
  <2> QED
    BY <2>2, <2>3
<1>8. m = BucketLocked(l, k)
  BY <1>1, <1>2 DEF BucketLocked
<1>9. \A j \in 2..Len(m) : \E i \in DOMAIN l : m[j] = l[i] /\ l[i].key # k
  <2> SUFFICES ASSUME NEW j \in 2..Len(m) PROVE \E i \in DOMAIN l : m[j] = l[i] /\ l[i].key # k
    OBVIOUS
  <2>1. j \in 2..Len(p) /\ m[j] = p[j]
    BY <1>6
  <2>2. PICK i \in DOMAIN l : p[j] = l[i] /\ l[i].key # k
    BY <1>1, <2>1
  <2> QED
    BY <2>1, <2>2
<1>10. InHand(l, m, k, Evicted(l, k))
  BY <1>1, <1>4, <1>5, <1>7, <1>9 DEF InHand
<1> QED
  BY <1>3, <1>8, <1>10

LEMMA AllowanceFacts ==
  \A n \in Nat : Allowance(n) \in Nat /\ Allowance(1 + n) = Burst + Allowance(n)
                 /\ Allowance(n + 1) = Burst + Allowance(n)
BY RlAssumption DEF Allowance

LEMMA LostFacts ==
  ASSUME NEW h \in [Addr -> Nat], NEW S
  PROVE  /\ Lost(h, S) \in [Addr -> Nat]
         /\ \A a \in Addr : Lost(h, S)[a] = IF a \in S THEN h[a] + 1 ELSE h[a]
BY DEF Lost

\* Taking a bucket in hand keeps the account: a refill is covered by the time
\* that passed, a new bucket by the one that was lost.
LEMMA LockedOwed ==
  ASSUME ticks \in Nat, NEW l \in Seq(Bucket), OneBucket(l), NEW k \in Addr,
         NEW g \in [Addr -> Int], NEW h \in [Addr -> Nat], Owed(l, g, h, ticks),
         NEW m \in Seq(Bucket), NEW S, InHand(l, m, k, S)
  PROVE  Owed(m, g, Lost(h, S), ticks)
<1>1. PICK n \in [Addr -> Nat] : n = Lost(h, S)
                                 /\ \A a \in Addr : n[a] = IF a \in S THEN h[a] + 1 ELSE h[a]
  <2>1. /\ Lost(h, S) \in [Addr -> Nat]
        /\ \A a \in Addr : Lost(h, S)[a] = IF a \in S THEN h[a] + 1 ELSE h[a]
    BY LostFacts
  <2> QED
    BY <2>1
<1>2. ASSUME NEW a \in Addr
      PROVE  \E G \in Int, A \in Nat, B \in Nat :
               /\ G = g[a] /\ A = Allowance(h[a]) /\ B = Allowance(n[a])
               /\ Allowance(1 + h[a]) = Burst + A /\ Allowance(1 + n[a]) = Burst + B
               /\ A <= B /\ (a \in S => B = Burst + A)
  <2>1. PICK x \in Nat, y \in Nat : x = h[a] /\ y = n[a] /\ y = IF a \in S THEN x + 1 ELSE x
    BY <1>1
  <2>2. /\ Allowance(x) \in Nat /\ Allowance(1 + x) = Burst + Allowance(x)
        /\ Allowance(x + 1) = Burst + Allowance(x)
        /\ Allowance(y) \in Nat /\ Allowance(1 + y) = Burst + Allowance(y)
    BY AllowanceFacts
  <2>3. Allowance(x) <= Allowance(y) /\ (a \in S => Allowance(y) = Burst + Allowance(x))
    BY <2>1, <2>2, RlAssumption
  <2> QED
    BY <2>1, <2>2, <2>3
<1>3. ASSUME NEW i \in DOMAIN l, NEW a, a = l[i].key
      PROVE  /\ a \in Addr
             /\ \E y \in Nat, z \in Nat : /\ y = l[i].tokens /\ z = l[i].last /\ z <= ticks
                                          /\ g[a] + y <= Allowance(1 + h[a]) + z
  <2>1. l[i] \in Bucket
    OBVIOUS
  <2>2. l[i].key \in Addr /\ l[i].tokens \in Nat /\ l[i].last \in Nat
    BY <2>1, RlAssumption DEF Bucket
  <2>3. l[i].last <= ticks /\ g[l[i].key] + l[i].tokens <= Allowance(1 + h[l[i].key]) + l[i].last
    BY DEF Owed
  <2> QED
    BY <1>3, <2>2, <2>3
<1>4. \A a \in Addr : Held(l, a) = {} => g[a] <= Allowance(h[a]) + ticks
  BY DEF Owed
<1>5. DOMAIN m = 1..Len(m)
  OBVIOUS
<1>6. g[k] + m[1].tokens <= Allowance(1 + n[k]) + ticks
  <2>0. PICK G \in Int, A \in Nat, B \in Nat :
          /\ G = g[k] /\ A = Allowance(h[k]) /\ B = Allowance(n[k])
          /\ Allowance(1 + h[k]) = Burst + A /\ Allowance(1 + n[k]) = Burst + B /\ A <= B
    BY <1>2
  <2>1. CASE Held(l, k) = {}
    <3>1. m[1].tokens = Burst /\ G <= A + ticks
      BY <1>4, <2>0, <2>1 DEF InHand
    <3> QED
      <4>1. G <= A + ticks /\ A <= B /\ Burst \in Nat /\ ticks \in Nat
        BY <2>0, <3>1, RlAssumption
      <4>2. G + Burst <= (Burst + B) + ticks
        BY <4>1
      <4> QED
        BY <2>0, <3>1, <4>2
  <2>2. CASE Held(l, k) # {}
    <3>1. PICK i \in DOMAIN l : l[i].key = k /\ m[1].tokens = Fill(l[i])
      BY <2>2 DEF InHand
    <3>2. PICK y \in Nat, z \in Nat : /\ y = l[i].tokens /\ z = l[i].last /\ z <= ticks
                                     /\ g[k] + y <= Allowance(1 + h[k]) + z
      BY <1>3, <3>1
    <3>3. G + y <= (Burst + A) + z /\ z <= ticks /\ A <= B /\ Burst \in Nat
      BY <2>0, <3>2, RlAssumption
    <3>4. PICK x \in Int : x = m[1].tokens /\ x <= y + (ticks - z)
      <4>1. m[1].tokens = Least(Burst, y + (ticks - z))
        BY <3>1, <3>2 DEF Fill
      <4>2. Least(Burst, y + (ticks - z)) \in Int
            /\ Least(Burst, y + (ticks - z)) <= y + (ticks - z)
        BY <3>3 DEF Least
      <4> QED
        BY <4>1, <4>2
    <3>5. x <= y + (ticks - z)
      BY <3>4
    <3>6. G + x <= (Burst + B) + ticks
      BY <3>3, <3>5
    <3> QED
      BY <2>0, <3>4, <3>6
  <2> QED
    BY <2>1, <2>2
<1>7. ASSUME NEW j \in DOMAIN m
      PROVE  m[j].last <= ticks /\ g[m[j].key] + m[j].tokens <= Allowance(1 + n[m[j].key]) + m[j].last
  <2>1. CASE j = 1
    BY <1>6, <2>1 DEF InHand
  <2>2. CASE j # 1
    <3>1. j \in 2..Len(m)
      BY <1>5, <2>2
    <3>2. PICK i \in DOMAIN l : m[j] = l[i]
      BY <3>1 DEF InHand
    <3>3. PICK a \in Addr : a = l[i].key
      BY <1>3
    <3>4. PICK G \in Int, A \in Nat, B \in Nat :
            /\ G = g[a] /\ A = Allowance(h[a]) /\ B = Allowance(n[a])
            /\ Allowance(1 + h[a]) = Burst + A /\ Allowance(1 + n[a]) = Burst + B /\ A <= B
      BY <1>2
    <3>5. PICK y \in Nat, z \in Nat : /\ y = l[i].tokens /\ z = l[i].last /\ z <= ticks
                                     /\ g[a] + y <= Allowance(1 + h[a]) + z
      BY <1>3, <3>3
    <3>7. G + y <= (Burst + A) + z /\ A <= B /\ Burst \in Nat
      BY <3>4, <3>5, RlAssumption
    <3>6. G + y <= (Burst + B) + z
      BY <3>7
    <3> QED
      BY <3>2, <3>3, <3>4, <3>5, <3>6
  <2> QED
    BY <2>1, <2>2
<1>8. ASSUME NEW a \in Addr, Held(m, a) = {}
      PROVE  g[a] <= Allowance(n[a]) + ticks
  <2>1. a # k
    BY <1>5, <1>8 DEF Held, InHand
  <2>2. PICK G \in Int, A \in Nat, B \in Nat :
          /\ G = g[a] /\ A = Allowance(h[a]) /\ B = Allowance(n[a])
          /\ Allowance(1 + h[a]) = Burst + A /\ A <= B /\ (a \in S => B = Burst + A)
    BY <1>2
  <2>3. CASE Held(l, a) = {}
    <3>1. G <= A + ticks
      BY <1>4, <2>2, <2>3
    <3>2. G <= B + ticks
      BY <2>2, <3>1
    <3> QED
      BY <2>2, <3>2
  <2>4. CASE Held(l, a) # {}
    <3>1. PICK i \in DOMAIN l : l[i].key = a
      BY <2>4 DEF Held
    <3>2. a \in S
      <4>1. ASSUME NEW j \in 2..Len(m), m[j] = l[i] PROVE FALSE
        BY <1>5, <1>8, <3>1, <4>1 DEF Held
      <4> QED
        BY <2>1, <3>1, <4>1 DEF InHand
    <3>3. PICK y \in Nat, z \in Nat : /\ y = l[i].tokens /\ z = l[i].last /\ z <= ticks
                                     /\ g[a] + y <= Allowance(1 + h[a]) + z
      BY <1>3, <3>1
    <3>4. G + y <= (Burst + A) + z /\ z <= ticks /\ B = Burst + A /\ Burst \in Nat
      BY <2>2, <3>2, <3>3, RlAssumption
    <3>5. G <= B + ticks
      BY <3>4
    <3> QED
      BY <2>2, <3>5
  <2> QED
    BY <2>3, <2>4
<1>9. Owed(m, g, n, ticks)
  BY <1>7, <1>8 DEF Owed
<1> QED
  BY <1>1, <1>9

\* p is m with at most one token taken from the bucket in hand.
Paid(m, p) ==
  /\ DOMAIN p = DOMAIN m /\ OneBucket(p)
  /\ p[1].tokens = (IF m[1].tokens < 1 THEN 0 ELSE m[1].tokens - 1)
  /\ \A j \in DOMAIN m : p[j].key = m[j].key /\ p[j].last = m[j].last
  /\ \A j \in DOMAIN m \ {1} : p[j] = m[j]

LEMMA PayFacts ==
  ASSUME NEW m \in Seq(Bucket), Len(m) >= 1, OneBucket(m)
  PROVE  \E p \in Seq(Bucket) : p = Pay(m) /\ Paid(m, p)
<1>1. m[1] \in Bucket /\ 1 \in DOMAIN m
  OBVIOUS
<1>2. m[1].tokens \in 0..Burst
  BY <1>1 DEF Bucket
<1>3. PICK t \in 0..Burst : t = IF m[1].tokens < 1 THEN 0 ELSE m[1].tokens - 1
  BY <1>2, RlAssumption
<1> DEFINE b == m[1]
           x == [b EXCEPT !.tokens = t]
<1>4. x \in Bucket /\ x.key = b.key /\ x.last = b.last /\ x.tokens = t
  BY <1>1 DEF Bucket
<1>5. PICK p : p = [m EXCEPT ![1] = x]
  OBVIOUS
<1>6. p = Pay(m)
  BY <1>1, <1>3, <1>5 DEF Pay
<1> HIDE DEF x
<1>7. p \in Seq(Bucket) /\ DOMAIN p = DOMAIN m
  BY <1>1, <1>4, <1>5
<1>8. p[1] = x /\ \A j \in DOMAIN m \ {1} : p[j] = m[j]
  BY <1>1, <1>5
<1>9. \A j \in DOMAIN m : p[j].key = m[j].key /\ p[j].last = m[j].last
  BY <1>4, <1>8
<1>10. OneBucket(p)
  BY <1>7, <1>9 DEF OneBucket
<1>11. Paid(m, p)
  BY <1>3, <1>4, <1>7, <1>8, <1>9, <1>10 DEF Paid
<1> QED
  BY <1>6, <1>7, <1>11

\* A payment is in the account of the key it is made for.
LEMMA PayOwed ==
  ASSUME NEW m \in Seq(Bucket), Len(m) >= 1, OneBucket(m), NEW k \in Addr, m[1].key = k,
         NEW p \in Seq(Bucket), Paid(m, p), NEW t \in Nat,
         NEW g \in [Addr -> Int], NEW f \in [Addr -> Int], NEW h \in [Addr -> Nat],
         Owed(m, g, h, t), \A a \in Addr \ {k} : f[a] = g[a],
         f[k] = g[k] \/ (f[k] = g[k] + 1 /\ m[1].tokens >= 1)
  PROVE  Owed(p, f, h, t)
<1>1. 1 \in DOMAIN m /\ DOMAIN p = DOMAIN m /\ m[1] \in Bucket
  BY DEF Paid
<1>2. ASSUME NEW j \in DOMAIN p
      PROVE  p[j].last <= t /\ f[p[j].key] + p[j].tokens <= Allowance(1 + h[p[j].key]) + p[j].last
  <2>1. m[j].last <= t /\ g[m[j].key] + m[j].tokens <= Allowance(1 + h[m[j].key]) + m[j].last
    BY <1>1 DEF Owed
  <2>2. CASE j = 1
    <3>1. PICK x \in Int, y \in Nat, z \in Nat, q \in Int : x = g[k] /\ y = m[1].tokens /\ z = m[1].last
                                                            /\ q = Allowance(1 + h[k])
      <4>1. g[k] \in Int
        OBVIOUS
      <4>2. Allowance(1 + h[k]) \in Int
        <5>1. 1 + h[k] \in Nat
          OBVIOUS
        <5> QED
          BY <5>1, AllowanceFacts
      <4>3. m[1].tokens \in 0..Burst /\ m[1].last \in Nat
        BY <1>1 DEF Bucket
      <4> QED
        BY <4>1, <4>2, <4>3
    <3>2. x + y <= q + z
      BY <2>1, <2>2, <3>1
    <3>3. PICK w \in Int, v \in Int : w = p[1].tokens /\ v = f[k]
      BY <3>1 DEF Paid
    <3>4. w = (IF y < 1 THEN 0 ELSE y - 1) /\ (v = x \/ (v = x + 1 /\ y >= 1))
      BY <3>1, <3>3 DEF Paid
    <3>5. v + w <= q + z
      BY <3>2, <3>4
    <3>6. p[1].last = z /\ p[1].key = k
      BY <1>1, <3>1 DEF Paid
    <3> QED
      BY <2>1, <2>2, <3>1, <3>3, <3>5, <3>6
  <2>3. CASE j # 1
    <3>1. p[j] = m[j] /\ m[j] \in Bucket
      BY <1>1, <2>3 DEF Paid
    <3>2. m[j].key \in Addr \ {k}
      BY <1>1, <2>3, <3>1 DEF Bucket, OneBucket
    <3> QED
      BY <2>1, <3>1, <3>2
  <2> QED
    BY <2>2, <2>3
<1>3. ASSUME NEW a \in Addr, Held(p, a) = {}
      PROVE  f[a] <= Allowance(h[a]) + t
  <2>1. Held(m, a) = {} /\ a # k
    BY <1>1, <1>3 DEF Held, Paid
  <2> QED
    BY <2>1 DEF Owed
<1> QED
  BY <1>2, <1>3 DEF Owed

OwnOK(l, f) == \A i \in DOMAIN l : l[i].tokens + f[l[i].key] >= Burst

\* A bucket in hand has lost no token.
LEMMA LockedTokens ==
  ASSUME ticks \in Nat, NEW l \in Seq(Bucket), NEW k \in Addr, \A i \in DOMAIN l : l[i].last <= ticks,
         NEW m \in Seq(Bucket), NEW S, InHand(l, m, k, S)
  PROVE  \A j \in DOMAIN m :
           \/ j = 1 /\ m[1].tokens = Burst
           \/ \E i \in DOMAIN l : l[i].key = m[j].key /\ l[i].tokens <= m[j].tokens
<1>1. DOMAIN m = 1..Len(m)
  OBVIOUS
<1>2. ASSUME NEW j \in 2..Len(m)
      PROVE  \E i \in DOMAIN l : l[i].key = m[j].key /\ l[i].tokens <= m[j].tokens
  <2>1. PICK i \in DOMAIN l : m[j] = l[i]
    BY DEF InHand
  <2>2. l[i].tokens \in Int
    <3>1. l[i] \in Bucket
      OBVIOUS
    <3> QED
      BY <3>1 DEF Bucket
  <2> QED
    BY <2>1, <2>2
<1>3. ASSUME m[1].tokens # Burst
      PROVE  \E i \in DOMAIN l : l[i].key = m[1].key /\ l[i].tokens <= m[1].tokens
  <2>1. PICK i \in DOMAIN l : l[i].key = k /\ m[1].tokens = Fill(l[i])
    BY <1>3 DEF InHand
  <2>2. l[i] \in Bucket
    OBVIOUS
  <2>3. PICK y \in 0..Burst, z \in Nat : y = l[i].tokens /\ z = l[i].last /\ z <= ticks
    BY <2>2 DEF Bucket
  <2>4. m[1].tokens = Least(Burst, y + (ticks - z))
    BY <2>1, <2>3 DEF Fill
  <2>5. z <= ticks
    BY <2>3
  <2>6. y <= Least(Burst, y + (ticks - z))
    BY <2>5, RlAssumption DEF Least
  <2>7. m[1].key = k
    BY DEF InHand
  <2> QED
    BY <2>1, <2>3, <2>4, <2>6, <2>7
<1> QED
  BY <1>1, <1>2, <1>3

LEMMA LockedOwn ==
  ASSUME ticks \in Nat, NEW l \in Seq(Bucket), NEW k \in Addr, \A i \in DOMAIN l : l[i].last <= ticks,
         NEW m \in Seq(Bucket), NEW S, InHand(l, m, k, S), NEW f \in [Addr -> Nat], OwnOK(l, f)
  PROVE  OwnOK(m, f)
<1> SUFFICES ASSUME NEW j \in DOMAIN m PROVE m[j].tokens + f[m[j].key] >= Burst
  BY DEF OwnOK
<1>1. m[j] \in Bucket
  OBVIOUS
<1>2. PICK x \in Int, a \in Addr, y \in Nat : x = m[j].tokens /\ a = m[j].key /\ y = f[a]
  BY <1>1 DEF Bucket
<1>3. CASE j = 1 /\ m[1].tokens = Burst
  BY <1>2, <1>3, RlAssumption
<1>4. CASE ~(j = 1 /\ m[1].tokens = Burst)
  <2>1. PICK i \in DOMAIN l : l[i].key = m[j].key /\ l[i].tokens <= m[j].tokens
    BY <1>4, LockedTokens
  <2>2. PICK z \in Int : z = l[i].tokens
    <3>1. l[i] \in Bucket
      OBVIOUS
    <3> QED
      BY <3>1 DEF Bucket
  <2>3. z <= x /\ z + y >= Burst
    BY <1>2, <2>1, <2>2 DEF OwnOK
  <2>4. x + y >= Burst
    BY <2>3, RlAssumption
  <2> QED
    BY <1>2, <2>4
<1> QED
  BY <1>3, <1>4

LEMMA LockedSeen ==
  ASSUME ticks \in Nat, NEW l \in Seq(Bucket), NEW k \in Addr, \A i \in DOMAIN l : l[i].last <= ticks,
         NEW m \in Seq(Bucket), NEW S, InHand(l, m, k, S), NEW a, \A i \in Held(l, a) : l[i].tokens >= 1
  PROVE  \A j \in Held(m, a) : m[j].tokens >= 1
<1> TAKE j \in Held(m, a)
<1>1. j \in DOMAIN m /\ m[j].key = a /\ m[j] \in Bucket
  BY DEF Held
<1>2. CASE j = 1 /\ m[1].tokens = Burst
  BY <1>2, RlAssumption
<1>3. CASE ~(j = 1 /\ m[1].tokens = Burst)
  <2>1. PICK i \in DOMAIN l : l[i].key = a /\ l[i].tokens <= m[j].tokens
    BY <1>1, <1>3, LockedTokens
  <2>2. l[i].tokens >= 1 /\ l[i] \in Bucket
    BY <2>1 DEF Held
  <2> QED
    BY <1>1, <2>1, <2>2 DEF Bucket
<1> QED
  BY <1>2, <1>3

LEMMA UnmetFacts ==
  RlInv => Unmet \in [Addr -> Int] /\ \A a \in Addr : Unmet[a] = fails[a] - met[a]
BY DEF RlInv, RlType, Unmet

\* A limiter's bucket taken in hand, with everything that is known of it.
LEMMA IpInHand ==
  ASSUME RlInv, NEW k \in Addr
  PROVE  \E m \in Seq(Bucket) :
           /\ m = BucketLocked(ipLimiter, k) /\ Len(m) >= 1 /\ OneBucket(m) /\ m[1].key = k
           /\ Owed(m, Unmet, Lost(evicted, Evicted(ipLimiter, k)), ticks) /\ OwnOK(m, fails)
           /\ \A c \in Client : visit[c].pc = "run" /\ ~visit[c].met =>
                \A i \in Held(m, visit[c].ip) : m[i].tokens >= 1
<1>1. PICK l \in Seq(Bucket) : l = ipLimiter
  BY DEF RlInv, RlType
<1>2. ticks \in Nat /\ OneBucket(l) /\ \A i \in DOMAIN l : l[i].last <= ticks
  BY <1>1 DEF RlInv, RlType, Owed
<1>3. PICK m \in Seq(Bucket) : m = BucketLocked(l, k) /\ InHand(l, m, k, Evicted(l, k))
  BY <1>2, LockedFacts
<1> DEFINE S == Evicted(l, k)
<1>4. PICK g \in [Addr -> Int], h \in [Addr -> Nat], f \in [Addr -> Nat] :
        g = Unmet /\ h = evicted /\ f = fails
  <2>1. Unmet \in [Addr -> Int]
    BY UnmetFacts
  <2>2. evicted \in [Addr -> Nat] /\ fails \in [Addr -> Nat]
    BY DEF RlInv, RlType
  <2> QED
    BY <2>1, <2>2
<1>5. Owed(l, g, h, ticks) /\ OwnOK(l, f)
  BY <1>1, <1>4 DEF RlInv, OwnFailures, OwnOK
<1>6. Owed(m, g, Lost(h, S), ticks)
  BY <1>2, <1>3, <1>4, <1>5, LockedOwed
<1>7. OwnOK(m, f)
  BY <1>2, <1>3, <1>5, LockedOwn
<1>8. ASSUME NEW c \in Client, visit[c].pc = "run", ~visit[c].met
      PROVE  \A i \in Held(m, visit[c].ip) : m[i].tokens >= 1
  <2>1. PICK a : a = visit[c].ip
    OBVIOUS
  <2>2. \A i \in Held(l, a) : l[i].tokens >= 1
    BY <1>1, <1>8, <2>1 DEF RlInv, TokenStays
  <2>3. \A i \in Held(m, a) : m[i].tokens >= 1
    BY <1>2, <1>3, <2>2, LockedSeen
  <2> QED
    BY <2>1, <2>3
<1>9. Len(m) >= 1 /\ OneBucket(m) /\ m[1].key = k
  BY <1>3 DEF InHand
<1> QED
  BY <1>1, <1>3, <1>4, <1>6, <1>7, <1>8, <1>9

LEMMA PrincipalInHand ==
  ASSUME RlInv, NEW k \in Addr
  PROVE  \E m \in Seq(Bucket) :
           /\ m = BucketLocked(principal, k) /\ Len(m) >= 1 /\ OneBucket(m) /\ m[1].key = k
           /\ Owed(m, granted, Lost(dropped, Evicted(principal, k)), ticks)
<1>1. PICK l \in Seq(Bucket) : l = principal
  BY DEF RlInv, RlType
<1>2. ticks \in Nat /\ OneBucket(l) /\ \A i \in DOMAIN l : l[i].last <= ticks
  BY <1>1 DEF RlInv, RlType, Owed
<1>3. PICK m \in Seq(Bucket) : m = BucketLocked(l, k) /\ InHand(l, m, k, Evicted(l, k))
  BY <1>2, LockedFacts
<1>0. PICK S : S = Evicted(l, k)
  OBVIOUS
<1>4. PICK g \in [Addr -> Int], h \in [Addr -> Nat] :
        g = granted /\ h = dropped /\ S = Evicted(l, k)
  BY <1>0 DEF RlInv, RlType
<1>5. Owed(l, g, h, ticks)
  BY <1>1, <1>4 DEF RlInv
<1>6. Owed(m, g, Lost(h, S), ticks)
  BY <1>2, <1>3, <1>4, <1>5, LockedOwed
<1>7. Len(m) >= 1 /\ OneBucket(m) /\ m[1].key = k
  BY <1>3 DEF InHand
<1> QED
  BY <1>1, <1>3, <1>4, <1>6, <1>7

LEMMA RlInvInit == RlInit => RlInv
<1> SUFFICES ASSUME RlInit PROVE RlInv
  OBVIOUS
<1>1. Zero \in [Addr -> Nat] /\ \A a \in Addr : Zero[a] = 0
  BY DEF Zero
<1>2. RlType
  <2>1. Calm \in Visit
    BY DEF Calm, Visit
  <2>2. visit \in [Client -> Visit]
    BY <2>1 DEF RlInit
  <2> QED
    BY <1>1, <2>2 DEF RlInit, RlType
<1>3. OneBucket(ipLimiter) /\ OneBucket(principal) /\ OwnFailures /\ DeniedEarned
  BY DEF RlInit, OneBucket, OwnFailures, DeniedEarned
<1>4. \A n \in Nat : Allowance(n) \in Nat
  BY AllowanceFacts
<1>5. Allowance(0) \in Nat
  BY <1>4
<1>6. Owed(ipLimiter, Unmet, evicted, ticks)
  <2>1. \A a \in Addr : Unmet[a] = 0 /\ evicted[a] = 0
    BY <1>1 DEF RlInit, Unmet
  <2> QED
    BY <1>5, <2>1 DEF RlInit, Owed
<1>7. Owed(principal, granted, dropped, ticks)
  <2>1. \A a \in Addr : granted[a] = 0 /\ dropped[a] = 0
    BY <1>1 DEF RlInit
  <2> QED
    BY <1>5, <2>1 DEF RlInit, Owed
<1>8. TokenStays
  BY DEF RlInit, TokenStays, Calm
<1> QED
  BY <1>2, <1>3, <1>6, <1>7, <1>8 DEF RlInv

LEMMA PeekInv == ASSUME RlInv, NEW c \in Client, NEW ip \in Addr, Peek(c, ip) PROVE RlInv'
<1>1. PICK m \in Seq(Bucket) :
           /\ m = BucketLocked(ipLimiter, ip) /\ Len(m) >= 1 /\ OneBucket(m) /\ m[1].key = ip
           /\ Owed(m, Unmet, Lost(evicted, Evicted(ipLimiter, ip)), ticks) /\ OwnOK(m, fails)
           /\ \A d \in Client : visit[d].pc = "run" /\ ~visit[d].met =>
                \A i \in Held(m, visit[d].ip) : m[i].tokens >= 1
  BY IpInHand
<1>2. PICK h \in [Addr -> Nat] : h = Lost(evicted, Evicted(ipLimiter, ip))
  BY LostFacts DEF RlInv, RlType
<1>3. /\ ipLimiter' = m /\ evicted' = h /\ tries' = tries + 1
      /\ UNCHANGED <<principal, ticks, fails, met, granted, dropped>>
  BY <1>1, <1>2 DEF Peek
<1>4. Unmet' = Unmet
  BY <1>3 DEF Unmet
<1>5. Owed(ipLimiter, Unmet, evicted, ticks)' /\ OneBucket(ipLimiter)' /\ OwnFailures'
  BY <1>1, <1>2, <1>3, <1>4 DEF OwnFailures, OwnOK
<1>6. Owed(principal, granted, dropped, ticks)' /\ OneBucket(principal)'
  BY <1>3 DEF RlInv
<1>7. Front(m) = m[1].tokens /\ m[1] \in Bucket /\ 1 \in DOMAIN m
  BY <1>1 DEF Front
<1>8. visit' \in [Client -> Visit] /\ TokenStays' /\ denied' \subseteq Addr /\ DeniedEarned'
  <2>1. CASE Front(m) >= 1
    <3> DEFINE v == [pc |-> "run", ip |-> ip, met |-> FALSE]
    <3>1. v \in Visit /\ v.pc = "run" /\ v.ip = ip
      BY DEF Visit
    <3>2. visit' = [visit EXCEPT ![c] = v] /\ denied' = denied
      BY <1>1, <2>1 DEF Peek
    <3> HIDE DEF v
    <3>3. visit' \in [Client -> Visit] /\ visit'[c] = v /\ \A d \in Client \ {c} : visit'[d] = visit[d]
      BY <3>1, <3>2 DEF RlInv, RlType
    <3>4. \A i \in Held(m, ip) : i = 1
      BY <1>1, <1>7 DEF Held, OneBucket
    <3>5. TokenStays'
      <4> SUFFICES ASSUME NEW d \in Client, visit'[d].pc = "run"
                   PROVE  /\ visit'[d].ip \in Addr
                          /\ ~visit'[d].met => \A i \in Held(m, visit'[d].ip) : m[i].tokens >= 1
        BY <1>3 DEF TokenStays
      <4>1. CASE d = c
        BY <1>7, <2>1, <3>1, <3>3, <3>4, <4>1
      <4>2. CASE d # c
        BY <1>1, <3>3, <4>2 DEF RlInv, TokenStays
      <4> QED
        BY <4>1, <4>2
    <3> QED
      BY <1>3, <3>2, <3>3, <3>5 DEF RlInv, RlType, DeniedEarned
  <2>2. CASE ~(Front(m) >= 1)
    <3>1. visit' = visit /\ denied' = denied \cup {ip}
      BY <1>1, <2>2 DEF Peek
    <3>2. TokenStays'
      BY <1>1, <1>3, <3>1 DEF RlInv, TokenStays
    <3>3. fails[ip] >= Burst
      <4>1. m[1].tokens \in 0..Burst /\ ~(m[1].tokens >= 1)
        BY <1>7, <2>2 DEF Bucket
      <4>2. m[1].tokens = 0
        BY <4>1, RlAssumption
      <4>3. m[1].tokens + fails[ip] >= Burst
        BY <1>1, <1>7 DEF OwnOK
      <4>4. fails[ip] \in Nat
        BY DEF RlInv, RlType
      <4> QED
        BY <4>2, <4>3, <4>4
    <3> QED
      BY <1>3, <3>1, <3>2, <3>3 DEF RlInv, RlType, DeniedEarned
  <2> QED
    BY <2>1, <2>2
<1>9. RlType'
  BY <1>3, <1>8 DEF RlInv, RlType
<1> QED
  BY <1>5, <1>6, <1>8, <1>9 DEF RlInv

LEMMA ConsumeInv == ASSUME RlInv, NEW c \in Client, Consume(c) PROVE RlInv'
<1>1. PICK ip \in Addr : ip = visit[c].ip
  BY DEF RlInv, TokenStays, Consume
<1>2. PICK m \in Seq(Bucket) :
           /\ m = BucketLocked(ipLimiter, ip) /\ Len(m) >= 1 /\ OneBucket(m) /\ m[1].key = ip
           /\ Owed(m, Unmet, Lost(evicted, Evicted(ipLimiter, ip)), ticks) /\ OwnOK(m, fails)
           /\ \A d \in Client : visit[d].pc = "run" /\ ~visit[d].met =>
                \A i \in Held(m, visit[d].ip) : m[i].tokens >= 1
  BY IpInHand
<1>3. PICK p \in Seq(Bucket) : p = Pay(m) /\ Paid(m, p)
  BY <1>2, PayFacts
<1>4. PICK h \in [Addr -> Nat] : h = Lost(evicted, Evicted(ipLimiter, ip))
  BY LostFacts DEF RlInv, RlType
<1>5. /\ ipLimiter' = p /\ evicted' = h /\ UNCHANGED <<principal, ticks, tries, denied, granted, dropped>>
      /\ fails' = [fails EXCEPT ![ip] = @ + 1]
      /\ met' = [met EXCEPT ![ip] = IF visit[c].met THEN @ + 1 ELSE @]
      /\ visit' = [d \in Client |-> IF d = c THEN Calm
                    ELSE IF visit[d].ip = ip THEN [visit[d] EXCEPT !.met = TRUE] ELSE visit[d]]
      /\ visit[c].pc = "run"
  BY <1>1, <1>2, <1>3, <1>4 DEF Consume
<1>6. /\ fails' \in [Addr -> Nat] /\ fails'[ip] = fails[ip] + 1
      /\ \A a \in Addr \ {ip} : fails'[a] = fails[a]
      /\ met' \in [Addr -> Nat] /\ met'[ip] = (IF visit[c].met THEN met[ip] + 1 ELSE met[ip])
      /\ \A a \in Addr \ {ip} : met'[a] = met[a]
      /\ fails[ip] \in Nat /\ met[ip] \in Nat
  <2>1. fails \in [Addr -> Nat] /\ met \in [Addr -> Nat]
    BY DEF RlInv, RlType
  <2>2. fails[ip] \in Nat /\ met[ip] \in Nat
    BY <2>1
  <2>3. PICK x \in Nat : x = fails[ip] + 1
    BY <2>2
  <2>4. fails' = [fails EXCEPT ![ip] = x]
    BY <1>5, <2>3
  <2>5. /\ fails' \in [Addr -> Nat] /\ fails'[ip] = fails[ip] + 1
        /\ \A a \in Addr \ {ip} : fails'[a] = fails[a]
    BY <2>1, <2>3, <2>4
  <2>6. PICK y \in Nat : y = IF visit[c].met THEN met[ip] + 1 ELSE met[ip]
    BY <2>2
  <2>7. met' = [met EXCEPT ![ip] = y]
    BY <1>5, <2>6
  <2>8. /\ met' \in [Addr -> Nat] /\ met'[ip] = (IF visit[c].met THEN met[ip] + 1 ELSE met[ip])
        /\ \A a \in Addr \ {ip} : met'[a] = met[a]
    BY <2>1, <2>6, <2>7
  <2> QED
    BY <2>2, <2>5, <2>8
<1>7. visit' \in [Client -> Visit]
  <2>1. ASSUME NEW d \in Client
        PROVE  (IF d = c THEN Calm ELSE IF visit[d].ip = ip THEN [visit[d] EXCEPT !.met = TRUE]
                ELSE visit[d]) \in Visit
    <3>1. visit[d] \in Visit
      BY DEF RlInv, RlType
    <3>2. [visit[d] EXCEPT !.met = TRUE] \in Visit
      BY <3>1 DEF Visit
    <3>3. Calm \in Visit
      BY DEF Calm, Visit
    <3> QED
      BY <3>1, <3>2, <3>3
  <2> QED
    BY <1>5, <2>1
<1>8. PICK g \in [Addr -> Int], f \in [Addr -> Int] :
        /\ g = Unmet /\ f = Unmet' /\ \A a \in Addr \ {ip} : f[a] = g[a]
        /\ f[ip] = IF visit[c].met THEN g[ip] ELSE g[ip] + 1
  <2>1. Unmet \in [Addr -> Int] /\ Unmet[ip] = fails[ip] - met[ip]
        /\ \A a \in Addr : Unmet[a] = fails[a] - met[a]
    BY UnmetFacts
  <2>2. Unmet' \in [Addr -> Int] /\ \A a \in Addr : Unmet'[a] = fails'[a] - met'[a]
    BY <1>6 DEF Unmet
  <2>3. Unmet'[ip] = IF visit[c].met THEN Unmet[ip] ELSE Unmet[ip] + 1
    <3>1. Unmet'[ip] = fails'[ip] - met'[ip] /\ Unmet[ip] = fails[ip] - met[ip]
      BY <2>1, <2>2
    <3>2. CASE visit[c].met
      <4>1. PICK x \in Nat, y \in Nat : x = fails[ip] /\ y = met[ip]
        BY <1>6
      <4>2. fails'[ip] = x + 1 /\ met'[ip] = y + 1
        BY <1>6, <3>2, <4>1
      <4>3. (x + 1) - (y + 1) = x - y
        OBVIOUS
      <4> QED
        BY <3>1, <3>2, <4>1, <4>2, <4>3
    <3>3. CASE ~visit[c].met
      <4>1. PICK x \in Nat, y \in Nat : x = fails[ip] /\ y = met[ip]
        BY <1>6
      <4>2. fails'[ip] = x + 1 /\ met'[ip] = y
        BY <1>6, <3>3, <4>1
      <4>3. (x + 1) - y = (x - y) + 1
        OBVIOUS
      <4> QED
        BY <3>1, <3>3, <4>1, <4>2, <4>3
    <3> QED
      BY <3>2, <3>3
  <2>4. \A a \in Addr \ {ip} : Unmet'[a] = Unmet[a]
    BY <1>6, <2>1, <2>2
  <2> QED
    BY <2>1, <2>2, <2>3, <2>4
<1>9. 1 \in DOMAIN m /\ DOMAIN p = DOMAIN m /\ m[1] \in Bucket
  BY <1>2, <1>3 DEF Paid
<1>10. Owed(ipLimiter, Unmet, evicted, ticks)' /\ OneBucket(ipLimiter)'
  <2>1. ~visit[c].met => m[1].tokens >= 1
    <3>1. 1 \in Held(m, visit[c].ip)
      BY <1>1, <1>2, <1>9 DEF Held
    <3> QED
      BY <1>2, <1>5, <3>1
  <2>2. Owed(m, g, h, ticks) /\ ticks \in Nat
    BY <1>2, <1>4, <1>8 DEF RlInv, RlType
  <2>3. f[ip] = g[ip] \/ (f[ip] = g[ip] + 1 /\ m[1].tokens >= 1)
    BY <1>8, <2>1
  <2>4. PICK t \in Nat : t = ticks
    BY <2>2
  <2>6. /\ Len(m) >= 1 /\ OneBucket(m) /\ m[1].key = ip /\ Paid(m, p) /\ Owed(m, g, h, t)
        /\ \A a \in Addr \ {ip} : f[a] = g[a]
    BY <1>2, <1>3, <1>8, <2>2, <2>4
  <2>5. Owed(p, f, h, t)
    BY <2>3, <2>6, PayOwed
  <2> QED
    BY <1>3, <1>5, <1>8, <2>4, <2>5 DEF Paid
<1>11. OwnFailures'
  <2> SUFFICES ASSUME NEW i \in DOMAIN p PROVE p[i].tokens + fails'[p[i].key] >= Burst
    BY <1>5 DEF OwnFailures
  <2>1. m[i] \in Bucket /\ m[i].tokens + fails[m[i].key] >= Burst
    BY <1>2, <1>9 DEF OwnOK
  <2>2. CASE i = 1
    <3>1. PICK y \in Int, n \in Nat : y = m[1].tokens /\ n = fails[ip]
      <4>1. m[1].tokens \in 0..Burst
        BY <1>9 DEF Bucket
      <4> QED
        BY <1>6, <4>1
    <3>2. p[1].tokens = (IF y < 1 THEN 0 ELSE y - 1) /\ p[1].key = ip /\ fails'[ip] = n + 1
      BY <1>2, <1>3, <1>6, <1>9, <3>1 DEF Paid
    <3>3. y + n >= Burst
      BY <1>2, <2>1, <2>2, <3>1
    <3>4. (IF y < 1 THEN 0 ELSE y - 1) + (n + 1) >= Burst
      BY <3>3, RlAssumption
    <3> QED
      BY <2>2, <3>2, <3>4
  <2>3. CASE i # 1
    <3>1. p[i] = m[i] /\ m[i].key # ip /\ m[i].key \in Addr
      BY <1>2, <1>3, <1>9, <2>1, <2>3 DEF Paid, OneBucket, Bucket
    <3> QED
      BY <1>6, <2>1, <3>1
  <2> QED
    BY <2>2, <2>3
<1>12. TokenStays'
  <2> SUFFICES ASSUME NEW d \in Client, visit'[d].pc = "run"
               PROVE  /\ visit'[d].ip \in Addr
                      /\ ~visit'[d].met => \A i \in Held(p, visit'[d].ip) : p[i].tokens >= 1
    BY <1>5 DEF TokenStays
  <2>1. d # c
    BY <1>5 DEF Calm
  <2>2. CASE visit[d].ip = ip
    <3>1. visit[d] \in Visit
      BY DEF RlInv, RlType
    <3>2. visit'[d].ip = ip /\ visit'[d].met = TRUE
      BY <1>5, <2>1, <2>2, <3>1 DEF Visit
    <3> QED
      BY <3>2
  <2>3. CASE visit[d].ip # ip
    <3>1. visit'[d] = visit[d]
      BY <1>5, <2>1, <2>3
    <3>2. visit[d].ip \in Addr
      BY <3>1 DEF RlInv, TokenStays
    <3>3. ASSUME NEW i \in Held(p, visit[d].ip) PROVE i \in Held(m, visit[d].ip) /\ p[i] = m[i]
      BY <1>2, <1>3, <1>9, <2>3 DEF Held, Paid
    <3> QED
      BY <1>2, <3>1, <3>2, <3>3
  <2> QED
    BY <2>2, <2>3
<1>13. DeniedEarned'
  <2> SUFFICES ASSUME NEW a \in denied PROVE fails'[a] >= Burst
    BY <1>5 DEF DeniedEarned
  <2>1. a \in Addr /\ fails[a] >= Burst /\ fails[a] \in Nat
    BY DEF RlInv, RlType, DeniedEarned
  <2>2. CASE a = ip
    <3>1. fails'[a] = fails[a] + 1
      BY <1>6, <2>2
    <3> QED
      BY <2>1, <3>1, RlAssumption
  <2>3. CASE a # ip
    BY <1>6, <2>1, <2>3
  <2> QED
    BY <2>2, <2>3
<1>14. Owed(principal, granted, dropped, ticks)' /\ OneBucket(principal)'
  BY <1>5 DEF RlInv
<1>15. RlType'
  BY <1>5, <1>6, <1>7 DEF RlInv, RlType
<1> QED
  BY <1>10, <1>11, <1>12, <1>13, <1>14, <1>15 DEF RlInv

LEMMA AdmitPrincipalInv == ASSUME RlInv, NEW c \in Client, AdmitPrincipal(c) PROVE RlInv'
<1>1. PICK k \in Addr : k = visit[c].ip
  BY DEF RlInv, TokenStays, AdmitPrincipal
<1>2. PICK m \in Seq(Bucket) :
           /\ m = BucketLocked(principal, k) /\ Len(m) >= 1 /\ OneBucket(m) /\ m[1].key = k
           /\ Owed(m, granted, Lost(dropped, Evicted(principal, k)), ticks)
  BY PrincipalInHand
<1>3. PICK h \in [Addr -> Nat] : h = Lost(dropped, Evicted(principal, k))
  BY LostFacts DEF RlInv, RlType
<1>4. /\ dropped' = h /\ UNCHANGED <<ipLimiter, ticks, tries, fails, met, evicted, denied>>
      /\ visit' = [visit EXCEPT ![c] = Calm]
      /\ principal' = (IF Front(m) >= 1 THEN Pay(m) ELSE m)
      /\ granted' = IF Front(m) >= 1 THEN [granted EXCEPT ![k] = @ + 1] ELSE granted
  BY <1>1, <1>2, <1>3 DEF AdmitPrincipal
<1>5. PICK t \in Nat, g \in [Addr -> Int] : t = ticks /\ g = granted
  BY DEF RlInv, RlType
<1>6. /\ principal' \in Seq(Bucket) /\ granted' \in [Addr -> Nat]
      /\ Owed(principal, granted, dropped, ticks)' /\ OneBucket(principal)'
  <2>1. CASE ~(Front(m) >= 1)
    BY <1>2, <1>3, <1>4, <2>1 DEF RlInv, RlType
  <2>2. CASE Front(m) >= 1
    <3>1. PICK p \in Seq(Bucket) : p = Pay(m) /\ Paid(m, p)
      BY <1>2, PayFacts
    <3>0. granted \in [Addr -> Nat] /\ granted' = [granted EXCEPT ![k] = granted[k] + 1]
      BY <1>4, <2>2 DEF RlInv, RlType
    <3>a. /\ granted' \in [Addr -> Nat] /\ granted'[k] = granted[k] + 1
          /\ \A a \in Addr \ {k} : granted'[a] = granted[a]
      BY <3>0
    <3>b. granted' \in [Addr -> Int]
      BY <3>a
    <3>2. PICK f \in [Addr -> Int] : /\ f = granted' /\ granted' \in [Addr -> Nat]
                                     /\ f[k] = g[k] + 1 /\ \A a \in Addr \ {k} : f[a] = g[a]
      BY <1>5, <3>a, <3>b
    <3>3. /\ Len(m) >= 1 /\ OneBucket(m) /\ m[1].key = k /\ Paid(m, p) /\ Owed(m, g, h, t)
          /\ \A a \in Addr \ {k} : f[a] = g[a]
      BY <1>2, <1>3, <1>5, <3>1, <3>2
    <3>4. f[k] = g[k] + 1 /\ m[1].tokens >= 1
      BY <1>2, <2>2, <3>2 DEF Front
    <3>5. Owed(p, f, h, t)
      BY <3>3, <3>4, PayOwed
    <3> QED
      BY <1>4, <1>5, <2>2, <3>1, <3>2, <3>5 DEF Paid
  <2> QED
    BY <2>1, <2>2
<1>7. visit' \in [Client -> Visit] /\ TokenStays'
  <2>1. Calm \in Visit /\ Calm.pc = "idle"
    BY DEF Calm, Visit
  <2>2. visit' \in [Client -> Visit] /\ visit'[c] = Calm /\ \A d \in Client \ {c} : visit'[d] = visit[d]
    BY <1>4, <2>1 DEF RlInv, RlType
  <2> QED
    BY <1>4, <2>1, <2>2 DEF RlInv, TokenStays
<1>8. Unmet' = Unmet
  BY <1>4 DEF Unmet
<1>9. /\ Owed(ipLimiter, Unmet, evicted, ticks)' /\ OneBucket(ipLimiter)' /\ OwnFailures'
      /\ DeniedEarned'
  BY <1>4, <1>8 DEF RlInv, OwnFailures, DeniedEarned
<1>10. RlType'
  BY <1>4, <1>6, <1>7 DEF RlInv, RlType
<1> QED
  BY <1>6, <1>7, <1>9, <1>10 DEF RlInv

LEMMA OwedLater ==
  ASSUME NEW l \in Seq(Bucket), NEW g \in [Addr -> Int], NEW h \in [Addr -> Nat], NEW t \in Nat,
         Owed(l, g, h, t)
  PROVE  Owed(l, g, h, t + 1)
<1>1. ASSUME NEW i \in DOMAIN l PROVE l[i].last <= t + 1
  <2>1. l[i] \in Bucket /\ l[i].last <= t
    BY DEF Owed
  <2> QED
    BY <2>1 DEF Bucket
<1>2. ASSUME NEW a \in Addr, Held(l, a) = {} PROVE g[a] <= Allowance(h[a]) + (t + 1)
  <2>1. g[a] <= Allowance(h[a]) + t
    BY <1>2 DEF Owed
  <2>2. h[a] \in Nat /\ g[a] \in Int
    OBVIOUS
  <2>3. Allowance(h[a]) \in Nat
    BY <2>2, AllowanceFacts
  <2> QED
    BY <2>1, <2>2, <2>3
<1> QED
  BY <1>1, <1>2 DEF Owed

LEMMA PassInv == ASSUME RlInv, Pass PROVE RlInv'
<1>1. /\ ticks' = ticks + 1 /\ UNCHANGED <<ipLimiter, principal, visit, tries, fails, met, evicted>>
      /\ UNCHANGED <<denied, granted, dropped>>
  BY DEF Pass
<1>2. Unmet' = Unmet
  BY <1>1 DEF Unmet
<1>3. PICK t \in Nat : t = ticks
  BY DEF RlInv, RlType
<1>4. Owed(ipLimiter, Unmet, evicted, ticks)'
  <2>1. PICK l \in Seq(Bucket) : l = ipLimiter
    BY DEF RlInv, RlType
  <2>2. PICK g \in [Addr -> Int] : g = Unmet
    BY UnmetFacts
  <2>3. PICK h \in [Addr -> Nat] : h = evicted
    BY DEF RlInv, RlType
  <2>4. Owed(l, g, h, t)
    BY <1>3, <2>1, <2>2, <2>3 DEF RlInv
  <2> QED
    BY <1>1, <1>2, <1>3, <2>1, <2>2, <2>3, <2>4, OwedLater
<1>5. Owed(principal, granted, dropped, ticks)'
  <2>1. PICK l \in Seq(Bucket) : l = principal
    BY DEF RlInv, RlType
  <2>2. PICK g \in [Addr -> Int] : g = granted
    BY DEF RlInv, RlType
  <2>3. PICK h \in [Addr -> Nat] : h = dropped
    BY DEF RlInv, RlType
  <2>4. Owed(l, g, h, t)
    BY <1>3, <2>1, <2>2, <2>3 DEF RlInv
  <2> QED
    BY <1>1, <1>3, <2>1, <2>2, <2>3, <2>4, OwedLater
<1>6. OneBucket(ipLimiter)' /\ OneBucket(principal)' /\ OwnFailures' /\ TokenStays' /\ DeniedEarned'
  BY <1>1 DEF RlInv, OwnFailures, TokenStays, DeniedEarned
<1>7. RlType'
  BY <1>1 DEF RlInv, RlType
<1> QED
  BY <1>4, <1>5, <1>6, <1>7 DEF RlInv

LEMMA RlInvNext == RlInv /\ [RlNext]_rlVars => RlInv'
<1> SUFFICES ASSUME RlInv, [RlNext]_rlVars PROVE RlInv'
  OBVIOUS
<1>1. CASE UNCHANGED rlVars
  <2>1. UNCHANGED <<ipLimiter, principal, visit, ticks, tries, fails, met, evicted, denied, granted, dropped>>
    BY <1>1 DEF rlVars
  <2>2. Unmet' = Unmet
    BY <2>1 DEF Unmet
  <2>3. RlType'
    BY <2>1 DEF RlInv, RlType
  <2>4. OneBucket(ipLimiter)' /\ OneBucket(principal)' /\ OwnFailures' /\ TokenStays' /\ DeniedEarned'
    BY <2>1 DEF RlInv, OwnFailures, TokenStays, DeniedEarned
  <2>5. Owed(ipLimiter, Unmet, evicted, ticks)' /\ Owed(principal, granted, dropped, ticks)'
    BY <2>1, <2>2 DEF RlInv
  <2> QED
    BY <2>3, <2>4, <2>5 DEF RlInv
<1> QED
  BY <1>1, PeekInv, ConsumeInv, AdmitPrincipalInv, PassInv DEF RlNext

LEMMA OwedBounds ==
  ASSUME NEW l \in Seq(Bucket), NEW g \in [Addr -> Int], NEW h \in [Addr -> Nat], NEW t \in Nat,
         Owed(l, g, h, t), NEW a \in Addr
  PROVE  g[a] <= Burst * (1 + h[a]) + t
<1>1. PICK n \in Nat, x \in Int : n = h[a] /\ x = g[a]
  OBVIOUS
<1>2. /\ Burst * (1 + n) = Allowance(1 + n) /\ Allowance(n) \in Nat
      /\ Allowance(1 + n) = Burst + Allowance(n) /\ Burst \in Nat
  BY AllowanceFacts, RlAssumption DEF Allowance
<1>3. CASE Held(l, a) = {}
  <2>1. x <= Allowance(n) + t
    BY <1>1, <1>3 DEF Owed
  <2>2. x <= Allowance(1 + n) + t
    BY <1>2, <2>1
  <2> QED
    BY <1>1, <1>2, <2>2
<1>4. CASE Held(l, a) # {}
  <2>1. PICK i \in DOMAIN l : l[i].key = a /\ l[i] \in Bucket
    BY <1>4 DEF Held
  <2>2. PICK y \in 0..Burst, z \in Nat : y = l[i].tokens /\ z = l[i].last
    BY <2>1 DEF Bucket
  <2>3. x + y <= Allowance(1 + n) + z /\ z <= t
    BY <1>1, <2>1, <2>2 DEF Owed
  <2>4. x <= Allowance(1 + n) + t
    BY <1>2, <2>3
  <2> QED
    BY <1>1, <1>2, <2>4
<1> QED
  BY <1>3, <1>4

\* Failed logins per address and requests per principal stay within burst and
\* refill, counted once per bucket the LRU forgot, and nobody is refused for
\* another's failures, for every number of addresses, concurrent requests and
\* buckets and every burst (adminhttp/ratelimit.go).
THEOREM RatesAreBounded == RlSpec => []RatesBounded
<1>1. RlInv => RatesBounded
  <2> SUFFICES ASSUME RlInv PROVE RatesBounded
    OBVIOUS
  <2>1. PICK t \in Nat : t = ticks
    BY DEF RlInv, RlType
  <2>2. FailureBrake
    <3>1. PICK l \in Seq(Bucket), g \in [Addr -> Int], h \in [Addr -> Nat] :
            l = ipLimiter /\ g = Unmet /\ h = evicted
      <4>1. Unmet \in [Addr -> Int]
        BY UnmetFacts
      <4> QED
        BY <4>1 DEF RlInv, RlType
    <3>2. Owed(l, g, h, t)
      BY <2>1, <3>1 DEF RlInv
    <3>3. \A a \in Addr : g[a] <= Burst * (1 + h[a]) + t
      BY <3>2, OwedBounds
    <3> QED
      BY <2>1, <3>1, <3>3, UnmetFacts DEF FailureBrake
  <2>3. PrincipalRate
    <3>1. PICK l \in Seq(Bucket), g \in [Addr -> Int], h \in [Addr -> Nat] :
            l = principal /\ g = granted /\ h = dropped
      BY DEF RlInv, RlType
    <3>2. Owed(l, g, h, t)
      BY <2>1, <3>1 DEF RlInv
    <3>3. \A a \in Addr : g[a] <= Burst * (1 + h[a]) + t
      BY <3>2, OwedBounds
    <3> QED
      BY <2>1, <3>1, <3>3 DEF PrincipalRate
  <2> QED
    BY <2>2, <2>3 DEF RlInv, RatesBounded
<1> QED
  BY <1>1, RlInvInit, RlInvNext, PTL DEF RlSpec

-----------------------------------------------------------------------------
(* Templates: a version has one picture, the preview slot one holder, an   *)
(* apply one effect.  TplInv adds that what is stored, was sent or is      *)
(* being made agrees with the row it came from (VersionIsSource), that an  *)
(* edit under way is never of a built-in (EditsOwn), and that two applies  *)
(* never share a function (BoundApart).                                    *)

LEMMA RestingFacts ==
  /\ Resting \in EditState /\ Resting.pc = "idle"
  /\ Watching \in Seen /\ Watching.pc = "idle"
<1>1. 0 \in 0..MaxFn
  BY TplAssumption
<1> QED
  BY <1>1 DEF Resting, EditState, Watching, Seen, Tpl

LEMMA TplInvInit == TplInit => TplInv
<1> SUFFICES ASSUME TplInit PROVE TplInv
  OBVIOUS
<1>1. TplType
  <2>1. NoTpl \in [live : BOOLEAN, src : Nat, ver : Nat]
    BY DEF NoTpl
  <2>2. NoFunction \in [live : BOOLEAN, base : Param \cup {0}, num : Nat, on : BOOLEAN]
    BY DEF NoFunction
  <2>3. /\ tmpl \in [Tpl -> [live : BOOLEAN, src : Nat, ver : Nat]]
        /\ faas \in [FnId -> [live : BOOLEAN, base : Param \cup {0}, num : Nat, on : BOOLEAN]]
    BY <2>1, <2>2 DEF TplInit
  <2>4. viewer \in [Viewer -> Seen] /\ editor \in [Editor -> EditState]
    BY RestingFacts DEF TplInit
  <2> QED
    BY <2>3, <2>4 DEF TplInit, TplType
<1>2. Shots = {}
  BY RestingFacts DEF TplInit, Shots
<1>3. VersionIsSource
  BY <1>2 DEF VersionIsSource
<1>4. SlotHeld /\ EditsOwn /\ AppliesInParam /\ BoundApart
  BY RestingFacts DEF TplInit, SlotHeld, EditsOwn, AppliesInParam, BoundApart
<1>5. BuiltinIsShipped /\ catalog \in released
  BY DEF TplInit, BuiltinIsShipped, NoTpl, Tpl
<1>6. EnabledLast /\ KeyTells /\ OnePending
  BY RestingFacts DEF TplInit, EnabledLast, KeyTells, OnePending
<1> QED
  BY <1>1, <1>3, <1>4, <1>5, <1>6 DEF TplInv

\* A request of the operator's moves to x.
LEMMA EditorMoves ==
  ASSUME TplInv, NEW e \in Editor, NEW x \in EditState, editor' = [editor EXCEPT ![e] = x],
         x.pc \in {"update", "delete"} => x.t # "builtin",
         x.pc = "create" => x.p # 0,
         x.pc = "bind" => editor[e].pc = "bind" /\ x.id = editor[e].id,
         UNCHANGED faas
  PROVE  /\ editor' \in [Editor -> EditState]
         /\ EditsOwn' /\ AppliesInParam' /\ BoundApart' /\ EnabledLast'
<1>1. /\ editor' \in [Editor -> EditState] /\ editor'[e] = x
      /\ \A g \in Editor \ {e} : editor'[g] = editor[g]
  BY DEF TplInv, TplType
<1>2. EditsOwn' /\ AppliesInParam'
  BY <1>1 DEF TplInv, EditsOwn, AppliesInParam
<1>3. \A g \in Editor : editor'[g].pc = "bind" => editor[g].pc = "bind" /\ editor'[g].id = editor[g].id
  BY <1>1
<1>4. BoundApart'
  BY <1>3 DEF TplInv, BoundApart
<1>5. EnabledLast'
  BY <1>3 DEF TplInv, EnabledLast
<1> QED
  BY <1>1, <1>2, <1>4, <1>5

\* Nothing new is in hand, and a row that changes has a higher version.
LEMMA RowsMove ==
  ASSUME TplInv, preview' \subseteq preview, UNCHANGED <<served, viewer>>,
         \A t \in Tpl : \/ tmpl'[t].ver = tmpl[t].ver /\ tmpl'[t].src = tmpl[t].src
                        \/ tmpl'[t].ver = tmpl[t].ver + 1
  PROVE  VersionIsSource'
<1>1. Shots' \subseteq Shots
  BY DEF Shots, InHandOf
<1>2. \A a, b \in Shots' : a[1] = b[1] /\ a[2] = b[2] => a[3] = b[3]
  BY <1>1 DEF TplInv, VersionIsSource
<1>3. ASSUME NEW a \in Shots'
      PROVE  a[2] <= tmpl'[a[1]].ver /\ (a[2] = tmpl'[a[1]].ver => a[3] = tmpl'[a[1]].src)
  <2>1. a \in Picture
    <3>1. a \in Shots
      BY <1>1
    <3>2. ASSUME NEW v \in Viewer PROVE InHandOf(v) \in Picture
      <4>1. viewer[v] \in Seen
        BY DEF TplInv, TplType
      <4> QED
        BY <4>1 DEF InHandOf, Picture, Seen
    <3> QED
      BY <3>1, <3>2 DEF Shots, TplInv, TplType
  <2>2. PICK t \in Tpl, m \in Nat, n \in Nat : t = a[1] /\ m = a[2] /\ n = tmpl[t].ver
    BY <2>1 DEF Picture, TplInv, TplType
  <2>3. m <= n /\ (m = n => a[3] = tmpl[t].src)
    BY <1>1, <2>2 DEF TplInv, VersionIsSource
  <2>4. CASE tmpl'[t].ver = n /\ tmpl'[t].src = tmpl[t].src
    BY <2>2, <2>3, <2>4
  <2>5. CASE tmpl'[t].ver = n + 1
    BY <2>2, <2>3, <2>5
  <2> QED
    BY <2>2, <2>4, <2>5
<1> QED
  BY <1>2, <1>3 DEF VersionIsSource

\* The rows stay, and what is in hand was, or is the row itself.
LEMMA ShotsMove ==
  ASSUME TplInv, UNCHANGED tmpl,
         \A a \in Shots' : a \in Shots \/ \E t \in Tpl : a = <<t, tmpl[t].ver, tmpl[t].src>>
  PROVE  VersionIsSource'
<1>1. \A a \in Shots' : a[2] <= tmpl[a[1]].ver /\ (a[2] = tmpl[a[1]].ver => a[3] = tmpl[a[1]].src)
  <2> SUFFICES ASSUME NEW a \in Shots'
               PROVE  a[2] <= tmpl[a[1]].ver /\ (a[2] = tmpl[a[1]].ver => a[3] = tmpl[a[1]].src)
    OBVIOUS
  <2>1. CASE a \in Shots
    BY <2>1 DEF TplInv, VersionIsSource
  <2>2. CASE \E t \in Tpl : a = <<t, tmpl[t].ver, tmpl[t].src>>
    <3>1. PICK t \in Tpl : a = <<t, tmpl[t].ver, tmpl[t].src>>
      BY <2>2
    <3>2. tmpl[t].ver \in Nat
      BY DEF TplInv, TplType
    <3>3. a[1] = t /\ a[2] = tmpl[t].ver /\ a[3] = tmpl[t].src
      BY <3>1
    <3> QED
      BY <3>2, <3>3
  <2> QED
    BY <2>1, <2>2
<1>2. ASSUME NEW a \in Shots', NEW b \in Shots', a[1] = b[1], a[2] = b[2] PROVE a[3] = b[3]
  <2>1. CASE a \in Shots /\ b \in Shots
    BY <1>2, <2>1 DEF TplInv, VersionIsSource
  <2>2. CASE \E t \in Tpl : a = <<t, tmpl[t].ver, tmpl[t].src>>
    <3>1. PICK t \in Tpl : a = <<t, tmpl[t].ver, tmpl[t].src>>
      BY <2>2
    <3> QED
      BY <1>1, <1>2, <3>1
  <2>3. CASE \E t \in Tpl : b = <<t, tmpl[t].ver, tmpl[t].src>>
    <3>1. PICK t \in Tpl : b = <<t, tmpl[t].ver, tmpl[t].src>>
      BY <2>3
    <3> QED
      BY <1>1, <1>2, <3>1
  <2> QED
    BY <2>1, <2>2, <2>3
<1> QED
  BY <1>1, <1>2 DEF VersionIsSource

\* What does not touch the previews leaves them.
LEMMA ViewsStay ==
  ASSUME TplInv, UNCHANGED viewVars
  PROVE  SlotHeld' /\ Shots' = Shots
BY DEF TplInv, SlotHeld, Shots, InHandOf, viewVars

LEMMA ReleaseInv == ASSUME TplInv, Release PROVE TplInv'
<1>1. VersionIsSource'
  BY RowsMove DEF Release, viewVars
<1>2. TplType' /\ BuiltinIsShipped' /\ catalog' \in released'
  BY DEF TplInv, TplType, Release, BuiltinIsShipped, viewVars, madeVars, NewJob
<1>3. /\ SlotHeld' /\ EditsOwn' /\ AppliesInParam' /\ BoundApart' /\ EnabledLast' /\ KeyTells'
      /\ OnePending'
  BY DEF TplInv, Release, viewVars, madeVars, SlotHeld, EditsOwn, AppliesInParam, BoundApart,
         EnabledLast, KeyTells, OnePending
<1> QED
  BY <1>1, <1>2, <1>3 DEF TplInv

LEMMA SeedBuiltinsInv == ASSUME TplInv, SeedBuiltins PROVE TplInv'
<1>1. PICK r \in [live : BOOLEAN, src : Nat, ver : Nat] :
        /\ r = [live |-> TRUE, src |-> catalog, ver |-> tmpl["builtin"].ver + 1]
        /\ r.src = catalog /\ r.ver = tmpl["builtin"].ver + 1
  <2>1. tmpl["builtin"].ver + 1 \in Nat /\ catalog \in Nat /\ TRUE \in BOOLEAN
    BY DEF TplInv, TplType, Tpl
  <2>2. [live |-> TRUE, src |-> catalog, ver |-> tmpl["builtin"].ver + 1] \in [live : BOOLEAN, src : Nat, ver : Nat]
    BY <2>1, Zenon
  <2> QED
    BY <2>2
<1>2. /\ tmpl' \in [Tpl -> [live : BOOLEAN, src : Nat, ver : Nat]]
      /\ tmpl'["builtin"] = r /\ tmpl'["own"] = tmpl["own"]
  BY <1>1 DEF TplInv, TplType, SeedBuiltins, Tpl
<1>3. VersionIsSource'
  <2>1. \A t \in Tpl : \/ tmpl'[t].ver = tmpl[t].ver /\ tmpl'[t].src = tmpl[t].src
                       \/ tmpl'[t].ver = tmpl[t].ver + 1
    BY <1>1, <1>2 DEF Tpl
  <2> QED
    BY <2>1, RowsMove DEF SeedBuiltins, viewVars
<1>4. TplType' /\ BuiltinIsShipped' /\ catalog' \in released'
  BY <1>1, <1>2 DEF TplInv, TplType, SeedBuiltins, BuiltinIsShipped, viewVars, madeVars
<1>5. /\ SlotHeld' /\ EditsOwn' /\ AppliesInParam' /\ BoundApart' /\ EnabledLast' /\ KeyTells'
      /\ OnePending'
  BY DEF TplInv, SeedBuiltins, viewVars, madeVars, SlotHeld, EditsOwn, AppliesInParam, BoundApart,
         EnabledLast, KeyTells, OnePending
<1> QED
  BY <1>3, <1>4, <1>5 DEF TplInv

LEMMA PostTemplateInv == ASSUME TplInv, PostTemplate PROVE TplInv'
<1>1. PICK r \in [live : BOOLEAN, src : Nat, ver : Nat] :
        r = [live |-> TRUE, src |-> sources + 1, ver |-> 1] /\ r.ver = 1
  <2>1. sources + 1 \in Nat /\ 1 \in Nat /\ TRUE \in BOOLEAN
    BY DEF TplInv, TplType
  <2>2. [live |-> TRUE, src |-> sources + 1, ver |-> 1] \in [live : BOOLEAN, src : Nat, ver : Nat]
    BY <2>1, Zenon
  <2> QED
    BY <2>2
<1>2. /\ tmpl' \in [Tpl -> [live : BOOLEAN, src : Nat, ver : Nat]] /\ tmpl["own"].ver = 0
      /\ tmpl'["own"] = r /\ tmpl'["builtin"] = tmpl["builtin"]
  BY <1>1 DEF TplInv, TplType, PostTemplate, CreateTemplate, Tpl
<1>3. VersionIsSource'
  <2>1. \A t \in Tpl : \/ tmpl'[t].ver = tmpl[t].ver /\ tmpl'[t].src = tmpl[t].src
                       \/ tmpl'[t].ver = tmpl[t].ver + 1
    BY <1>1, <1>2 DEF Tpl
  <2> QED
    BY <2>1, RowsMove DEF PostTemplate, viewVars
<1>4. TplType' /\ BuiltinIsShipped' /\ catalog' \in released'
  BY <1>2 DEF TplInv, TplType, PostTemplate, BuiltinIsShipped, viewVars, madeVars
<1>5. /\ SlotHeld' /\ EditsOwn' /\ AppliesInParam' /\ BoundApart' /\ EnabledLast' /\ KeyTells'
      /\ OnePending'
  BY DEF TplInv, PostTemplate, viewVars, madeVars, SlotHeld, EditsOwn, AppliesInParam, BoundApart,
         EnabledLast, KeyTells, OnePending
<1> QED
  BY <1>3, <1>4, <1>5 DEF TplInv

LEMMA LoadMutableInv ==
  ASSUME TplInv, NEW e \in Editor, NEW t \in Tpl, NEW k \in {"update", "delete"}, LoadMutable(e, t, k)
  PROVE  TplInv'
<1>1. PICK x \in EditState : /\ x = [Resting EXCEPT !.pc = k, !.t = t] /\ x.pc = k /\ x.t = t
  <2>1. PICK b : b = Resting
    OBVIOUS
  <2>2. [b EXCEPT !.pc = k, !.t = t] \in EditState
    BY <2>1, RestingFacts DEF EditState
  <2>3. [b EXCEPT !.pc = k, !.t = t].pc = k /\ [b EXCEPT !.pc = k, !.t = t].t = t
    BY <2>1, RestingFacts DEF EditState
  <2> QED
    BY <2>1, <2>2, <2>3
<1>2. /\ editor' \in [Editor -> EditState]
      /\ EditsOwn' /\ AppliesInParam' /\ BoundApart' /\ EnabledLast'
  BY <1>1, EditorMoves DEF LoadMutable, madeVars
<1>3. TplType'
  BY <1>2 DEF TplInv, TplType, LoadMutable, viewVars, madeVars, NewJob
<1>4. VersionIsSource' /\ SlotHeld'
  BY RowsMove, ViewsStay DEF LoadMutable, viewVars
<1>5. BuiltinIsShipped' /\ catalog' \in released' /\ KeyTells' /\ OnePending'
  BY DEF TplInv, LoadMutable, BuiltinIsShipped, madeVars, KeyTells, OnePending
<1> QED
  BY <1>2, <1>3, <1>4, <1>5 DEF TplInv

LEMMA RestInv ==
  ASSUME TplInv, NEW e \in Editor, Rest(e), UNCHANGED faas
  PROVE  /\ editor' \in [Editor -> EditState]
         /\ EditsOwn' /\ AppliesInParam' /\ BoundApart' /\ EnabledLast'
<1>1. PICK x \in EditState : x = Resting /\ x.pc = "idle"
  BY RestingFacts
<1> QED
  BY <1>1, EditorMoves DEF Rest

LEMMA PutTemplateInv == ASSUME TplInv, NEW e \in Editor, PutTemplate(e) PROVE TplInv'
<1>1. editor[e].t = "own" /\ "own" \in Tpl
  <2>1. editor[e] \in EditState
    BY DEF TplInv, TplType
  <2> QED
    BY <2>1 DEF TplInv, EditsOwn, PutTemplate, EditState, Tpl
<1>2. /\ tmpl' \in [Tpl -> [live : BOOLEAN, src : Nat, ver : Nat]]
      /\ tmpl'["builtin"] = tmpl["builtin"]
      /\ \/ tmpl'["own"].ver = tmpl["own"].ver /\ tmpl'["own"].src = tmpl["own"].src
         \/ tmpl'["own"].ver = tmpl["own"].ver + 1
  <2>1. tmpl \in [Tpl -> [live : BOOLEAN, src : Nat, ver : Nat]] /\ sources + 1 \in Nat
    BY DEF TplInv, TplType
  <2>2. Update("own")
    BY <1>1 DEF PutTemplate
  <2>3. CASE tmpl["own"].live
    <3>1. tmpl' = [tmpl EXCEPT !["own"] = [[tmpl["own"] EXCEPT !.src = sources + 1]
                                             EXCEPT !.ver = tmpl["own"].ver + 1]]
      BY <1>1, <2>1, <2>2, <2>3 DEF Update
    <3>2. PICK r \in [live : BOOLEAN, src : Nat, ver : Nat] : r = tmpl["own"]
      BY <1>1, <2>1
    <3>3. PICK q : q = [[r EXCEPT !.src = sources + 1] EXCEPT !.ver = r.ver + 1]
      OBVIOUS
    <3>a. PICK n \in Nat, m \in Nat : n = r.ver + 1 /\ m = sources + 1
      BY <2>1
    <3>b. q = [[r EXCEPT !.src = m] EXCEPT !.ver = n]
      BY <3>3, <3>a
    <3>c. [[r EXCEPT !.src = m] EXCEPT !.ver = n] \in [live : BOOLEAN, src : Nat, ver : Nat]
      OBVIOUS
    <3>d. [[r EXCEPT !.src = m] EXCEPT !.ver = n].ver = n
      OBVIOUS
    <3>4. q \in [live : BOOLEAN, src : Nat, ver : Nat] /\ q.ver = r.ver + 1
      BY <3>a, <3>b, <3>c, <3>d
    <3>5. tmpl' = [tmpl EXCEPT !["own"] = q]
      BY <3>1, <3>2, <3>3
    <3> QED
      BY <1>1, <2>1, <3>2, <3>4, <3>5 DEF Tpl
  <2>4. CASE ~tmpl["own"].live
    <3>2. PICK r \in [live : BOOLEAN, src : Nat, ver : Nat] : r = tmpl["own"]
      BY <1>1, <2>1
    <3>1. tmpl' = [tmpl EXCEPT !["own"] = [[r EXCEPT !.src = r.src] EXCEPT !.ver = r.ver]]
      BY <1>1, <2>1, <2>2, <2>4, <3>2 DEF Update
    <3>3. [[r EXCEPT !.src = r.src] EXCEPT !.ver = r.ver] = r
      OBVIOUS
    <3> QED
      BY <1>1, <2>1, <3>1, <3>2, <3>3 DEF Tpl
  <2> QED
    BY <2>3, <2>4
<1>3. VersionIsSource'
  <2>1. \A t \in Tpl : \/ tmpl'[t].ver = tmpl[t].ver /\ tmpl'[t].src = tmpl[t].src
                       \/ tmpl'[t].ver = tmpl[t].ver + 1
    BY <1>2 DEF Tpl
  <2> QED
    BY <2>1, RowsMove DEF PutTemplate, viewVars
<1>4. /\ editor' \in [Editor -> EditState]
      /\ EditsOwn' /\ AppliesInParam' /\ BoundApart' /\ EnabledLast'
  BY RestInv DEF PutTemplate, madeVars
<1>5. TplType' /\ BuiltinIsShipped' /\ catalog' \in released'
  BY <1>2, <1>4 DEF TplInv, TplType, PutTemplate, BuiltinIsShipped, viewVars, madeVars
<1>6. SlotHeld' /\ KeyTells' /\ OnePending'
  BY DEF TplInv, PutTemplate, viewVars, madeVars, SlotHeld, KeyTells, OnePending
<1> QED
  BY <1>3, <1>4, <1>5, <1>6 DEF TplInv

LEMMA DropTemplateInv == ASSUME TplInv, NEW e \in Editor, DropTemplate(e) PROVE TplInv'
<1>1. editor[e].t = "own" /\ "own" \in Tpl
  <2>1. editor[e] \in EditState
    BY DEF TplInv, TplType
  <2> QED
    BY <2>1 DEF TplInv, EditsOwn, DropTemplate, EditState, Tpl
<1>2. /\ tmpl' \in [Tpl -> [live : BOOLEAN, src : Nat, ver : Nat]]
      /\ tmpl'["builtin"] = tmpl["builtin"]
      /\ tmpl'["own"].ver = tmpl["own"].ver /\ tmpl'["own"].src = tmpl["own"].src
  <2>1. tmpl \in [Tpl -> [live : BOOLEAN, src : Nat, ver : Nat]]
    BY DEF TplInv, TplType
  <2>2. PICK r \in [live : BOOLEAN, src : Nat, ver : Nat] : r = tmpl["own"]
    BY <1>1, <2>1
  <2>3. PICK q : q = [r EXCEPT !.live = FALSE]
    OBVIOUS
  <2>4. q \in [live : BOOLEAN, src : Nat, ver : Nat] /\ q.ver = r.ver /\ q.src = r.src
    BY <2>3
  <2>5. tmpl' = [tmpl EXCEPT !["own"] = q]
    BY <1>1, <2>2, <2>3 DEF DropTemplate, DeleteTemplate
  <2> QED
    BY <1>1, <2>1, <2>2, <2>4, <2>5 DEF Tpl
<1>3. VersionIsSource'
  <2>1. \A t \in Tpl : \/ tmpl'[t].ver = tmpl[t].ver /\ tmpl'[t].src = tmpl[t].src
                       \/ tmpl'[t].ver = tmpl[t].ver + 1
    BY <1>2 DEF Tpl
  <2>2. preview' \subseteq preview
    BY DEF DropTemplate, DeleteTemplate
  <2> QED
    BY <2>1, <2>2, RowsMove DEF DropTemplate
<1>4. /\ editor' \in [Editor -> EditState]
      /\ EditsOwn' /\ AppliesInParam' /\ BoundApart' /\ EnabledLast'
  BY RestInv DEF DropTemplate, madeVars
<1>5. TplType' /\ BuiltinIsShipped' /\ catalog' \in released'
  BY <1>2, <1>4 DEF TplInv, TplType, DropTemplate, DeleteTemplate, BuiltinIsShipped, madeVars
<1>6. SlotHeld' /\ KeyTells' /\ OnePending'
  BY DEF TplInv, DropTemplate, madeVars, SlotHeld, KeyTells, OnePending
<1> QED
  BY <1>3, <1>4, <1>5, <1>6 DEF TplInv

-----------------------------------------------------------------------------

\* What the previews do leaves the rows, the edits and the commands alone.
LEMMA ViewStep ==
  ASSUME TplInv, viewer' \in [Viewer -> Seen], sem' \in {0, 1},
         preview' \in SUBSET Picture, served' \in SUBSET Picture, VersionIsSource', SlotHeld',
         UNCHANGED <<tmpl, catalog, sources, released, editor, madeVars>>
  PROVE  TplInv'
<1>1. TplType'
  BY DEF TplInv, TplType, madeVars
<1>2. /\ BuiltinIsShipped' /\ catalog' \in released' /\ EditsOwn' /\ AppliesInParam' /\ BoundApart'
      /\ EnabledLast' /\ KeyTells' /\ OnePending'
  BY DEF TplInv, BuiltinIsShipped, EditsOwn, AppliesInParam, BoundApart, EnabledLast, KeyTells,
         OnePending, madeVars
<1> QED
  BY <1>1, <1>2 DEF TplInv

\* A viewer that holds no slot moves to one that holds none.
LEMMA SlotStays ==
  ASSUME TplInv, NEW v \in Viewer, NEW x \in Seen, viewer' = [viewer EXCEPT ![v] = x],
         viewer[v].pc # "render", x.pc # "render", UNCHANGED sem
  PROVE  /\ viewer' \in [Viewer -> Seen] /\ viewer'[v] = x /\ SlotHeld'
         /\ \A w \in Viewer \ {v} : viewer'[w] = viewer[w]
<1>1. /\ viewer' \in [Viewer -> Seen] /\ viewer'[v] = x
      /\ \A w \in Viewer \ {v} : viewer'[w] = viewer[w]
  BY DEF TplInv, TplType
<1>2. \A w \in Viewer : viewer'[w].pc = "render" <=> viewer[w].pc = "render"
  BY <1>1
<1>3. SlotHeld'
  BY <1>2 DEF TplInv, SlotHeld
<1> QED
  BY <1>1, <1>3

LEMMA LoadTemplateInv ==
  ASSUME TplInv, NEW v \in Viewer, NEW t \in Tpl, LoadTemplate(v, t) PROVE TplInv'
<1>1. PICK x \in Seen :
        /\ x = [pc |-> "cache", t |-> t, src |-> tmpl[t].src, ver |-> tmpl[t].ver]
        /\ x.pc = "cache" /\ x.t = t /\ x.src = tmpl[t].src /\ x.ver = tmpl[t].ver
  <2>1. PICK m \in Nat, n \in Nat : m = tmpl[t].src /\ n = tmpl[t].ver
    BY DEF TplInv, TplType
  <2>2. [pc |-> "cache", t |-> t, src |-> m, ver |-> n] \in Seen
    BY DEF Seen
  <2> QED
    BY <2>1, <2>2
<1>2. /\ viewer' \in [Viewer -> Seen] /\ viewer'[v] = x /\ SlotHeld'
      /\ \A w \in Viewer \ {v} : viewer'[w] = viewer[w]
  BY <1>1, SlotStays DEF LoadTemplate
<1>3. VersionIsSource'
  <2>1. \A a \in Shots' : a \in Shots \/ a = <<t, tmpl[t].ver, tmpl[t].src>>
    <3> SUFFICES ASSUME NEW a \in Shots' PROVE a \in Shots \/ a = <<t, tmpl[t].ver, tmpl[t].src>>
      OBVIOUS
    <3>1. CASE a \in preview \cup served
      BY <3>1 DEF Shots
    <3>2. CASE \E w \in Viewer : viewer'[w].pc # "idle" /\ a = InHandOf(w)'
      <4>1. PICK w \in Viewer : viewer'[w].pc # "idle" /\ a = InHandOf(w)'
        BY <3>2
      <4>2. CASE w = v
        BY <1>1, <1>2, <4>1, <4>2 DEF InHandOf
      <4>3. CASE w # v
        BY <1>2, <4>1, <4>3 DEF InHandOf, Shots
      <4> QED
        BY <4>2, <4>3
    <3> QED
      BY <3>1, <3>2 DEF Shots, LoadTemplate
  <2> QED
    BY <2>1, ShotsMove DEF LoadTemplate
<1> QED
  BY <1>2, <1>3, ViewStep DEF LoadTemplate, TplInv, TplType

\* A viewer goes on with what it holds, or with nothing, and what it holds may be stored.
LEMMA SameShots ==
  ASSUME TplInv, NEW v \in Viewer, viewer' \in [Viewer -> Seen],
         \A w \in Viewer \ {v} : viewer'[w] = viewer[w], viewer[v].pc # "idle",
         \/ viewer'[v].pc = "idle"
         \/ viewer'[v].t = viewer[v].t /\ viewer'[v].src = viewer[v].src /\ viewer'[v].ver = viewer[v].ver,
         preview' \subseteq preview \cup {InHandOf(v)},
         served' \subseteq served \cup preview \cup {InHandOf(v)},
         UNCHANGED tmpl
  PROVE  VersionIsSource'
<1>1. InHandOf(v) \in Shots
  BY DEF Shots
<1>2. Shots' \subseteq Shots
  <2> SUFFICES ASSUME NEW a \in Shots' PROVE a \in Shots
    OBVIOUS
  <2>1. CASE a \in preview' \cup served'
    BY <1>1, <2>1 DEF Shots
  <2>2. CASE \E w \in Viewer : viewer'[w].pc # "idle" /\ a = InHandOf(w)'
    <3>1. PICK w \in Viewer : viewer'[w].pc # "idle" /\ a = InHandOf(w)'
      BY <2>2
    <3>2. CASE w = v
      BY <1>1, <3>1, <3>2 DEF InHandOf
    <3>3. CASE w # v
      BY <3>1, <3>3 DEF InHandOf, Shots
    <3> QED
      BY <3>2, <3>3
  <2> QED
    BY <2>1, <2>2 DEF Shots
<1> QED
  BY <1>2, ShotsMove

LEMMA HeldIsPicture == ASSUME TplInv, NEW v \in Viewer PROVE InHandOf(v) \in Picture
<1>1. viewer[v] \in Seen
  BY DEF TplInv, TplType
<1> QED
  BY <1>1 DEF InHandOf, Picture, Seen

\* A viewer's record with another pc.
LEMMA PcMoves ==
  ASSUME NEW y \in Seen, NEW s \in {"slot", "render", "store"}
  PROVE  /\ [y EXCEPT !.pc = s] \in Seen /\ [y EXCEPT !.pc = s].pc = s
         /\ [y EXCEPT !.pc = s].t = y.t /\ [y EXCEPT !.pc = s].src = y.src
         /\ [y EXCEPT !.pc = s].ver = y.ver
BY DEF Seen

LEMMA LoadPreviewInv == ASSUME TplInv, NEW v \in Viewer, LoadPreview(v) PROVE TplInv'
<1>1. viewer[v] \in Seen /\ viewer[v].pc = "cache"
  BY DEF TplInv, TplType, LoadPreview
<1>2. PICK x \in Seen :
        /\ viewer' = [viewer EXCEPT ![v] = x] /\ x.pc # "render"
        /\ \/ x.pc = "idle"
           \/ x.t = viewer[v].t /\ x.src = viewer[v].src /\ x.ver = viewer[v].ver
  <2>1. CASE viewer' = [viewer EXCEPT ![v] = Watching]
    BY <2>1, RestingFacts
  <2>2. CASE viewer' = [viewer EXCEPT ![v].pc = "slot"]
    <3>1. viewer' = [viewer EXCEPT ![v] = [viewer[v] EXCEPT !.pc = "slot"]]
      BY <2>2
    <3>2. PICK y \in Seen : y = viewer[v]
      BY <1>1
    <3>3. PICK x \in Seen : /\ x = [y EXCEPT !.pc = "slot"] /\ x.pc = "slot"
                            /\ x.t = y.t /\ x.src = y.src /\ x.ver = y.ver
      BY PcMoves
    <3> QED
      BY <3>1, <3>2, <3>3
  <2> QED
    BY <2>1, <2>2 DEF LoadPreview
<1>3. /\ viewer' \in [Viewer -> Seen] /\ viewer'[v] = x /\ SlotHeld'
      /\ \A w \in Viewer \ {v} : viewer'[w] = viewer[w]
  BY <1>1, <1>2, SlotStays DEF LoadPreview
<1>4. served' \subseteq served \cup preview /\ preview' = preview /\ sem' = sem
  BY DEF LoadPreview
<1>5. VersionIsSource'
  BY <1>1, <1>2, <1>3, <1>4, SameShots DEF LoadPreview
<1>6. served' \in SUBSET Picture /\ preview' \in SUBSET Picture /\ sem' \in {0, 1}
  BY <1>4 DEF TplInv, TplType
<1> QED
  BY <1>3, <1>5, <1>6, ViewStep DEF LoadPreview

LEMMA ProduceInv == ASSUME TplInv, NEW v \in Viewer, Produce(v) PROVE TplInv'
<1>1. viewer[v] \in Seen /\ viewer[v].pc = "slot"
  BY DEF TplInv, TplType, Produce
<1>2. PICK x \in Seen : /\ viewer' = [viewer EXCEPT ![v] = x] /\ x.pc = "render"
                        /\ x.t = viewer[v].t /\ x.src = viewer[v].src /\ x.ver = viewer[v].ver
  <2>1. viewer' = [viewer EXCEPT ![v] = [viewer[v] EXCEPT !.pc = "render"]]
    BY DEF Produce
  <2>2. PICK y \in Seen : y = viewer[v]
    BY <1>1
  <2>3. PICK x \in Seen : /\ x = [y EXCEPT !.pc = "render"] /\ x.pc = "render"
                          /\ x.t = y.t /\ x.src = y.src /\ x.ver = y.ver
    BY PcMoves
  <2> QED
    BY <2>1, <2>2, <2>3
<1>3. /\ viewer' \in [Viewer -> Seen] /\ viewer'[v] = x
      /\ \A w \in Viewer \ {v} : viewer'[w] = viewer[w]
  BY <1>2 DEF TplInv, TplType
<1>4. SlotHeld'
  <2>1. \A w \in Viewer : viewer[w].pc # "render"
    BY DEF Produce, TplInv, SlotHeld
  <2> QED
    BY <1>2, <1>3, <2>1 DEF SlotHeld, Produce
<1>5. VersionIsSource'
  BY <1>1, <1>2, <1>3, SameShots DEF Produce
<1>6. served' \in SUBSET Picture /\ preview' \in SUBSET Picture /\ sem' \in {0, 1}
  BY DEF TplInv, TplType, Produce
<1> QED
  BY <1>3, <1>4, <1>5, <1>6, ViewStep DEF Produce

LEMMA RenderedInv ==
  ASSUME TplInv, NEW v \in Viewer, NEW ok \in BOOLEAN, Rendered(v, ok) PROVE TplInv'
<1>1. viewer[v] \in Seen /\ viewer[v].pc = "render"
  BY DEF TplInv, TplType, Rendered
<1>2. PICK x \in Seen :
        /\ viewer' = [viewer EXCEPT ![v] = x] /\ x.pc # "render"
        /\ \/ x.pc = "idle"
           \/ x.t = viewer[v].t /\ x.src = viewer[v].src /\ x.ver = viewer[v].ver
  <2>1. CASE ~ok
    BY <2>1, RestingFacts DEF Rendered
  <2>2. CASE ok
    <3>1. viewer' = [viewer EXCEPT ![v] = [viewer[v] EXCEPT !.pc = "store"]]
      BY <2>2 DEF Rendered
    <3>2. PICK y \in Seen : y = viewer[v]
      BY <1>1
    <3>3. PICK x \in Seen : /\ x = [y EXCEPT !.pc = "store"] /\ x.pc = "store"
                            /\ x.t = y.t /\ x.src = y.src /\ x.ver = y.ver
      BY PcMoves
    <3> QED
      BY <3>1, <3>2, <3>3
  <2> QED
    BY <2>1, <2>2
<1>3. /\ viewer' \in [Viewer -> Seen] /\ viewer'[v] = x
      /\ \A w \in Viewer \ {v} : viewer'[w] = viewer[w]
  BY <1>2 DEF TplInv, TplType
<1>4. SlotHeld'
  <2>1. \A w \in Viewer \ {v} : viewer[w].pc # "render"
    BY <1>1 DEF TplInv, SlotHeld
  <2>2. \A w \in Viewer : viewer'[w].pc # "render"
    BY <1>2, <1>3, <2>1
  <2> QED
    BY <2>2 DEF SlotHeld, Rendered
<1>5. VersionIsSource'
  BY <1>1, <1>2, <1>3, SameShots DEF Rendered
<1>6. served' \in SUBSET Picture /\ preview' \in SUBSET Picture /\ sem' \in {0, 1}
  BY DEF TplInv, TplType, Rendered
<1> QED
  BY <1>3, <1>4, <1>5, <1>6, ViewStep DEF Rendered

LEMMA StorePreviewInv ==
  ASSUME TplInv, NEW v \in Viewer, NEW ok \in BOOLEAN, StorePreview(v, ok) PROVE TplInv'
<1>1. viewer[v] \in Seen /\ viewer[v].pc = "store"
  BY DEF TplInv, TplType, StorePreview
<1>2. PICK x \in Seen : viewer' = [viewer EXCEPT ![v] = x] /\ x.pc = "idle"
  BY RestingFacts DEF StorePreview
<1>3. /\ viewer' \in [Viewer -> Seen] /\ viewer'[v] = x /\ SlotHeld'
      /\ \A w \in Viewer \ {v} : viewer'[w] = viewer[w]
  BY <1>1, <1>2, SlotStays DEF StorePreview
<1>4. /\ preview' \subseteq preview \cup {InHandOf(v)} /\ served' = served \cup {InHandOf(v)}
      /\ sem' = sem
  BY DEF StorePreview, InHandOf
<1>5. VersionIsSource'
  BY <1>1, <1>2, <1>3, <1>4, SameShots DEF StorePreview
<1>6. served' \in SUBSET Picture /\ preview' \in SUBSET Picture /\ sem' \in {0, 1}
  BY <1>4, HeldIsPicture DEF TplInv, TplType
<1> QED
  BY <1>3, <1>5, <1>6, ViewStep DEF StorePreview

-----------------------------------------------------------------------------

Made == [live : BOOLEAN, base : Param \cup {0}, num : Nat, on : BOOLEAN]

\* What an apply does leaves the rows and the previews alone.
LEMMA ApplyStep ==
  ASSUME TplInv, UNCHANGED <<tmpl, catalog, sources, released, viewVars>>,
         editor' \in [Editor -> EditState], faas' \in [FnId -> Made],
         EditsOwn', AppliesInParam', BoundApart', EnabledLast',
         \/ UNCHANGED <<queue, seqs>>
         \/ /\ seqs' \in Nat /\ KeyTells' /\ OnePending'
            /\ queue' \in SUBSET [serial : Panels, key : Tpl \X (Param \cup {0}), tp : Tpl,
                                  p : Param \cup {0}, seq : Nat]
  PROVE  TplInv'
<1>1. VersionIsSource' /\ SlotHeld'
  BY RowsMove, ViewsStay DEF viewVars
<1>2. KeyTells' /\ OnePending'
  BY DEF TplInv, KeyTells, OnePending
<1>3. TplType'
  BY DEF TplInv, TplType, viewVars, Made
<1>4. BuiltinIsShipped' /\ catalog' \in released'
  BY DEF TplInv, BuiltinIsShipped
<1> QED
  BY <1>1, <1>2, <1>3, <1>4 DEF TplInv

LEMMA ApplyInv ==
  ASSUME TplInv, NEW e \in Editor, NEW t \in Tpl, NEW kind \in {"berry", "render"}, NEW p \in Param,
         NEW T \in SUBSET Panels, Apply(e, t, kind, p, T)
  PROVE  TplInv'
<1>1. PICK s \in {"enqueue", "create"}, m \in Nat :
        s = (IF kind = "berry" THEN "enqueue" ELSE "create") /\ m = tmpl[t].src
  BY DEF TplInv, TplType
<1>2. PICK b : b = Resting /\ b \in EditState
  BY RestingFacts
<1>3. PICK x : x = [b EXCEPT !.pc = s, !.kind = kind, !.t = t, !.src = m, !.p = p, !.num = 1, !.todo = T]
  OBVIOUS
<1>4. x \in EditState /\ x.pc = s /\ x.p = p
  BY <1>2, <1>3 DEF EditState
<1>5. editor' = [editor EXCEPT ![e] = x]
  BY <1>1, <1>2, <1>3 DEF Apply
<1>6. UNCHANGED <<tmpl, catalog, sources, released, viewVars, faas, queue, seqs>>
  BY DEF Apply, madeVars
<1>7. /\ editor' \in [Editor -> EditState]
      /\ EditsOwn' /\ AppliesInParam' /\ BoundApart' /\ EnabledLast'
  BY <1>4, <1>5, <1>6, EditorMoves, TplAssumption
<1> QED
  BY <1>6, <1>7, ApplyStep DEF TplInv, TplType, Made

LEMMA CreateRenderFnInv ==
  ASSUME TplInv, NEW e \in Editor, NEW explicit \in BOOLEAN, CreateRenderFn(e, explicit)
  PROVE  TplInv'
<1>1. PICK y \in EditState : y = editor[e] /\ y.pc = "create" /\ y.p # 0
  BY DEF TplInv, TplType, AppliesInParam, CreateRenderFn
<1>2. UNCHANGED <<tmpl, catalog, sources, released, viewVars, queue, seqs>>
  BY DEF CreateRenderFn
<1>3. CASE Taken(y.p, y.num)
  <2>1. UNCHANGED faas
    BY <1>1, <1>3 DEF CreateRenderFn
  <2>2. PICK x \in EditState : /\ editor' = [editor EXCEPT ![e] = x]
                               /\ x.pc = "idle" \/ (x.pc = "create" /\ x.p = y.p)
    <3>1. CASE editor' = [editor EXCEPT ![e] = Resting]
      BY <3>1, RestingFacts
    <3>2. CASE editor' = [editor EXCEPT ![e] = [editor[e] EXCEPT !.num = y.num + 1]]
      <4>1. PICK m \in Nat : m = y.num + 1
        BY DEF EditState
      <4>2. PICK x : x = [y EXCEPT !.num = m]
        OBVIOUS
      <4>3. x \in EditState /\ x.pc = y.pc /\ x.p = y.p
        BY <4>2 DEF EditState
      <4> QED
        BY <1>1, <3>2, <4>1, <4>2, <4>3
    <3> QED
      BY <1>1, <1>3, <3>1, <3>2 DEF CreateRenderFn
  <2>3. /\ editor' \in [Editor -> EditState]
        /\ EditsOwn' /\ AppliesInParam' /\ BoundApart' /\ EnabledLast'
    BY <1>1, <2>1, <2>2, EditorMoves
  <2> QED
    BY <1>2, <2>1, <2>3, ApplyStep DEF TplInv, TplType, Made
<1>4. CASE ~Taken(y.p, y.num)
  <2>1. PICK f \in FnId :
          /\ faas[f].base = 0
          /\ faas' = [faas EXCEPT ![f] = [live |-> TRUE, base |-> y.p, num |-> y.num, on |-> FALSE]]
          /\ editor' = [editor EXCEPT ![e].pc = "bind", ![e].id = f]
    BY <1>1, <1>4 DEF CreateRenderFn
  <2>2. PICK x : x = [[y EXCEPT !.pc = "bind"] EXCEPT !.id = f]
    OBVIOUS
  <2>3. x \in EditState /\ x.pc = "bind" /\ x.id = f
    <3>1. f \in 0..MaxFn
      BY TplAssumption DEF FnId
    <3> QED
      BY <2>2, <3>1 DEF EditState
  <2>4. editor' = [editor EXCEPT ![e] = x]
    BY <1>1, <2>1, <2>2 DEF TplInv, TplType
  <2>5. /\ editor' \in [Editor -> EditState] /\ editor'[e] = x
        /\ \A g \in Editor \ {e} : editor'[g] = editor[g]
    BY <2>3, <2>4 DEF TplInv, TplType
  <2>6. PICK z \in Made : /\ z = [live |-> TRUE, base |-> y.p, num |-> y.num, on |-> FALSE]
                          /\ z.base = y.p /\ z.on = FALSE
    <3>1. y.p \in Param \cup {0} /\ y.num \in Nat /\ TRUE \in BOOLEAN /\ FALSE \in BOOLEAN
      BY DEF EditState
    <3>2. [live |-> TRUE, base |-> y.p, num |-> y.num, on |-> FALSE] \in Made
      BY <3>1, Zenon DEF Made
    <3> QED
      BY <3>2
  <2>7. /\ faas' \in [FnId -> Made] /\ faas'[f] = z /\ \A h \in FnId \ {f} : faas'[h] = faas[h]
    BY <2>1, <2>6 DEF TplInv, TplType, Made
  <2>8. EditsOwn' /\ AppliesInParam'
    BY <2>3, <2>5 DEF TplInv, EditsOwn, AppliesInParam
  <2>9. \A g \in Editor \ {e} : editor[g].pc = "bind" =>
          editor[g].id \in FnId \ {f} /\ faas[editor[g].id].base # 0
    BY <2>1 DEF TplInv, BoundApart
  <2>10. BoundApart'
    <3> SUFFICES ASSUME NEW g \in Editor, editor'[g].pc = "bind"
                 PROVE  /\ editor'[g].id \in FnId /\ faas'[editor'[g].id].base # 0
                        /\ \A h \in Editor \ {g} : editor'[h].pc = "bind" =>
                             editor'[h].id # editor'[g].id
      BY DEF BoundApart
    <3>1. CASE g = e
      BY <1>1, <2>3, <2>5, <2>6, <2>7, <2>9, <3>1
    <3>2. CASE g # e
      <4>1. editor[g].pc = "bind" /\ editor'[g] = editor[g]
        BY <2>5, <3>2
      <4>2. editor[g].id \in FnId \ {f} /\ faas'[editor[g].id].base # 0
        BY <2>7, <2>9, <3>2, <4>1
      <4>3. ASSUME NEW h \in Editor \ {g}, editor'[h].pc = "bind" PROVE editor'[h].id # editor'[g].id
        <5>1. CASE h = e
          BY <2>3, <2>5, <4>1, <4>2, <5>1
        <5>2. CASE h # e
          BY <2>5, <4>1, <4>3, <5>2 DEF TplInv, BoundApart
        <5> QED
          BY <5>1, <5>2
      <4> QED
        BY <4>1, <4>2, <4>3
    <3> QED
      BY <3>1, <3>2
  <2>11. EnabledLast'
    <3> SUFFICES ASSUME NEW h \in FnId, faas'[h].on, NEW g \in Editor, editor'[g].pc = "bind"
                 PROVE  editor'[g].id # h
      BY DEF EnabledLast
    <3>1. h # f /\ faas[h].on
      BY <2>6, <2>7
    <3>2. CASE g = e
      BY <2>3, <2>5, <3>1, <3>2
    <3>3. CASE g # e
      BY <2>5, <3>1, <3>3 DEF TplInv, EnabledLast
    <3> QED
      BY <3>2, <3>3
  <2> QED
    BY <1>2, <2>5, <2>7, <2>8, <2>10, <2>11, ApplyStep
<1> QED
  BY <1>3, <1>4

LEMMA BindEachInv ==
  ASSUME TplInv, NEW e \in Editor, NEW d \in Panels, NEW bad \in BOOLEAN, BindEach(e, d, bad)
  PROVE  TplInv'
<1>1. PICK y \in EditState : y = editor[e] /\ y.pc = "bind"
  BY DEF TplInv, TplType, BindEach
<1>2. UNCHANGED <<tmpl, catalog, sources, released, viewVars, faas, queue, seqs>>
  BY DEF BindEach
<1>3. PICK x \in EditState : /\ editor' = [editor EXCEPT ![e] = x]
                             /\ x.pc = "idle" \/ (x.pc = "bind" /\ x.id = y.id)
  <2>1. CASE bad
    BY <2>1, RestingFacts DEF BindEach
  <2>2. CASE ~bad
    <3>1. PICK T \in SUBSET Panels : T = y.todo \ {d}
      BY DEF EditState
    <3>2. PICK x : x = [y EXCEPT !.todo = T]
      OBVIOUS
    <3>3. x \in EditState /\ x.pc = y.pc /\ x.id = y.id
      BY <3>2 DEF EditState
    <3>b. PICK w : w = [editor[e] EXCEPT !.todo = editor[e].todo \ {d}]
      OBVIOUS
    <3>c. editor' = [editor EXCEPT ![e] = IF bad THEN Resting ELSE w]
      BY <3>b DEF BindEach
    <3>a. editor' = [editor EXCEPT ![e] = w]
      BY <2>2, <3>c
    <3>4. editor' = [editor EXCEPT ![e] = x]
      BY <1>1, <3>1, <3>2, <3>a, <3>b
    <3> QED
      BY <1>1, <3>3, <3>4
  <2> QED
    BY <2>1, <2>2
<1>4. /\ editor' \in [Editor -> EditState]
      /\ EditsOwn' /\ AppliesInParam' /\ BoundApart' /\ EnabledLast'
  BY <1>1, <1>2, <1>3, EditorMoves
<1> QED
  BY <1>2, <1>4, ApplyStep DEF TplInv, TplType, Made

LEMMA ApplyEnableInv ==
  ASSUME TplInv, NEW e \in Editor, NEW enable \in BOOLEAN, ApplyEnable(e, enable) PROVE TplInv'
<1>1. PICK f \in FnId : f = editor[e].id /\ editor[e].pc = "bind" /\ faas[f].base # 0
  BY DEF TplInv, BoundApart, ApplyEnable
<1>2. PICK u \in BOOLEAN : u = (enable /\ faas[f].live)
  BY Zenon
<1>3. PICK z \in Made : z = [faas[f] EXCEPT !.on = u] /\ z.base = faas[f].base
  <2>1. PICK r \in Made : r = faas[f]
    BY DEF TplInv, TplType, Made
  <2>2. [r EXCEPT !.on = u] \in Made /\ [r EXCEPT !.on = u].base = r.base
    BY DEF Made
  <2> QED
    BY <2>1, <2>2
<1>4. /\ faas' \in [FnId -> Made] /\ faas'[f] = z /\ \A h \in FnId \ {f} : faas'[h] = faas[h]
  BY <1>1, <1>2, <1>3 DEF ApplyEnable, TplInv, TplType, Made
<1>5. /\ editor' \in [Editor -> EditState] /\ editor'[e].pc = "idle"
      /\ \A g \in Editor \ {e} : editor'[g] = editor[g]
  BY RestingFacts DEF ApplyEnable, Rest, TplInv, TplType
<1>6. EditsOwn' /\ AppliesInParam'
  BY <1>5 DEF TplInv, EditsOwn, AppliesInParam
<1>7. \A h \in FnId : faas'[h].base = faas[h].base
  BY <1>3, <1>4
<1>8. \A g \in Editor : editor'[g].pc = "bind" => g # e /\ editor'[g] = editor[g]
  BY <1>5
<1>9. BoundApart'
  BY <1>7, <1>8 DEF TplInv, BoundApart
<1>10. EnabledLast'
  <2> SUFFICES ASSUME NEW h \in FnId, faas'[h].on, NEW g \in Editor, editor'[g].pc = "bind"
               PROVE  editor'[g].id # h
    BY DEF EnabledLast
  <2>1. CASE h = f
    BY <1>1, <1>8, <2>1 DEF TplInv, BoundApart
  <2>2. CASE h # f
    BY <1>4, <1>8, <2>2 DEF TplInv, EnabledLast
  <2> QED
    BY <2>1, <2>2
<1> QED
  BY <1>4, <1>5, <1>6, <1>9, <1>10, ApplyStep DEF ApplyEnable

LEMMA DropFunctionInv == ASSUME TplInv, NEW f \in FnId, DropFunction(f) PROVE TplInv'
<1>1. PICK r \in Made : r = faas[f]
  BY DEF TplInv, TplType, Made
<1>2. PICK z : z = [[r EXCEPT !.live = FALSE] EXCEPT !.on = FALSE]
  OBVIOUS
<1>3. z \in Made /\ z.base = r.base /\ z.on = FALSE
  BY <1>2 DEF Made
<1>4. faas' = [faas EXCEPT ![f] = z]
  BY <1>1, <1>2 DEF DropFunction, TplInv, TplType
<1>5. /\ faas' \in [FnId -> Made] /\ faas'[f] = z /\ \A h \in FnId \ {f} : faas'[h] = faas[h]
  BY <1>3, <1>4 DEF TplInv, TplType, Made
<1>6. \A h \in FnId : faas'[h].base = faas[h].base /\ (faas'[h].on => faas[h].on)
  BY <1>1, <1>3, <1>5
<1>a. editor' = editor
  BY DEF DropFunction
<1>b. BoundApart'
  BY <1>6, <1>a DEF TplInv, BoundApart
<1>c. EnabledLast'
  BY <1>6, <1>a DEF TplInv, EnabledLast
<1>7. BoundApart' /\ EnabledLast'
  BY <1>b, <1>c
<1>8. editor' \in [Editor -> EditState] /\ EditsOwn' /\ AppliesInParam'
  BY DEF TplInv, TplType, EditsOwn, AppliesInParam, DropFunction
<1> QED
  BY <1>5, <1>7, <1>8, ApplyStep DEF DropFunction

LEMMA ApplyBerryInv ==
  ASSUME TplInv, NEW e \in Editor, NEW d \in Panels, NEW bad \in BOOLEAN, ApplyBerry(e, d, bad)
  PROVE  TplInv'
<1>1. PICK y \in EditState : y = editor[e] /\ y.pc = "enqueue"
  BY DEF TplInv, TplType, ApplyBerry
<1>2. UNCHANGED <<tmpl, catalog, sources, released, viewVars, faas>>
  BY DEF ApplyBerry
<1>3. PICK x \in EditState : /\ editor' = [editor EXCEPT ![e] = x]
                             /\ x.pc \in {"idle", "enqueue"}
  <2>1. CASE bad \/ editor[e].todo = {d}
    BY <2>1, RestingFacts DEF ApplyBerry
  <2>2. CASE ~(bad \/ editor[e].todo = {d})
    <3>1. PICK T \in SUBSET Panels : T = y.todo \ {d}
      BY DEF EditState
    <3>2. PICK x : x = [y EXCEPT !.todo = T]
      OBVIOUS
    <3>3. x \in EditState /\ x.pc = y.pc
      BY <3>2 DEF EditState
    <3>b. PICK w : w = [editor[e] EXCEPT !.todo = editor[e].todo \ {d}]
      OBVIOUS
    <3>c. editor' = [editor EXCEPT ![e] = IF bad \/ editor[e].todo = {d} THEN Resting ELSE w]
      BY <3>b DEF ApplyBerry
    <3>a. editor' = [editor EXCEPT ![e] = w]
      BY <2>2, <3>c
    <3>4. editor' = [editor EXCEPT ![e] = x]
      BY <1>1, <3>1, <3>2, <3>a, <3>b
    <3> QED
      BY <1>1, <3>3, <3>4
  <2> QED
    BY <2>1, <2>2
<1>4. /\ editor' \in [Editor -> EditState]
      /\ EditsOwn' /\ AppliesInParam' /\ BoundApart' /\ EnabledLast'
  BY <1>1, <1>2, <1>3, EditorMoves
<1>5. CASE UNCHANGED <<queue, seqs>>
  BY <1>2, <1>4, <1>5, ApplyStep DEF TplInv, TplType, Made
<1>6. CASE ~UNCHANGED <<queue, seqs>>
  <2> DEFINE c == [serial |-> d, key |-> <<y.t, y.p>>, tp |-> y.t, p |-> y.p, seq |-> seqs + 1]
  <2>1. /\ queue' = queue \cup {c} /\ seqs' = seqs + 1
        /\ \A q \in queue : ~(q.serial = d /\ q.key = <<y.t, y.p>>)
    BY <1>1, <1>6 DEF ApplyBerry, DeriveIdempotencyKey
  <2>2. c \in [serial : Panels, key : Tpl \X (Param \cup {0}), tp : Tpl, p : Param \cup {0}, seq : Nat]
    BY DEF EditState, TplInv, TplType
  <2>3. c.serial = d /\ c.key = <<y.t, y.p>> /\ c.tp = y.t /\ c.p = y.p
    OBVIOUS
  <2> HIDE DEF c
  <2>4. KeyTells'
    BY <2>1, <2>3 DEF TplInv, KeyTells
  <2>5. OnePending'
    <3>1. \A q \in queue : ~(q.serial = c.serial /\ q.tp = c.tp /\ q.p = c.p)
      BY <2>1, <2>3 DEF TplInv, KeyTells
    <3> QED
      BY <2>1, <3>1 DEF TplInv, OnePending
  <2>6. seqs' \in Nat
    BY <2>1 DEF TplInv, TplType
  <2>7. queue' \in SUBSET [serial : Panels, key : Tpl \X (Param \cup {0}), tp : Tpl,
                           p : Param \cup {0}, seq : Nat]
    BY <2>1, <2>2 DEF TplInv, TplType
  <2>8. faas' \in [FnId -> Made]
    BY <1>2 DEF TplInv, TplType, Made
  <2> QED
    BY <1>2, <1>4, <2>4, <2>5, <2>6, <2>7, <2>8, ApplyStep
<1> QED
  BY <1>5, <1>6

LEMMA AckedInv == ASSUME TplInv, NEW q \in queue, Acked(q) PROVE TplInv'
<1>1. queue' \subseteq queue
  BY DEF Acked
<1>2. KeyTells' /\ OnePending'
  BY <1>1 DEF TplInv, KeyTells, OnePending
<1>3. /\ editor' \in [Editor -> EditState] /\ faas' \in [FnId -> Made]
      /\ EditsOwn' /\ AppliesInParam' /\ BoundApart' /\ EnabledLast'
  BY DEF TplInv, TplType, Made, Acked, EditsOwn, AppliesInParam, BoundApart, EnabledLast
<1>4. seqs' \in Nat /\ queue' \in SUBSET [serial : Panels, key : Tpl \X (Param \cup {0}), tp : Tpl,
                                          p : Param \cup {0}, seq : Nat]
  BY <1>1 DEF TplInv, TplType, Acked
<1> QED
  BY <1>2, <1>3, <1>4, ApplyStep DEF Acked

LEMMA TplInvNext == TplInv /\ [TplNext]_tplVars => TplInv'
<1> SUFFICES ASSUME TplInv, [TplNext]_tplVars PROVE TplInv'
  OBVIOUS
<1>1. CASE Release \/ SeedBuiltins \/ PostTemplate
  BY <1>1, ReleaseInv, SeedBuiltinsInv, PostTemplateInv
<1>2. CASE \E e \in Editor, t \in Tpl : \E k \in {"update", "delete"} : LoadMutable(e, t, k)
  BY <1>2, LoadMutableInv
<1>3. CASE \E e \in Editor, t \in Tpl : \E k \in {"berry", "render"}, p \in Param, T \in SUBSET Panels :
             Apply(e, t, k, p, T)
  BY <1>3, ApplyInv
<1>4. CASE \E v \in Viewer, t \in Tpl : LoadTemplate(v, t)
  BY <1>4, LoadTemplateInv
<1>5. CASE \E v \in Viewer : LoadPreview(v) \/ Produce(v)
  BY <1>5, LoadPreviewInv, ProduceInv
<1>6. CASE \E v \in Viewer, ok \in BOOLEAN : Rendered(v, ok) \/ StorePreview(v, ok)
  BY <1>6, RenderedInv, StorePreviewInv
<1>7. CASE \E e \in Editor : EditorStep(e)
  BY <1>7, PutTemplateInv, DropTemplateInv, CreateRenderFnInv, ApplyEnableInv, BindEachInv,
     ApplyBerryInv DEF EditorStep
<1>8. CASE \E f \in FnId : DropFunction(f)
  BY <1>8, DropFunctionInv
<1>9. CASE \E q \in queue : Acked(q)
  BY <1>9, AckedInv
<1>10. CASE UNCHANGED tplVars
  <2>1. UNCHANGED viewVars /\ editor' = editor /\ faas' = faas /\ queue' = queue /\ seqs' = seqs
        /\ tmpl' = tmpl /\ catalog' = catalog /\ sources' = sources /\ released' = released
    BY <1>10 DEF tplVars, viewVars
  <2>2. EditsOwn' /\ AppliesInParam' /\ BoundApart' /\ EnabledLast'
    BY <2>1 DEF TplInv, EditsOwn, AppliesInParam, BoundApart, EnabledLast
  <2> QED
    BY <2>1, <2>2, ApplyStep DEF TplInv, TplType, Made
<1> QED
  BY <1>1, <1>2, <1>3, <1>4, <1>5, <1>6, <1>7, <1>8, <1>9, <1>10 DEF TplNext

LEMMA SlotCounts == TplInv => OneSlot
<1> SUFFICES ASSUME TplInv PROVE OneSlot
  OBVIOUS
<1> DEFINE R == {v \in Viewer : viewer[v].pc = "render"}
<1>1. CASE R = {}
  <2>1. sem = 0
    BY <1>1 DEF TplInv, TplType, SlotHeld
  <2> QED
    BY <1>1, <2>1, FS_EmptySet DEF OneSlot
<1>2. CASE R # {}
  <2>1. PICK v \in Viewer : R = {v}
    BY <1>2 DEF TplInv, SlotHeld
  <2>2. sem = 1
    BY <1>2 DEF TplInv, SlotHeld
  <2> QED
    BY <2>1, <2>2, FS_Singleton DEF OneSlot
<1> QED
  BY <1>1, <1>2

\* Whatever is edited, released, previewed and applied concurrently: no two
\* pictures are sent under one ETag, the preview slot is held exactly while a
\* render runs, a built-in holds what was shipped, a half-bound function is not
\* enabled, and a repeated apply leaves one pending command (templatestore and
\* the template handlers of the backend), for every number of requests, panels,
\* parameters and functions.
THEOREM TemplatesAreSound == TplSpec => []TemplatesSound
<1>1. TplInv => TemplatesSound
  <2> SUFFICES ASSUME TplInv PROVE TemplatesSound
    OBVIOUS
  <2>1. PreviewImmutable
    <3>1. served \subseteq Shots
      BY DEF Shots
    <3> QED
      BY <3>1 DEF TplInv, VersionIsSource, PreviewImmutable
  <2> QED
    BY <2>1, SlotCounts DEF TplInv, TemplatesSound
<1> QED
  BY <1>1, TplInvInit, TplInvNext, PTL DEF TplSpec
=============================================================================
