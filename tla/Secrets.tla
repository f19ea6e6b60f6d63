------------------------------ MODULE Secrets ------------------------------
(***************************************************************************)
(* Sealed secrets and the rotation of their key: internal/secrets, sealbox,*)
(* secrets_api.go and the sweep runServer starts with.                     *)
(* A ciphertext is the key it was sealed under, the value and a nonce that *)
(* is never used twice; it opens under its own key only.  Keys are         *)
(* numbered in the order they are introduced.  The operator changes the    *)
(* environment as the warnings ask: one rotation at a time, and the old    *)
(* key goes only after a sweep that reported nothing stranded.             *)
(***************************************************************************)
EXTENDS Integers, FiniteSets

CONSTANTS Name, Replica,
          MaxKey, MaxPuts, MaxFails  \* bounds on keys, writes and failed re-seals

NoRow == [key |-> 0, val |-> 0, nonce |-> 0]
Down == [up |-> FALSE, cur |-> 0, prev |-> 0, pc |-> "off",
         all |-> [n \in {} |-> NoRow], stranded |-> FALSE]

VARIABLES
  environ,   \* SECRETS_KEY and SECRETS_KEY_PREV (0: unset)
  secrets,   \* Name -> row, NoRow if there is none
  replica,   \* Replica -> the process: its box and its sweep
  clean,     \* the last sweep under this environment stranded nothing
  nonce, puts, failures,
  last,      \* history: Name -> the value of the last write (0: deleted)
  late       \* history: names written by a process that did not know the key

secVars == <<environ, secrets, replica, clean, nonce, puts, failures, last, late>>

SecInit ==
  /\ environ = [cur |-> 1, prev |-> 0]
  /\ secrets = [n \in Name |-> NoRow] /\ last = [n \in Name |-> 0]
  /\ replica = [p \in Replica |-> Down]
  /\ clean = FALSE /\ nonce = 0 /\ puts = 0 /\ failures = 0 /\ late = {}

(* Box.Seal: always under the current key, with a fresh nonce. *)
Seal(p, v) == [key |-> replica[p].cur, val |-> v, nonce |-> nonce + 1]

(* Box.Open: the current key, then the previous one if there is one. *)
Opens(p, row) == row.key \in {replica[p].cur, replica[p].prev} \ {0}
UsedPrev(p, row) == row.key # replica[p].cur

(* FromEnv: a process starts with the keys of the environment and sweeps   *)
(* before it listens, if there is a previous key.                          *)
New(p) ==
  /\ ~replica[p].up
  /\ replica' = [replica EXCEPT ![p] =
       [Down EXCEPT !.up = TRUE, !.cur = environ.cur, !.prev = environ.prev,
                    !.pc = IF environ.prev = 0 THEN "serving" ELSE "select"]]
  /\ UNCHANGED <<environ, secrets, clean, nonce, puts, failures, last, late>>

Stop(p) ==
  /\ replica[p].up /\ replica' = [replica EXCEPT ![p] = Down]
  /\ UNCHANGED <<environ, secrets, clean, nonce, puts, failures, last, late>>

-----------------------------------------------------------------------------
(* Sweep: all rows are read at once, then re-sealed one by one.            *)

SweepSelect(p) ==
  /\ replica[p].pc = "select"
  /\ replica' = [replica EXCEPT ![p].pc = "sweep",
       ![p].all = [n \in {m \in Name : secrets[m] # NoRow} |-> secrets[n]]]
  /\ UNCHANGED <<environ, secrets, clean, nonce, puts, failures, last, late>>

Swept1(p, n, bad) ==
  replica' = [replica EXCEPT ![p].all = [m \in DOMAIN @ \ {n} |-> @[m]],
                             ![p].stranded = @ \/ bad]

(* Mutant of ReSeal: the row is written whatever it holds by now. *)
ReSealBlind(p, n) ==
  /\ replica[p].pc = "sweep" /\ n \in DOMAIN replica[p].all
  /\ LET r == replica[p].all[n] IN
     IF Opens(p, r) /\ UsedPrev(p, r) /\ secrets[n] # NoRow
     THEN secrets' = [secrets EXCEPT ![n] = Seal(p, r.val)] /\ nonce' = nonce + 1
     ELSE UNCHANGED <<secrets, nonce>>
  /\ Swept1(p, n, ~Opens(p, replica[p].all[n]))
  /\ UNCHANGED <<environ, clean, puts, failures, last, late>>

(* A row that opens under the previous key is written under the current    *)
(* one if it still holds the ciphertext that was opened; a row that opens  *)
(* under neither is stranded.                                              *)
ReSeal(p, n) ==
  /\ replica[p].pc = "sweep" /\ n \in DOMAIN replica[p].all
  /\ LET r == replica[p].all[n] IN
     IF Opens(p, r) /\ UsedPrev(p, r) /\ secrets[n] = r
     THEN secrets' = [secrets EXCEPT ![n] = Seal(p, r.val)] /\ nonce' = nonce + 1
     ELSE UNCHANGED <<secrets, nonce>>
  /\ Swept1(p, n, ~Opens(p, replica[p].all[n]))
  /\ UNCHANGED <<environ, clean, puts, failures, last, late>>

(* Mutant of ReSealFails: the failure is not counted. *)
ReSealFailsQuietly(p, n) ==
  /\ replica[p].pc = "sweep" /\ n \in DOMAIN replica[p].all /\ failures < MaxFails
  /\ Opens(p, replica[p].all[n]) /\ UsedPrev(p, replica[p].all[n])
  /\ Swept1(p, n, FALSE) /\ failures' = failures + 1
  /\ UNCHANGED <<environ, secrets, clean, nonce, puts, last, late>>

(* The seal or its UPDATE fails: the row is stranded and the loop goes on. *)
ReSealFails(p, n) ==
  /\ replica[p].pc = "sweep" /\ n \in DOMAIN replica[p].all /\ failures < MaxFails
  /\ Opens(p, replica[p].all[n]) /\ UsedPrev(p, replica[p].all[n])
  /\ Swept1(p, n, TRUE) /\ failures' = failures + 1
  /\ UNCHANGED <<environ, secrets, clean, nonce, puts, last, late>>

(* runServer logs ROTATION INCOMPLETE, or not, and goes on to serve. *)
SweepDone(p) ==
  /\ replica[p].pc = "sweep" /\ DOMAIN replica[p].all = {}
  /\ replica' = [replica EXCEPT ![p].pc = "serving"]
  /\ clean' = IF replica[p].cur = environ.cur THEN ~replica[p].stranded ELSE clean
  /\ UNCHANGED <<environ, secrets, nonce, puts, failures, last, late>>

-----------------------------------------------------------------------------
(* The routes, one statement each. *)

Behind(p) == replica[p].cur # environ.cur
Written(p, n) == late' = IF Behind(p) THEN late \cup {n} ELSE late \ {n}

(* put: 422 for a bad name or an empty value; then PutSecret. *)
PutSecret(p, n, v) ==
  /\ secrets' = [secrets EXCEPT ![n] = Seal(p, v)]
  /\ nonce' = nonce + 1 /\ last' = [last EXCEPT ![n] = v]
PutSecretHTTP(p, n) ==
  /\ replica[p].pc = "serving" /\ puts < MaxPuts
  /\ puts' = puts + 1 /\ PutSecret(p, n, puts + 1) /\ Written(p, n)
  /\ UNCHANGED <<environ, replica, clean, failures>>

DeleteSecret(n) == secrets[n] # NoRow /\ secrets' = [secrets EXCEPT ![n] = NoRow]
DelSecretHTTP(p, n) ==
  /\ replica[p].pc = "serving" /\ DeleteSecret(n)
  /\ last' = [last EXCEPT ![n] = 0] /\ late' = late \ {n}
  /\ UNCHANGED <<environ, replica, clean, nonce, puts, failures>>

(* ResolveSecret: the value, not found, or a hard error. *)
ResolveSecret(p, n) ==
  IF secrets[n] = NoRow THEN 0 ELSE IF Opens(p, secrets[n]) THEN secrets[n].val ELSE -1

-----------------------------------------------------------------------------
(* The operator. *)

RotateKey ==
  /\ environ.prev = 0 /\ environ.cur < MaxKey
  /\ environ' = [cur |-> environ.cur + 1, prev |-> environ.cur] /\ clean' = FALSE
  /\ UNCHANGED <<secrets, replica, nonce, puts, failures, last, late>>

DropPrev ==
  /\ environ.prev # 0 /\ clean
  /\ environ' = [environ EXCEPT !.prev = 0]
  /\ UNCHANGED <<secrets, replica, clean, nonce, puts, failures, last, late>>

SecNext ==
  \/ \E p \in Replica : New(p) \/ Stop(p) \/ SweepSelect(p) \/ SweepDone(p)
  \/ \E p \in Replica, n \in Name : \/ ReSeal(p, n) \/ ReSealFails(p, n)
                                    \/ PutSecretHTTP(p, n) \/ DelSecretHTTP(p, n)
  \/ RotateKey \/ DropPrev

SecSpec == SecInit /\ [][SecNext]_secVars

-----------------------------------------------------------------------------
(* The sweep, running against writes of other processes, neither undoes a  *)
(* put nor brings a deleted secret back.                                   *)
SweepUndoesNothing == \A n \in Name : secrets[n].val = last[n]

(* A process that starts with the present environment can open every       *)
(* secret, the old key dropped or not, unless a process that was not       *)
(* restarted after the rotation wrote it since.                            *)
EverySecretResolves ==
  \A p \in Replica, n \in Name :
    /\ replica[p].up /\ replica[p].cur = environ.cur /\ replica[p].prev = environ.prev
    /\ n \notin late
    => ResolveSecret(p, n) = last[n]

\* A key rotation neither loses nor changes a secret.
SecretsSurvive == SweepUndoesNothing /\ EverySecretResolves

-----------------------------------------------------------------------------
(* What the proof of SecretsSurvive rests on.                              *)

Row == [key : Nat, val : Nat, nonce : Nat]
Process == [up : BOOLEAN, cur : Nat, prev : Nat, pc : {"off", "select", "sweep", "serving"},
            all : UNION {[D -> Row] : D \in SUBSET Name}, stranded : BOOLEAN]

SecType ==
  /\ environ \in [cur : Nat \ {0}, prev : Nat] /\ secrets \in [Name -> Row]
  /\ replica \in [Replica -> Process] /\ clean \in BOOLEAN
  /\ nonce \in Nat /\ puts \in Nat /\ last \in [Name -> Nat]

(* Keys come one after the other, and no process is ahead of the           *)
(* environment it was started from.                                        *)
Consecutive(e) == e.prev \in {0, e.cur - 1}
KeyOrder ==
  /\ Consecutive(environ)
  /\ \A p \in Replica : replica[p].pc # "off" =>
       Consecutive(replica[p]) /\ replica[p].cur \in 1..environ.cur

(* A row that is not a latecomer's is under a key of the environment, and  *)
(* under the current one once a sweep has said so.                         *)
KeyKnown ==
  /\ \A n \in Name : secrets[n] # NoRow => secrets[n].key # 0
  /\ \A n \in Name \ late : secrets[n] # NoRow => secrets[n].key \in {environ.cur, environ.prev}
  /\ clean => \A n \in Name \ late : secrets[n] # NoRow => secrets[n].key = environ.cur

(* What a sweep that has stranded nothing has left to do. *)
SweepInv ==
  \A p \in Replica :
    replica[p].pc = "sweep" /\ replica[p].cur = environ.cur /\ ~replica[p].stranded =>
      \A n \in Name \ late :
        secrets[n] # NoRow /\ secrets[n].key # environ.cur =>
          n \in DOMAIN replica[p].all /\ replica[p].all[n] = secrets[n]

SecInv == SecType /\ SweepUndoesNothing /\ KeyOrder /\ KeyKnown /\ SweepInv
=============================================================================
