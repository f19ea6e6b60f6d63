------------------------------ MODULE Policies ------------------------------
(***************************************************************************)
(* Decisions that are pure functions, each compared with what it promises  *)
(* over an enumerated set of inputs: wake times (faascore/wake.go and      *)
(* playlistframe.go), the health verdict (telemetry/health.go), the egress *)
(* decision (faas-egress/policy.go), parameter substitution                *)
(* (templatestore/substitute.go), the rotation order (plrender) and the    *)
(* size of thumbnails (image_http.go).                                     *)
(* The state is the input, and there are no steps.  Each policy has its    *)
(* inputs, which the theorems are about, and the probes among them that    *)
(* PolInit enumerates, one initial state per case.                         *)
(***************************************************************************)
EXTENDS Integers, Sequences, FiniteSets

VARIABLE probe

None == "none"
NoProbe == [f |-> None]
Larger(a, b) == IF a > b THEN a ELSE b
SeqsUpTo(S, n) == UNION {[1..k -> S] : k \in 0..n}

-----------------------------------------------------------------------------
(* Wake times, in seconds; p.to is the time left to the next rotation, p.j *)
(* the jitter drawn, in per cent.                                          *)

Buffer == 120
Hour == 3600
Day == 86400

WakeInput == [f : {"wake"}, hour : 0..23, sec : 0..(Hour - 1), s : 0..23, e : 0..23,
              day : Nat, max : Nat, to : Int, j : 0..14]
WakeProbe == [f : {"wake"}, hour : {0, 4, 5, 6, 12, 22, 23}, sec : {0, 3599}, s : {0, 5, 22}, e : {0, 5, 6},
              day : {30, 900}, max : {0, 45, 7200}, to : {-5, 100, 5000}, j : {0, 14}]

IsNight(p) == IF p.s = p.e THEN FALSE
              ELSE IF p.s < p.e THEN p.s <= p.hour /\ p.hour < p.e
              ELSE p.hour >= p.s \/ p.hour < p.e

(* Mutant of ClampWake: the floor before the ceiling. *)
ClampWakeCeilingLast(secs, max) ==
  LET low == IF secs < 60 THEN 60 ELSE secs IN IF max > 0 /\ low > max THEN max ELSE low

ClampWake(secs, max) ==
  LET capped == IF max > 0 /\ secs > max THEN max ELSE secs IN IF capped < 60 THEN 60 ELSE capped

NextWakeSeconds(p) ==
  LET now == p.hour * Hour + p.sec
      target == p.e * Hour + (IF p.hour >= p.e THEN Day ELSE 0) IN
  ClampWake(IF IsNight(p) THEN target - now + Buffer ELSE p.day, p.max)

Jitter(p, secs) == secs - (p.j * secs) \div 100

PlaylistWake(p) ==
  LET base == NextWakeSeconds(p) IN
  ClampWake(Jitter(p, IF p.to > 0 /\ p.to < base THEN p.to ELSE base), p.max)

(* A device is told to sleep for a minute at least, never past the end of  *)
(* the night (plus its buffer) or the day's interval, and without a        *)
(* ceiling, jitter or a rotation due it wakes in the morning exactly.      *)
WakeInTime ==
  probe.f = "wake" =>
    LET p == probe
        w == PlaylistWake(p)
        morning == ((p.e * Hour - p.hour * Hour - p.sec) % Day) + Buffer
        due == IF IsNight(p) THEN morning ELSE p.day IN
    /\ w >= 60 /\ w <= Larger(60, due)
    /\ p.max >= 60 => w <= p.max
    /\ p.max = 0 /\ p.j = 0 /\ (p.to <= 0 \/ p.to >= due) => w = Larger(60, due)

-----------------------------------------------------------------------------
(* The health verdict; -1 is the device's "not measured" (nullI32).        *)

VerdictInput == [f : {"verdict"}, data : BOOLEAN, c2 : Int, age : Int, stale : Int, reset : {None, "brownout"},
                 ota : Int, boots : Int, pct : Int, usb : BOOLEAN, anyway : BOOLEAN]
VerdictProbe == [f : {"verdict"}, data : BOOLEAN, c2 : {-1, 3, 4}, age : {3, 4}, stale : {0, 3},
                 reset : {None, "brownout"}, ota : {-1, 9}, boots : {-1, 1, 2}, pct : {-1, 15, 16},
                 usb : BOOLEAN, anyway : BOOLEAN]
Severity == <<"ok", "low_batt", "bad_boots", "brownout", "offline">>
Measured(x) == x # -1

(* Mutant of Bump: the last condition met wins. *)
BumpLast(h, to, cond) == IF cond THEN to ELSE h

Bump(h, to, cond) == IF cond /\ to > h THEN to ELSE h

Conditions(p) == <<FALSE,
                   Measured(p.pct) /\ p.pct <= 15 /\ (p.anyway \/ ~p.usb),
                   Measured(p.boots) /\ p.boots >= 2,
                   p.reset = "brownout" \/ p.ota = 9,
                   p.stale > 0 /\ p.age > p.stale>>

Verdict(p) ==
  IF ~p.data THEN IF Measured(p.c2) /\ p.stale > 0 /\ p.c2 <= p.stale THEN "c2_alive" ELSE "silent"
  ELSE LET c == Conditions(p) IN
       Severity[Bump(Bump(Bump(Bump(1, 5, c[5]), 4, c[4]), 3, c[3]), 2, c[2])]

(* The verdict is the worst condition that holds, whatever order they are  *)
(* tested in, and a device without telemetry is never called healthy.      *)
VerdictWorst ==
  probe.f = "verdict" =>
    IF ~probe.data THEN Verdict(probe) \in {"c2_alive", "silent"}
    ELSE \A k \in 2..5 : /\ Conditions(probe)[k] => \E m \in k..5 : Severity[m] = Verdict(probe)
                         /\ Severity[k] = Verdict(probe) => Conditions(probe)[k]

-----------------------------------------------------------------------------
(* The egress decision.  Addresses: public, or in the deny set.            *)

EgressInput == [f : {"egress"}, literal : {None, "public", "denied"}, allow : {"host", "port", "other"},
                ips : Seq({"public", "denied"}), fails : BOOLEAN]
EgressProbe == [f : {"egress"}, literal : {None, "public", "denied"}, allow : {"host", "port", "other"},
                ips : SeqsUpTo({"public", "denied"}, 2), fails : BOOLEAN]

IsDenied(ip) == ip = "denied"
HostAllowed(p) == p.allow \in {"host", "port"}

(* Mutant of Decide: the first address is taken if any is public. *)
DecideFirst(p) ==
  IF ~HostAllowed(p) THEN None
  ELSE IF p.literal # None THEN p.literal
  ELSE IF p.fails \/ \A i \in DOMAIN p.ips : IsDenied(p.ips[i]) THEN None
  ELSE p.ips[1]

(* decide: an allowed literal is dialled as it is; a name is pinned to its *)
(* first address outside the deny set.                                     *)
Decide(p) ==
  IF ~HostAllowed(p) THEN None
  ELSE IF p.literal # None THEN p.literal
  ELSE IF p.fails THEN None
  ELSE LET ok == {i \in DOMAIN p.ips : ~IsDenied(p.ips[i])} IN
       IF ok = {} THEN None ELSE p.ips[CHOOSE i \in ok : \A k \in ok : i <= k]

(* What is dialled is allowed and, unless the operator named the address   *)
(* itself, outside the deny set; a name with a public address gets through.*)
EgressPinned ==
  probe.f = "egress" =>
    LET p == probe IN
    /\ Decide(p) # None => HostAllowed(p) /\ (p.literal = None => ~IsDenied(Decide(p)))
    /\ (HostAllowed(p) /\ p.literal = None /\ ~p.fails /\ \E i \in DOMAIN p.ips : ~IsDenied(p.ips[i]))
       => Decide(p) # None

-----------------------------------------------------------------------------
(* Substitution.  A source is a sequence of literals and placeholders; a   *)
(* value is a number, a text or a text that holds a placeholder itself.    *)

ParamNames == {"a", "b"}
Specs == {[decl |-> FALSE, num |-> FALSE, req |-> FALSE, def |-> None]}
         \cup [decl : {TRUE}, num : BOOLEAN, req : BOOLEAN, def : {None, "7", "x"}]
SubstInput == [f : {"subst"}, spec : [ParamNames -> Specs], params : [ParamNames -> {None, "7", "x", "{{b}}"}],
               src : Seq(ParamNames \cup {"lit"})]
SubstProbe == [f : {"subst"}, spec : [ParamNames -> Specs], params : [ParamNames -> {None, "7", "x", "{{b}}"}],
               src : {<<"lit">>, <<"a">>, <<"a", "lit", "b">>}]

CheckParamType(s, v) == s.num => v = "7"

(* Mutant of Filled: a default does not stand in for a required parameter. *)
FilledGiven(p, n) == IF p.params[n] # None THEN p.params[n]
                     ELSE IF p.spec[n].req THEN None ELSE p.spec[n].def

(* The value of a declared parameter: the one given, or its default. *)
Filled(p, n) == IF p.params[n] # None THEN p.params[n] ELSE p.spec[n].def

SpliceTokens(src, values) ==
  [i \in DOMAIN src |-> IF src[i] \in ParamNames /\ values[src[i]] # None THEN values[src[i]] ELSE src[i]]
Placeholder(x) == x \in ParamNames \cup {"{{b}}"}

(* Substitute: undeclared, then missing or ill-typed in the order of the   *)
(* schema, then what is left unresolved in the result.                     *)
Substitute(p) ==
  LET values == [n \in ParamNames |-> IF p.spec[n].decl THEN Filled(p, n) ELSE None]
      bad(n) == /\ p.spec[n].decl
                /\ IF values[n] = None THEN p.spec[n].req ELSE ~CheckParamType(p.spec[n], values[n])
      out == SpliceTokens(p.src, values) IN
  IF \E n \in ParamNames : p.params[n] # None /\ ~p.spec[n].decl THEN <<"unknown_param">>
  ELSE IF \E n \in ParamNames : bad(n) THEN <<"missing_or_invalid">>
  ELSE IF \E i \in DOMAIN out : Placeholder(out[i]) THEN <<"unresolved_placeholder">>
  ELSE out
SubstErrors == {<<"unknown_param">>, <<"missing_or_invalid">>, <<"unresolved_placeholder">>}

(* A substituted source holds every given value, the default of the others *)
(* and no placeholder, and it is refused only for a reason: a parameter    *)
(* nobody declared, one that is missing or of the wrong type, or a         *)
(* placeholder nothing stands for.                                         *)
SubstituteExact ==
  probe.f = "subst" =>
    LET p == probe
        given(n) == p.params[n] # None
        usable(n) == given(n) \/ (p.spec[n].decl /\ p.spec[n].def # None)
        val(n) == IF given(n) THEN p.params[n] ELSE p.spec[n].def
        fine == /\ \A n \in ParamNames : given(n) => p.spec[n].decl
                /\ \A n \in ParamNames : p.spec[n].req => usable(n)
                /\ \A n \in ParamNames : p.spec[n].num /\ usable(n) => val(n) = "7"
                /\ \A i \in DOMAIN p.src : p.src[i] \in ParamNames =>
                     usable(p.src[i]) /\ val(p.src[i]) # "{{b}}" IN
    IF ~fine THEN Substitute(p) \in SubstErrors
    ELSE Substitute(p) = [i \in DOMAIN p.src |-> IF p.src[i] \in ParamNames THEN val(p.src[i]) ELSE p.src[i]]

-----------------------------------------------------------------------------
(* The rotation order: indices sorted by the hash of serial, playlist,     *)
(* epoch and item id; the hash is any function of the id.                  *)

ItemId == 1..3
Distinct(s) == \A i, j \in DOMAIN s : s[i] = s[j] => i = j
OrderInput == {p \in [f : {"order"}, shuffle : BOOLEAN, key : UNION {[S -> Nat] : S \in SUBSET Nat}, ids : Seq(Nat)] :
                 Distinct(p.ids) /\ \A i \in DOMAIN p.ids : p.ids[i] \in DOMAIN p.key}
OrderProbe == [f : {"order"}, shuffle : BOOLEAN, key : [ItemId -> 0..2], ids : {s \in SeqsUpTo(ItemId, 3) : Distinct(s)}]

(* Mutant of ShuffleKey: the hash of the position, not of the item. *)
ShuffleKeyOfIndex(p, ids, i) == p.key[i]

ShuffleKey(p, ids, i) == p.key[ids[i]]

Before(p, ids, i, j) ==
  \/ ShuffleKey(p, ids, i) < ShuffleKey(p, ids, j)
  \/ ShuffleKey(p, ids, i) = ShuffleKey(p, ids, j) /\ ids[i] < ids[j]

RotationOrder(p, ids) ==
  IF ~p.shuffle \/ Len(ids) < 2 THEN [i \in DOMAIN ids |-> i]
  ELSE [r \in DOMAIN ids |->
          CHOOSE j \in DOMAIN ids : Cardinality({i \in DOMAIN ids : Before(p, ids, i, j)}) = r - 1]

Shown(p, ids) == [r \in DOMAIN ids |-> ids[RotationOrder(p, ids)[r]]]
Precedes(s, a, b) == \E q, r \in DOMAIN s : q < r /\ s[q] = a /\ s[r] = b
Without(s, k) == [i \in 1..(Len(s) - 1) |-> IF i < k THEN s[i] ELSE s[i + 1]]

(* Every item is visited once per round, and removing or adding one leaves *)
(* the order of the others as it was.                                      *)
OrderStable ==
  probe.f = "order" =>
    LET p == probe
        ids == p.ids IN
    /\ {RotationOrder(p, ids)[r] : r \in DOMAIN ids} = DOMAIN ids
    /\ \A k \in DOMAIN ids : \A i, j \in DOMAIN ids \ {k} :
         Precedes(Shown(p, ids), ids[i], ids[j]) <=> Precedes(Shown(p, Without(ids, k)), ids[i], ids[j])

-----------------------------------------------------------------------------
(* Thumbnails. *)

ThumbInput == [f : {"thumb"}, sw : Nat, sh : Nat, dim : Nat \ {0}]
ThumbProbe == [f : {"thumb"}, sw : 0..9 \cup {300}, sh : 0..9 \cup {300}, dim : {1, 4}]

AtLeast1(v) == IF v < 1 THEN 1 ELSE v

(* Mutant of FitBox: a very flat picture gets no rows. *)
FitBoxFlat(p) ==
  IF p.sw <= p.dim /\ p.sh <= p.dim THEN <<AtLeast1(p.sw), AtLeast1(p.sh)>>
  ELSE IF p.sw >= p.sh THEN <<p.dim, (p.sh * p.dim) \div p.sw>>
  ELSE <<(p.sw * p.dim) \div p.sh, p.dim>>

FitBox(p) ==
  IF p.sw <= p.dim /\ p.sh <= p.dim THEN <<AtLeast1(p.sw), AtLeast1(p.sh)>>
  ELSE IF p.sw >= p.sh THEN <<p.dim, AtLeast1((p.sh * p.dim) \div p.sw)>>
  ELSE <<AtLeast1((p.sw * p.dim) \div p.sh), p.dim>>

(* downscale: the cells source pixel (x, y) is averaged into. *)
Cells(s, d) == {(x * d) \div s : x \in 0..(s - 1)}

(* A thumbnail fits its box, is never empty and never larger than the      *)
(* picture, and no cell of it is left without a source pixel.              *)
ThumbFits ==
  probe.f = "thumb" =>
    LET p == probe
        d == FitBox(p) IN
    /\ d[1] \in 1..p.dim /\ d[2] \in 1..p.dim
    /\ p.sw > 0 /\ p.sh > 0 => /\ d[1] <= p.sw /\ Cells(p.sw, d[1]) = 0..(d[1] - 1)
                               /\ d[2] <= p.sh /\ Cells(p.sh, d[2]) = 0..(d[2] - 1)

\* The pure policies agree with their reference definitions on every input.
PoliciesExact ==
  /\ WakeInTime /\ VerdictWorst /\ EgressPinned /\ SubstituteExact
  /\ OrderStable /\ ThumbFits

PolInput == WakeInput \cup VerdictInput \cup EgressInput \cup SubstInput \cup OrderInput \cup ThumbInput
PolSpec == probe \in PolInput /\ [][FALSE]_probe

(* The inputs TLC enumerates. *)
PolInit == probe \in WakeProbe \cup VerdictProbe \cup EgressProbe \cup SubstProbe \cup OrderProbe \cup ThumbProbe
=============================================================================
