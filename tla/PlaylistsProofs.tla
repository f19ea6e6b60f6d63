--------------------------- MODULE PlaylistsProofs ---------------------------
(***************************************************************************)
(* Proofs about Playlists, for every number of devices, images, functions, *)
(* playlists, concurrent handlers and frame requests: the binding tables   *)
(* agree with each other (TablesAgree), and together they implement one    *)
(* register per device (Panel). PlInv is the inductive invariant: what the *)
(* rows say of each other (RowsInv), what a handler or request carries     *)
(* past its checks (RequestsInv), and how far a rotation may have come     *)
(* (RotationInv). Browse, for lists of any length: a walk page by page is  *)
(* complete (BrInv). Policies, for every input: each pure algorithm agrees *)
(* with its reference definition.                                          *)
(***************************************************************************)
EXTENDS Playlists, Browse, Policies, SequenceTheorems, FiniteSetTheorems, FunctionTheorems,
        WellFoundedInduction, TLAPS

USE PlAssumption

-----------------------------------------------------------------------------
(* Items.                                                                  *)

\* playlist_item rows behind a new one, without one, or in another order, are
\* still rows of images the playlist had.
LEMMA AddedItems ==
  ASSUME NEW s \in Seq(Image), NEW i \in Image
  PROVE  /\ Append(s, i) \in Seq(Image)
         /\ \A k \in DOMAIN Append(s, i) :
               Append(s, i)[k] = i \/ \E j \in DOMAIN s : Append(s, i)[k] = s[j]
BY AppendProperties

LEMMA JoinedItems ==
  ASSUME NEW a \in Seq(Image), NEW b \in Seq(Image)
  PROVE  /\ a \o b \in Seq(Image)
         /\ \A j \in DOMAIN (a \o b) : \/ \E m \in DOMAIN a : (a \o b)[j] = a[m]
                                       \/ \E m \in DOMAIN b : (a \o b)[j] = b[m]
<1>1. a \o b \in Seq(Image) /\ DOMAIN (a \o b) = 1..(Len(a) + Len(b))
  BY ConcatProperties
<1>2. DOMAIN a = 1..Len(a) /\ DOMAIN b = 1..Len(b) /\ Len(a) \in Nat /\ Len(b) \in Nat
  BY LenProperties
<1>3. ASSUME NEW j \in 1..(Len(a) + Len(b))
      PROVE  \/ \E m \in DOMAIN a : (a \o b)[j] = a[m]
             \/ \E m \in DOMAIN b : (a \o b)[j] = b[m]
  <2>1. (a \o b)[j] = IF j <= Len(a) THEN a[j] ELSE b[j - Len(a)]
    BY ConcatProperties
  <2>2. IF j <= Len(a) THEN j \in DOMAIN a ELSE j - Len(a) \in DOMAIN b
    BY <1>2
  <2> QED
    BY <2>1, <2>2
<1> QED
  BY <1>1, <1>3

LEMMA PartOfItems ==
  ASSUME NEW s \in Seq(Image), NEW m \in Nat \ {0}, NEW n \in Int, n <= Len(s)
  PROVE  /\ SubSeq(s, m, n) \in Seq(Image)
         /\ \A j \in DOMAIN SubSeq(s, m, n) : \E i \in DOMAIN s : SubSeq(s, m, n)[j] = s[i]
<1>1. DOMAIN s = 1..Len(s) /\ Len(s) \in Nat /\ \A i \in 1..Len(s) : s[i] \in Image
  BY LenProperties, ElementOfSeq
<1>2. \A i \in m..n : s[i] \in Image
  BY <1>1
<1>3. /\ SubSeq(s, m, n) \in Seq(Image)
      /\ Len(SubSeq(s, m, n)) = IF m <= n THEN n - m + 1 ELSE 0
      /\ \A i \in 1..(n - m + 1) : SubSeq(s, m, n)[i] = s[m + i - 1]
  BY <1>2, SubSeqProperties
<1>4. DOMAIN SubSeq(s, m, n) = 1..Len(SubSeq(s, m, n))
  BY <1>3, LenProperties
<1>5. ASSUME NEW j \in DOMAIN SubSeq(s, m, n) PROVE \E i \in DOMAIN s : SubSeq(s, m, n)[j] = s[i]
  <2>1. j \in 1..(n - m + 1) /\ m + j - 1 \in DOMAIN s
    BY <1>1, <1>3, <1>4
  <2> QED
    BY <1>3, <2>1
<1> QED
  BY <1>3, <1>5

LEMMA RemovedItems ==
  ASSUME NEW s \in Seq(Image), NEW k \in DOMAIN s
  PROVE  LET t == SubSeq(s, 1, k - 1) \o SubSeq(s, k + 1, Len(s))
         IN  t \in Seq(Image) /\ \A j \in DOMAIN t : \E m \in DOMAIN s : t[j] = s[m]
<1>1. k \in Nat \ {0} /\ k <= Len(s) /\ Len(s) \in Nat
  BY LenProperties
<1> DEFINE a == SubSeq(s, 1, k - 1)
           b == SubSeq(s, k + 1, Len(s))
<1>2. a \in Seq(Image) /\ \A j \in DOMAIN a : \E i \in DOMAIN s : a[j] = s[i]
  <2>1. 1 \in Nat \ {0} /\ k - 1 \in Int /\ k - 1 <= Len(s)
    BY <1>1
  <2> QED
    BY <2>1, PartOfItems, Zenon
<1>3. b \in Seq(Image) /\ \A j \in DOMAIN b : \E i \in DOMAIN s : b[j] = s[i]
  <2>1. k + 1 \in Nat \ {0} /\ Len(s) \in Int /\ Len(s) <= Len(s)
    BY <1>1
  <2> QED
    BY <2>1, PartOfItems, Zenon
<1> HIDE DEF a, b
<1>4. /\ a \o b \in Seq(Image)
      /\ \A j \in DOMAIN (a \o b) : \E m \in DOMAIN s : (a \o b)[j] = s[m]
  <2>1. /\ a \o b \in Seq(Image)
        /\ \A j \in DOMAIN (a \o b) : \/ \E m \in DOMAIN a : (a \o b)[j] = a[m]
                                      \/ \E m \in DOMAIN b : (a \o b)[j] = b[m]
    BY <1>2, <1>3, JoinedItems, Zenon
  <2>2. ASSUME NEW j \in DOMAIN (a \o b) PROVE \E m \in DOMAIN s : (a \o b)[j] = s[m]
    <3>1. CASE \E m \in DOMAIN a : (a \o b)[j] = a[m]
      BY <1>2, <3>1, Zenon
    <3>2. CASE \E m \in DOMAIN b : (a \o b)[j] = b[m]
      BY <1>3, <3>2, Zenon
    <3> QED
      BY <2>1, <2>2, <3>1, <3>2, Zenon
  <2> QED
    BY <2>1, <2>2, Zenon
<1> QED
  BY <1>4 DEF a, b

LEMMA ReorderedItems ==
  ASSUME NEW s \in Seq(Image), NEW f \in [DOMAIN s -> DOMAIN s], NEW t,
         t = [k \in DOMAIN f |-> s[f[k]]]
  PROVE  t \in Seq(Image) /\ \A j \in DOMAIN t : \E m \in DOMAIN s : t[j] = s[m]
<1>1. DOMAIN s = 1..Len(s) /\ Len(s) \in Nat
  BY LenProperties
<1>2. \A k \in DOMAIN s : s[f[k]] \in Image
  BY <1>1, ElementOfSeq
<1>3. t \in [1..Len(s) -> Image]
  BY <1>1, <1>2
<1> QED
  BY <1>1, <1>3, SeqDef

-----------------------------------------------------------------------------
(* Building blocks: what the statements write is well-formed.              *)

LEMMA EmptyItems == <<>> \in Seq(Image)
BY EmptySeq

LEMMA GoneType ==
  ASSUME PlType, NEW S
  PROVE  /\ Gone(S) \in [Pl -> Playlist]
         /\ \A p \in S \cap Pl : /\ ~Gone(S)[p].live /\ Gone(S)[p].owner = NoDev
                                 /\ Gone(S)[p].items = <<>>
         /\ \A p \in Pl \ S : Gone(S)[p] = pls[p]
BY EmptyItems DEF PlType, Gone, Playlist

LEMMA UnboundType ==
  ASSUME PlType, NEW S
  PROVE  /\ Unbound(S) \in [Device -> Pl \cup {Nothing}]
         /\ \A d \in Device : Unbound(S)[d] = IF pb[d] \in S THEN Nothing ELSE pb[d]
BY DEF PlType, Unbound

LEMMA NoCursorType == NoCursor \in Cursor /\ NoCursor.pl = Nothing /\ NoCursor.adv = 0
                      /\ NoCursor.at = 0 /\ NoCursor.born = 0
BY DEF NoCursor, Cursor, Nothing

\* ResolveCursor stays in the range of the items it was given, moves on at most
\* once, and only when the request's time is past the last advance.
LEMMA ResolveSpec ==
  ASSUME NEW c \in Cursor, NEW r \in Request, r.pl \in Pl, NEW n \in Nat \ {0},
         NEW b \in Nat, b = binds[r.dev],
         c.adv <= c.at - c.born, c.at <= clock, r.now <= clock, clock \in Nat,
         c.pl # Nothing => c.bind = b
  PROVE  LET x == Resolve(c, r, n) IN
         /\ x \in Cursor /\ x.pos < n
         /\ x.adv <= x.at - x.born /\ x.at <= clock
         /\ x.pl # Nothing => x.bind = b
<1>t. /\ c.pos \in Nat /\ c.at \in Nat /\ c.born \in Nat /\ c.adv \in Nat /\ c.bind \in Nat
      /\ c.pl \in Pl \cup {Nothing} /\ r.now \in Nat
      /\ c = [pl |-> c.pl, pos |-> c.pos, at |-> c.at, born |-> c.born, adv |-> c.adv, bind |-> c.bind]
  BY DEF Cursor, Request
<1>m. \A v \in Nat : v % n \in Nat /\ v % n < n
  OBVIOUS
<1>1. CASE c.pl # r.pl
  <2>1. Resolve(c, r, n) = [pl |-> r.pl, pos |-> 0, at |-> r.now, born |-> r.now, adv |-> 0,
                            bind |-> b]
    BY <1>1 DEF Resolve
  <2> QED
    BY <1>t, <2>1 DEF Cursor
<1>2. CASE c.pl = r.pl /\ r.now - c.at >= 1
  <2> DEFINE q == ((c.pos % n) + 1) % n
  <2>0. q \in Nat /\ q < n
    BY <1>t, <1>m
  <2>1. Resolve(c, r, n) = [c EXCEPT !.pos = q, !.at = r.now, !.adv = c.adv + 1]
    BY <1>2 DEF Resolve
  <2> HIDE DEF q
  <2>2. Resolve(c, r, n) = [pl |-> c.pl, pos |-> q, at |-> r.now, born |-> c.born, adv |-> c.adv + 1,
                            bind |-> c.bind]
    BY <1>t, <2>1
  <2> QED
    BY <1>t, <1>2, <2>0, <2>2 DEF Cursor
<1>3. CASE c.pl = r.pl /\ ~(r.now - c.at >= 1)
  <2> DEFINE q == c.pos % n
  <2>0. q \in Nat /\ q < n
    BY <1>t, <1>m
  <2>1. Resolve(c, r, n) = [c EXCEPT !.pos = q]
    BY <1>3 DEF Resolve
  <2> HIDE DEF q
  <2>2. Resolve(c, r, n) = [pl |-> c.pl, pos |-> q, at |-> c.at, born |-> c.born, adv |-> c.adv,
                            bind |-> c.bind]
    BY <1>t, <2>1
  <2> QED
    BY <1>t, <1>3, <2>0, <2>2 DEF Cursor
<1> QED
  BY <1>1, <1>2, <1>3

-----------------------------------------------------------------------------
(* Parts of the invariant that a step leaves alone.                        *)

rowVars == <<devices, images, pls, pb, rb, nextPl, ghosts>>

LEMMA RowsKept ==
  ASSUME RowsInv, UNCHANGED rowVars
  PROVE  RowsInv'
BY DEF RowsInv, rowVars, OneSource, NoOrphanBinding

LEMMA RequestsKept ==
  ASSUME RequestsInv, UNCHANGED <<call, req, clock>>
  PROVE  RequestsInv'
BY DEF RequestsInv, Handler

LEMMA RotationKept ==
  ASSUME RotationInv, UNCHANGED <<cursor, clock, binds>>
  PROVE  RotationInv'
BY DEF RotationInv

\* A handler ends: its call is idle again.
LEMMA CallDone ==
  ASSUME RequestsInv, NEW o \in Op, Idle(o), UNCHANGED <<req, clock>>
  PROVE  RequestsInv'
BY DEF RequestsInv, Handler, Idle, IdleOp

\* A device's rotation is reset, with or without a new bind of it.
LEMMA RotationReset ==
  ASSUME PlType, RotationInv, UNCHANGED clock,
         \A d \in Device : \/ cursor'[d] = NoCursor
                           \/ cursor'[d] = cursor[d] /\ binds'[d] = binds[d]
  PROVE  RotationInv'
BY NoCursorType DEF RotationInv, PlType

-----------------------------------------------------------------------------
(* Editing.                                                                *)

LEMMA CreateKeeps == ASSUME PlInv, Create PROVE PlInv'
<1> USE DEF PlInv
<1>1. /\ nextPl \in Pl /\ pls' = [pls EXCEPT ![nextPl].live = TRUE] /\ nextPl' = nextPl + 1
      /\ UNCHANGED <<devices, images, pb, rb, cursor, call, req, clock, binds, ghosts>>
  BY DEF Create, CreatePlaylist, PlType, Pl
<1>2. PlType'
  <2>1. pls[nextPl] \in Playlist
    BY <1>1 DEF PlType
  <2>2. [pls[nextPl] EXCEPT !.live = TRUE] \in Playlist
    BY <2>1 DEF Playlist
  <2>3. pls' \in [Pl -> Playlist]
    BY <1>1, <2>2 DEF PlType
  <2> QED
    BY <1>1, <2>3 DEF PlType
<1>3. /\ \A q \in Pl : pls'[q].owner = pls[q].owner /\ pls'[q].items = pls[q].items
      /\ \A q \in Pl : pls'[q].live <=> (q = nextPl \/ pls[q].live)
  BY <1>1 DEF PlType, Playlist
<1>4. RowsInv'
  <2>1. \A q \in Pl : pls'[q].live => q < nextPl'
    BY <1>1, <1>3 DEF RowsInv, PlType, Pl
  <2> QED
    BY <1>1, <1>3, <2>1 DEF RowsInv, PlType, OneSource, NoOrphanBinding
<1> QED
  BY <1>1, <1>2, <1>4, RequestsKept, RotationKept

\* An edit leaves a playlist with items whose images exist.
LEMMA ItemsKeep ==
  ASSUME PlInv, NEW p \in Live, NEW t \in Seq(Image), \A k \in DOMAIN t : t[k] \in images,
         pls' = [pls EXCEPT ![p].items = t],
         UNCHANGED <<devices, images, pb, rb, cursor, call, req, clock, nextPl, binds, ghosts>>
  PROVE  PlInv'
<1> USE DEF PlInv
<1>1. p \in Pl /\ pls[p].live
  BY DEF Live
<1>2. PlType'
  <2>1. pls[p] \in Playlist
    BY <1>1 DEF PlType
  <2>2. [pls[p] EXCEPT !.items = t] \in Playlist
    BY <2>1 DEF Playlist
  <2>3. pls' \in [Pl -> Playlist]
    BY <1>1, <2>2 DEF PlType
  <2> QED
    BY <2>3 DEF PlType
<1>3. /\ \A q \in Pl : pls'[q].owner = pls[q].owner /\ pls'[q].live = pls[q].live
      /\ \A q \in Pl : pls'[q].items = IF q = p THEN t ELSE pls[q].items
  BY <1>1 DEF PlType, Playlist
<1>4. RowsInv'
  BY <1>1, <1>3 DEF RowsInv, PlType, OneSource, NoOrphanBinding
<1> QED
  BY <1>2, <1>4, RequestsKept, RotationKept

LEMMA ItemsOf == ASSUME PlInv, NEW p \in Live
                 PROVE  /\ p \in Pl /\ pls[p].items \in Seq(Image)
                        /\ \A k \in DOMAIN pls[p].items : pls[p].items[k] \in images
BY DEF PlInv, PlType, RowsInv, Live, Playlist

LEMMA PostItemKeeps ==
  ASSUME PlInv, NEW p \in Pl, NEW i \in Image, PostItem(p, i) PROVE PlInv'
<1> DEFINE t == Append(pls[p].items, i)
<1>1. /\ p \in Live /\ i \in images /\ pls' = [pls EXCEPT ![p].items = t]
      /\ UNCHANGED <<devices, images, pb, rb, cursor, call, req, clock, nextPl, binds, ghosts>>
  BY DEF PostItem, AddItem
<1>2. t \in Seq(Image) /\ \A k \in DOMAIN t : t[k] \in images
  BY <1>1, ItemsOf, AddedItems
<1> HIDE DEF t
<1> QED
  BY <1>1, <1>2, ItemsKeep

LEMMA DropItemKeeps ==
  ASSUME PlInv, NEW p \in Pl, NEW k, DropItem(p, k) PROVE PlInv'
<1> DEFINE s == pls[p].items
           t == SubSeq(s, 1, k - 1) \o SubSeq(s, k + 1, Len(s))
<1>1. /\ p \in Live /\ k \in DOMAIN s /\ pls' = [pls EXCEPT ![p].items = t]
      /\ UNCHANGED <<devices, images, pb, rb, cursor, call, req, clock, nextPl, binds, ghosts>>
  BY DEF DropItem, RemoveItem
<1>2. s \in Seq(Image) /\ \A j \in DOMAIN s : s[j] \in images
  BY <1>1, ItemsOf
<1> HIDE DEF s
<1>3. t \in Seq(Image) /\ \A j \in DOMAIN t : \E m \in DOMAIN s : t[j] = s[m]
  BY <1>1, <1>2, RemovedItems, Zenon
<1> HIDE DEF t
<1>4. \A j \in DOMAIN t : t[j] \in images
  BY <1>2, <1>3
<1> QED
  BY <1>1, <1>3, <1>4, ItemsKeep

LEMMA PatchItemsKeeps ==
  ASSUME PlInv, NEW p \in Pl, PatchItems(p) PROVE PlInv'
<1> DEFINE s == pls[p].items
<1>1. PICK f \in [DOMAIN s -> DOMAIN s] : Reorder(p, f)
  BY DEF PatchItems
<1> DEFINE t == [k \in DOMAIN f |-> s[f[k]]]
<1>2. /\ p \in Live /\ pls' = [pls EXCEPT ![p].items = t]
      /\ UNCHANGED <<devices, images, pb, rb, cursor, call, req, clock, nextPl, binds, ghosts>>
  BY <1>1 DEF PatchItems, Reorder
<1>3. s \in Seq(Image) /\ \A j \in DOMAIN s : s[j] \in images
  BY <1>2, ItemsOf
<1> HIDE DEF s
<1>4. t \in Seq(Image) /\ \A j \in DOMAIN t : \E m \in DOMAIN s : t[j] = s[m]
  BY <1>3, ReorderedItems
<1> HIDE DEF t
<1>5. \A j \in DOMAIN t : t[j] \in images
  BY <1>3, <1>4
<1> QED
  BY <1>2, <1>4, <1>5, ItemsKeep

\* Playlists disappear and their bindings with them, where the others' items
\* survive.
LEMMA WithdrawKeeps ==
  ASSUME PlInv, NEW S \in SUBSET Pl, pls' = Gone(S), pb' = Unbound(S),
         \A p \in Pl \ S : \A k \in DOMAIN pls[p].items : pls[p].items[k] \in images',
         UNCHANGED <<devices, rb, nextPl, ghosts>>
  PROVE  /\ RowsInv' /\ pls' \in [Pl -> Playlist] /\ pb' \in [Device -> Pl \cup {Nothing}]
<1> USE DEF PlInv
<1>g. /\ pls' \in [Pl -> Playlist]
      /\ \A p \in S : ~pls'[p].live /\ pls'[p].owner = NoDev /\ pls'[p].items = <<>>
      /\ \A p \in Pl \ S : pls'[p] = pls[p]
  BY GoneType
<1>u. /\ pb' \in [Device -> Pl \cup {Nothing}]
      /\ \A d \in Device : pb'[d] = IF pb[d] \in S THEN Nothing ELSE pb[d]
  BY UnboundType
<1>1. \A p \in Pl : \A k \in DOMAIN pls'[p].items : pls'[p].items[k] \in images'
  BY <1>g
<1>2. \A d \in Device : pb'[d] # Nothing => pb'[d] = pb[d] /\ pb[d] \in Pl \ S
  BY <1>u DEF PlType
<1>3. \A d \in Device : pb'[d] \in {pb[d], Nothing}
  BY <1>u
<1>4. /\ \A p \in Pl : ~pls'[p].live => pls'[p].owner = NoDev /\ pls'[p].items = <<>>
      /\ \A p \in Pl : pls'[p].live => p < nextPl'
      /\ \A p \in Pl : pls'[p].owner # NoDev => pls'[p] = pls[p]
  BY <1>g DEF RowsInv
<1>5. /\ \A p, q \in Pl : pls'[p].owner # NoDev /\ pls'[p].owner = pls'[q].owner => p = q
      /\ \A p \in Pl : pls'[p].owner # NoDev =>
            pb'[pls'[p].owner] \in {p, Nothing} /\ rb'[pls'[p].owner] = Nothing
  BY <1>3, <1>4 DEF RowsInv, PlType, Playlist
<1>6. \A d \in Device : pb'[d] # Nothing => pls'[pb'[d]].live
  BY <1>g, <1>2 DEF RowsInv
<1>7. OneSource' /\ NoOrphanBinding'
  BY <1>3 DEF RowsInv, OneSource, NoOrphanBinding
<1> QED
  BY <1>g, <1>u, <1>1, <1>4, <1>5, <1>6, <1>7 DEF RowsInv

LEMMA DeleteImageKeeps ==
  ASSUME PlInv, NEW i \in Image, DeleteImage(i) PROVE PlInv'
<1> USE DEF PlInv
<1> DEFINE dead == {p \in Live : Has(p, i)}
<1>1. /\ pls' = Gone(dead) /\ pb' = Unbound(dead) /\ images' = images \ {i}
      /\ cursor' = [d \in Device |-> IF \E p \in dead : pls[p].owner = d THEN NoCursor ELSE cursor[d]]
      /\ UNCHANGED <<devices, rb, call, req, clock, nextPl, binds, ghosts>>
  BY DEF DeleteImage, DeleteImageManagedAware
<1>2. /\ \A p \in Pl \ dead : \A k \in DOMAIN pls[p].items : pls[p].items[k] # i
      /\ dead \subseteq Pl
  <2>1. \A p \in Pl \ dead : pls[p].live => \A k \in DOMAIN pls[p].items : pls[p].items[k] # i
    BY DEF Live, Has
  <2>2. \A p \in Pl : ~pls[p].live => \A k \in DOMAIN pls[p].items : pls[p].items[k] # i
    BY DEF RowsInv
  <2> QED
    BY <2>1, <2>2 DEF Live
<1> HIDE DEF dead
<1>3. \A p \in Pl \ dead : \A k \in DOMAIN pls[p].items : pls[p].items[k] \in images'
  BY <1>1, <1>2 DEF RowsInv
<1>4. RowsInv' /\ pls' \in [Pl -> Playlist] /\ pb' \in [Device -> Pl \cup {Nothing}]
  BY <1>1, <1>2, <1>3, WithdrawKeeps
<1>5. PlType'
  BY <1>1, <1>4, NoCursorType DEF PlType
<1>6. RotationInv'
  BY <1>1, RotationReset
<1> QED
  BY <1>1, <1>4, <1>5, <1>6, RequestsKept

-----------------------------------------------------------------------------
(* Handlers: admission and commit.                                         *)

\* A handler is admitted with what it will act on; no table changes.
LEMMA AdmitKeeps ==
  ASSUME PlInv, NEW o \in Op, NEW kind, NEW d, NEW a, Admit(o, kind, d, a),
         Handler([kind |-> kind, dev |-> d, arg |-> a])
  PROVE  PlInv'
<1> USE DEF PlInv
<1>1. /\ call' = [call EXCEPT ![o] = [kind |-> kind, dev |-> d, arg |-> a]]
      /\ UNCHANGED <<devices, images, pls, pb, rb, cursor, req, clock, nextPl, binds, ghosts>>
  BY DEF Admit, tables
<1>2. RequestsInv'
  BY <1>1 DEF RequestsInv
<1>3. PlType'
  BY <1>1 DEF PlType
<1> QED
  BY <1>1, <1>2, <1>3, RowsKept, RotationKept DEF rowVars

LEMMA AdmissionKeeps ==
  ASSUME PlInv, NEW o \in Op, Admission(o) PROVE PlInv'
<1>1. ASSUME NEW d \in Device, NEW p \in Pl, CheckBind(o, d, p) PROVE PlInv'
  BY <1>1, AdmitKeeps DEF CheckBind, Handler
<1>2. ASSUME NEW d \in Device, NEW i \in Image, CheckImage(o, d, i) PROVE PlInv'
  BY <1>2, AdmitKeeps DEF CheckImage, Handler
<1>3. ASSUME NEW d \in Device, NEW f \in Fn, CheckFunction(o, d, f) PROVE PlInv'
  BY <1>3, AdmitKeeps DEF CheckFunction, Handler
<1>4. ASSUME NEW p \in Pl, CheckDelete(o, p) PROVE PlInv'
  BY <1>4, AdmitKeeps DEF CheckDelete, Handler
<1>5. ASSUME NEW d \in Device, UnbindPlaylist(o, d) PROVE PlInv'
  <2> USE DEF PlInv
  <2>1. /\ pb' = [pb EXCEPT ![d] = Nothing]
        /\ call' = [call EXCEPT ![o] = [kind |-> "unbind", dev |-> d, arg |-> Nothing]]
        /\ UNCHANGED <<devices, images, pls, rb, cursor, req, clock, nextPl, binds, ghosts>>
    BY <1>5 DEF UnbindPlaylist
  <2>2. PlType'
    BY <2>1 DEF PlType
  <2>3. \A e \in Device : pb'[e] \in {pb[e], Nothing}
    BY <2>1 DEF PlType
  <2>4. RowsInv'
    BY <2>1, <2>3 DEF RowsInv, PlType, Playlist, OneSource, NoOrphanBinding
  <2>5. RequestsInv'
    BY <2>1 DEF RequestsInv, Handler
  <2> QED
    BY <2>1, <2>2, <2>4, <2>5, RotationKept
<1> QED
  BY <1>1, <1>2, <1>3, <1>4, <1>5 DEF Admission

\* One device's bindings are replaced and its managed playlists reaped, save
\* the one it is bound to: both tables, the rotation and the playlists agree.
LEMMA ReplaceKeeps ==
  ASSUME PlInv, NEW d \in Device, NEW x \in Pl \cup {Nothing}, NEW y \in Fn \cup {Nothing},
         NEW S \in SUBSET Managed(d),
         pls' = Gone(S), pb' = [Unbound(S) EXCEPT ![d] = x], rb' = [rb EXCEPT ![d] = y],
         cursor' = [cursor EXCEPT ![d] = NoCursor],
         x # Nothing => y = Nothing /\ x \in Live \ S,
         \A p \in Managed(d) \ S : x \in {p, Nothing} /\ y = Nothing,
         devices' \subseteq Device, ghosts' \subseteq Device,
         x # Nothing \/ y # Nothing => d \in devices' \cup ghosts',
         \A e \in Device \ {d} : e \in devices \cup ghosts => e \in devices' \cup ghosts',
         binds' \in [Device -> Nat], \A e \in Device \ {d} : binds'[e] = binds[e],
         UNCHANGED <<images, clock, nextPl>>
  PROVE  PlType' /\ RowsInv' /\ RotationInv'
<1> USE DEF PlInv
<1>s. /\ S \subseteq Pl
      /\ \A p \in Pl : pls[p].owner = d => p \in Managed(d)
      /\ \A p \in S : pls[p].owner = d
  BY DEF Managed, Live, RowsInv, PlType
<1>g. /\ pls' \in [Pl -> Playlist]
      /\ \A p \in S : ~pls'[p].live /\ pls'[p].owner = NoDev /\ pls'[p].items = <<>>
      /\ \A p \in Pl \ S : pls'[p] = pls[p]
  BY <1>s, GoneType
<1>u. /\ pb' \in [Device -> Pl \cup {Nothing}] /\ pb'[d] = x
      /\ \A e \in Device \ {d} : pb'[e] = IF pb[e] \in S THEN Nothing ELSE pb[e]
  BY UnboundType
<1>r. /\ rb' \in [Device -> Fn \cup {Nothing}] /\ rb'[d] = y
      /\ \A e \in Device \ {d} : rb'[e] = rb[e]
  BY DEF PlType
<1>1. PlType'
  BY <1>g, <1>u, <1>r, NoCursorType DEF PlType
<1>2. RowsInv'
  <2>1. \A p \in Pl : \A k \in DOMAIN pls'[p].items : pls'[p].items[k] \in images'
    BY <1>g DEF RowsInv
  <2>2. /\ \A p \in Pl : ~pls'[p].live => pls'[p].owner = NoDev /\ pls'[p].items = <<>>
        /\ \A p \in Pl : pls'[p].live => p < nextPl'
        /\ \A p \in Pl : pls'[p].owner # NoDev => pls'[p] = pls[p] /\ p \notin S
    BY <1>g DEF RowsInv
  <2>3. \A p, q \in Pl : pls'[p].owner # NoDev /\ pls'[p].owner = pls'[q].owner => p = q
    BY <2>2 DEF RowsInv
  <2>4. ASSUME NEW p \in Pl, pls'[p].owner # NoDev
        PROVE  pb'[pls'[p].owner] \in {p, Nothing} /\ rb'[pls'[p].owner] = Nothing
    <3>1. pls'[p] = pls[p] /\ p \notin S /\ pls[p].owner \in Device
      BY <2>2, <2>4 DEF PlType, Playlist
    <3>2. CASE pls[p].owner = d
      BY <1>s, <1>u, <1>r, <3>1, <3>2
    <3>3. CASE pls[p].owner # d
      BY <1>u, <1>r, <2>4, <3>1, <3>3 DEF RowsInv
    <3> QED
      BY <3>2, <3>3
  <2>5. ASSUME NEW e \in Device, pb'[e] # Nothing PROVE pls'[pb'[e]].live
    <3>1. CASE e = d
      BY <1>g, <1>u, <2>5, <3>1 DEF Live
    <3>2. CASE e # d
      <4>1. pb'[e] = pb[e] /\ pb[e] \in Pl \ S
        BY <1>u, <2>5, <3>2 DEF PlType
      <4> QED
        BY <1>g, <2>5, <4>1 DEF RowsInv
    <3> QED
      BY <3>1, <3>2
  <2>6. OneSource' /\ NoOrphanBinding'
    BY <1>u, <1>r DEF RowsInv, OneSource, NoOrphanBinding
  <2> QED
    BY <2>1, <2>2, <2>3, <2>4, <2>5, <2>6 DEF RowsInv
<1>3. RotationInv'
  <2>1. \A e \in Device : \/ cursor'[e] = NoCursor
                          \/ cursor'[e] = cursor[e] /\ binds'[e] = binds[e]
    BY DEF PlType
  <2> QED
    BY <2>1, RotationReset
<1> QED
  BY <1>1, <1>2, <1>3

\* A bind counts for its device alone, and marks it when its row is gone.
LEMMA BoundSpec ==
  ASSUME PlType, NEW d \in Device, Bound(d), UNCHANGED devices
  PROVE  /\ devices' \subseteq Device /\ ghosts' \subseteq Device /\ d \in devices' \cup ghosts'
         /\ \A e \in Device \ {d} : e \in devices \cup ghosts => e \in devices' \cup ghosts'
         /\ binds' \in [Device -> Nat] /\ \A e \in Device \ {d} : binds'[e] = binds[e]
BY DEF Bound, PlType

LEMMA BindPlaylistKeeps ==
  ASSUME PlInv, NEW o \in Op, BindPlaylist(o) PROVE PlInv'
<1> DEFINE d == call[o].dev
           p == call[o].arg
           reap == Managed(d) \ {p}
<1>1. d \in Device /\ p \in Pl /\ p \in Live \ reap
  BY DEF BindPlaylist, PlInv, RequestsInv, Handler
<1>2. /\ pls' = Gone(reap) /\ pb' = [Unbound(reap) EXCEPT ![d] = p]
      /\ rb' = [rb EXCEPT ![d] = Nothing] /\ cursor' = [cursor EXCEPT ![d] = NoCursor]
      /\ Bound(d) /\ Idle(o) /\ UNCHANGED <<devices, images, req, clock, nextPl>>
  BY DEF BindPlaylist
<1>3. \A q \in Managed(d) \ reap : q = p
  OBVIOUS
<1>4. reap \in SUBSET Managed(d)
  OBVIOUS
<1> HIDE DEF d, p, reap
<1>5. /\ devices' \subseteq Device /\ ghosts' \subseteq Device /\ d \in devices' \cup ghosts'
      /\ \A e \in Device \ {d} : e \in devices \cup ghosts => e \in devices' \cup ghosts'
      /\ binds' \in [Device -> Nat] /\ \A e \in Device \ {d} : binds'[e] = binds[e]
  BY <1>1, <1>2, BoundSpec DEF PlInv
<1>6. PlType' /\ RowsInv' /\ RotationInv'
  BY <1>1, <1>2, <1>3, <1>4, <1>5, ReplaceKeeps
<1>7. RequestsInv'
  BY <1>2, CallDone DEF PlInv
<1> QED
  BY <1>6, <1>7 DEF PlInv

LEMMA BindDeviceKeeps ==
  ASSUME PlInv, NEW o \in Op, BindDevice(o) PROVE PlInv'
<1> DEFINE d == call[o].dev
           f == call[o].arg
           reap == Managed(d)
<1>1. d \in Device /\ f \in Fn
  BY DEF BindDevice, PlInv, RequestsInv, Handler
<1>2. /\ pls' = Gone(reap) /\ pb' = [Unbound(reap) EXCEPT ![d] = Nothing]
      /\ rb' = [rb EXCEPT ![d] = f] /\ cursor' = [cursor EXCEPT ![d] = NoCursor]
      /\ Bound(d) /\ Idle(o) /\ UNCHANGED <<devices, images, req, clock, nextPl>>
  BY DEF BindDevice
<1>4. reap \in SUBSET Managed(d) /\ Managed(d) \ reap = {}
  OBVIOUS
<1> HIDE DEF d, f, reap
<1>5. /\ devices' \subseteq Device /\ ghosts' \subseteq Device /\ d \in devices' \cup ghosts'
      /\ \A e \in Device \ {d} : e \in devices \cup ghosts => e \in devices' \cup ghosts'
      /\ binds' \in [Device -> Nat] /\ \A e \in Device \ {d} : binds'[e] = binds[e]
  BY <1>1, <1>2, BoundSpec DEF PlInv
<1>6. PlType' /\ RowsInv' /\ RotationInv'
  BY <1>1, <1>2, <1>4, <1>5, ReplaceKeeps
<1>7. RequestsInv'
  BY <1>2, CallDone DEF PlInv
<1> QED
  BY <1>6, <1>7 DEF PlInv

LEMMA DeleteDeviceKeeps ==
  ASSUME PlInv, NEW d \in Device, DeleteDevice(d) PROVE PlInv'
<1> DEFINE reap == Managed(d)
<1>2. /\ pls' = Gone(reap) /\ pb' = [Unbound(reap) EXCEPT ![d] = Nothing]
      /\ rb' = [rb EXCEPT ![d] = Nothing] /\ cursor' = [cursor EXCEPT ![d] = NoCursor]
      /\ devices' = devices \ {d} /\ ghosts' = ghosts \ {d}
      /\ UNCHANGED <<images, call, req, clock, nextPl, binds>>
  BY DEF DeleteDevice, Delete
<1>4. reap \in SUBSET Managed(d) /\ Managed(d) \ reap = {}
  OBVIOUS
<1> HIDE DEF reap
<1>5. /\ devices' \subseteq Device /\ ghosts' \subseteq Device
      /\ \A e \in Device \ {d} : e \in devices \cup ghosts => e \in devices' \cup ghosts'
      /\ binds' \in [Device -> Nat] /\ \A e \in Device \ {d} : binds'[e] = binds[e]
  BY <1>2 DEF PlInv, PlType
<1>6. PlType' /\ RowsInv' /\ RotationInv'
  BY <1>2, <1>4, <1>5, ReplaceKeeps
<1>7. RequestsInv'
  BY <1>2, RequestsKept DEF PlInv
<1> QED
  BY <1>6, <1>7 DEF PlInv

\* The playlist SetManagedImage writes: the device's managed one, or a new one.
LEMMA ManagedTarget ==
  ASSUME PlInv, NEW d \in Device, Managed(d) # {} \/ nextPl <= MaxPl,
         NEW p, p = IF Managed(d) # {} THEN CHOOSE x \in Managed(d) : TRUE ELSE nextPl
  PROVE  /\ p \in Pl /\ p <= nextPl
         /\ pls[p].live <=> p # nextPl
         /\ pls[p].live => pls[p].owner = d
         /\ \A q \in Pl : pls[q].owner = d => q = p
<1> USE DEF PlInv
<1>0. /\ Managed(d) \subseteq Pl
      /\ \A q \in Managed(d) : pls[q].live /\ pls[q].owner = d
      /\ \A q \in Pl : pls[q].owner = d => q \in Managed(d)
  BY DEF Managed, Live, RowsInv, PlType
<1>1. CASE Managed(d) # {}
  <2>1. p \in Managed(d)
    BY <1>1
  <2> QED
    BY <1>0, <2>1 DEF RowsInv, PlType, Pl
<1>2. CASE Managed(d) = {}
  BY <1>0, <1>2 DEF RowsInv, PlType, Pl
<1> QED
  BY <1>1, <1>2

LEMMA SetManagedImageKeeps ==
  ASSUME PlInv, NEW o \in Op, SetManagedImage(o) PROVE PlInv'
<1> USE DEF PlInv
<1> DEFINE d == call[o].dev
           i == call[o].arg
           p == IF Managed(d) # {} THEN CHOOSE x \in Managed(d) : TRUE ELSE nextPl
           new == [live |-> TRUE, owner |-> d, items |-> <<i>>]
<1>1. d \in Device /\ i \in images /\ i \in Image
  BY DEF SetManagedImage, RequestsInv, Handler
<1>2. /\ Managed(d) # {} \/ nextPl <= MaxPl
      /\ pls' = [pls EXCEPT ![p] = new] /\ pb' = [pb EXCEPT ![d] = p]
      /\ nextPl' = IF p = nextPl THEN nextPl + 1 ELSE nextPl
      /\ rb' = [rb EXCEPT ![d] = Nothing] /\ cursor' = [cursor EXCEPT ![d] = NoCursor]
      /\ Bound(d) /\ Idle(o) /\ UNCHANGED <<devices, images, req, clock>>
  BY DEF SetManagedImage
<1>n. new.live /\ new.owner = d /\ new.items = <<i>> /\ new \in Playlist
  BY <1>1 DEF Playlist
<1>3. /\ p \in Pl /\ p <= nextPl /\ (pls[p].live <=> p # nextPl)
      /\ pls[p].live => pls[p].owner = d
      /\ \A q \in Pl : pls[q].owner = d => q = p
  BY <1>1, <1>2, ManagedTarget
<1> HIDE DEF d, i, p, new
<1>5. /\ devices' \subseteq Device /\ ghosts' \subseteq Device /\ d \in devices' \cup ghosts'
      /\ \A e \in Device \ {d} : e \in devices \cup ghosts => e \in devices' \cup ghosts'
      /\ binds' \in [Device -> Nat] /\ \A e \in Device \ {d} : binds'[e] = binds[e]
  BY <1>1, <1>2, BoundSpec
<1>6. pls' \in [Pl -> Playlist] /\ \A q \in Pl : pls'[q] = IF q = p THEN new ELSE pls[q]
  BY <1>2, <1>3, <1>n DEF PlType
<1>7. /\ \A e \in Device : pb'[e] = IF e = d THEN p ELSE pb[e]
      /\ \A e \in Device : rb'[e] = IF e = d THEN Nothing ELSE rb[e]
  BY <1>1, <1>2 DEF PlType
<1>8. nextPl' \in Nat \ {0} /\ nextPl <= nextPl' /\ p < nextPl'
  BY <1>2, <1>3 DEF PlType, Pl
<1>9. PlType'
  BY <1>1, <1>2, <1>3, <1>5, <1>6, <1>8, NoCursorType DEF PlType
<1>10. RowsInv'
  <2>1. \A q \in Pl : \A k \in DOMAIN pls'[q].items : pls'[q].items[k] \in images'
    <3>1. \A k \in DOMAIN <<i>> : <<i>>[k] = i
      OBVIOUS
    <3> QED
      BY <1>1, <1>2, <1>6, <1>n, <3>1 DEF RowsInv
  <2>2. \A q \in Pl : ~pls'[q].live => pls'[q].owner = NoDev /\ pls'[q].items = <<>>
    BY <1>6, <1>n DEF RowsInv
  <2>3. ASSUME NEW q \in Pl, pls'[q].live PROVE q < nextPl'
    <3>1. q = p \/ q < nextPl
      BY <1>6, <2>3 DEF RowsInv
    <3>2. q \in Nat /\ nextPl \in Nat
      BY DEF PlType, Pl
    <3> QED
      BY <1>8, <3>1, <3>2
  <2>4. \A q, q2 \in Pl : pls'[q].owner # NoDev /\ pls'[q].owner = pls'[q2].owner => q = q2
    BY <1>3, <1>6, <1>n DEF RowsInv
  <2>5. ASSUME NEW q \in Pl, pls'[q].owner # NoDev
        PROVE  pb'[pls'[q].owner] \in {q, Nothing} /\ rb'[pls'[q].owner] = Nothing
    <3>1. CASE q = p
      BY <1>1, <1>6, <1>7, <1>n, <3>1
    <3>2. CASE q # p
      <4>1. pls'[q] = pls[q] /\ pls[q].owner \in Device \ {d}
        BY <1>3, <1>6, <2>5, <3>2 DEF PlType, Playlist
      <4> QED
        BY <1>7, <2>5, <4>1 DEF RowsInv
    <3> QED
      BY <3>1, <3>2
  <2>6. \A e \in Device : pb'[e] # Nothing => pls'[pb'[e]].live
    BY <1>3, <1>6, <1>7, <1>n DEF RowsInv, PlType
  <2>7. OneSource' /\ NoOrphanBinding'
    BY <1>5, <1>7 DEF RowsInv, OneSource, NoOrphanBinding
  <2> QED
    BY <2>1, <2>2, <2>3, <2>4, <2>5, <2>6, <2>7 DEF RowsInv
<1>11. RotationInv'
  <2>1. \A e \in Device : \/ cursor'[e] = NoCursor
                          \/ cursor'[e] = cursor[e] /\ binds'[e] = binds[e]
    BY <1>2, <1>5 DEF PlType
  <2> QED
    BY <1>2, <2>1, RotationReset
<1>12. RequestsInv'
  BY <1>2, CallDone
<1> QED
  BY <1>9, <1>10, <1>11, <1>12

LEMMA DeletePlaylistKeeps ==
  ASSUME PlInv, NEW o \in Op, DeletePlaylist(o) PROVE PlInv'
<1> USE DEF PlInv
<1> DEFINE S == {call[o].arg}
<1>1. /\ pls' = Gone(S) /\ pb' = Unbound(S) /\ Idle(o)
      /\ UNCHANGED <<devices, images, rb, cursor, req, clock, nextPl, binds, ghosts>>
  BY DEF DeletePlaylist
<1>2. S \in SUBSET Pl
  BY DEF DeletePlaylist, Live
<1> HIDE DEF S
<1>3. \A p \in Pl \ S : \A k \in DOMAIN pls[p].items : pls[p].items[k] \in images'
  BY <1>1 DEF RowsInv
<1>4. RowsInv' /\ pls' \in [Pl -> Playlist] /\ pb' \in [Device -> Pl \cup {Nothing}]
  BY <1>1, <1>2, <1>3, WithdrawKeeps
<1>5. PlType'
  BY <1>1, <1>4 DEF PlType
<1> QED
  BY <1>1, <1>4, <1>5, CallDone, RotationKept

LEMMA CommitKeeps ==
  ASSUME PlInv, NEW o \in Op, Commit(o) PROVE PlInv'
<1>1. CASE Refused(o)
  <2>1. Idle(o) /\ UNCHANGED <<devices, images, pls, pb, rb, cursor, req, clock, nextPl, binds, ghosts>>
    BY <1>1 DEF Refused, tables
  <2>2. PlType'
    BY <2>1 DEF PlInv, PlType
  <2> QED
    BY <2>1, <2>2, CallDone, RowsKept, RotationKept DEF PlInv, rowVars
<1>2. CASE UnbindCursor(o)
  <2>1. /\ call[o].dev \in Device
        /\ cursor' = [cursor EXCEPT ![call[o].dev] = NoCursor] /\ Idle(o)
        /\ UNCHANGED <<devices, images, pls, pb, rb, req, clock, nextPl, binds, ghosts>>
    BY <1>2 DEF UnbindCursor, PlInv, RequestsInv, Handler
  <2>2. PlType'
    BY <2>1, NoCursorType DEF PlInv, PlType
  <2>3. \A e \in Device : \/ cursor'[e] = NoCursor
                          \/ cursor'[e] = cursor[e] /\ binds'[e] = binds[e]
    BY <2>1 DEF PlInv, PlType
  <2>4. RotationInv'
    BY <2>1, <2>3, RotationReset DEF PlInv
  <2> QED
    BY <2>1, <2>2, <2>4, CallDone, RowsKept DEF PlInv, rowVars
<1> QED
  BY <1>1, <1>2, BindPlaylistKeeps, SetManagedImageKeeps, BindDeviceKeeps, DeletePlaylistKeeps
     DEF Commit

-----------------------------------------------------------------------------
(* Devices, frame requests, time.                                          *)

LEMMA DevicesKeep ==
  ASSUME PlInv, NEW d \in Device, UnbindFunction(d) \/ PostDevice(d) PROVE PlInv'
<1> USE DEF PlInv
<1>1. CASE UnbindFunction(d)
  <2>1. /\ rb' = [rb EXCEPT ![d] = Nothing]
        /\ UNCHANGED <<devices, images, pls, pb, cursor, call, req, clock, nextPl, binds, ghosts>>
    BY <1>1 DEF UnbindFunction, Unbind
  <2>2. \A e \in Device : rb'[e] \in {rb[e], Nothing}
    BY <2>1 DEF PlType
  <2>3. RowsInv'
    BY <2>1, <2>2 DEF RowsInv, PlType, Playlist, OneSource, NoOrphanBinding
  <2>4. PlType'
    BY <2>1 DEF PlType
  <2> QED
    BY <2>1, <2>3, <2>4, RequestsKept, RotationKept
<1>2. CASE PostDevice(d)
  <2>1. /\ devices' = devices \cup {d}
        /\ UNCHANGED <<images, pls, pb, rb, cursor, call, req, clock, nextPl, binds, ghosts>>
    BY <1>2 DEF PostDevice, Register
  <2>2. RowsInv' /\ PlType'
    BY <2>1 DEF RowsInv, PlType, OneSource, NoOrphanBinding
  <2> QED
    BY <2>1, <2>2, RequestsKept, RotationKept
<1> QED
  BY <1>1, <1>2

LEMMA IdleReqType == IdleReq \in Request /\ IdleReq.pc = "idle" /\ IdleReq.now = 0
BY EmptyItems DEF IdleReq, Request, Nothing

\* A frame request changes to x; the tables stay.
LEMMA RequestMoves ==
  ASSUME PlInv, NEW r \in Req, NEW x \in Request, req' = [req EXCEPT ![r] = x],
         x.now <= clock, x.pc \in {"items", "cursor"} => x.dev \in Device /\ x.pl \in Pl,
         x.pc = "cursor" => x.items # <<>>, UNCHANGED <<call, clock>>
  PROVE  RequestsInv'
BY DEF PlInv, RequestsInv, Handler

LEMMA RequestKeeps ==
  ASSUME PlInv, NEW r \in Req,
         (\E d \in Device : Render(r, d)) \/ RotationItems(r) \/ ResolveCursor(r) \/ ServeItem(r)
  PROVE  PlInv'
<1> USE DEF PlInv
<1>t. /\ req[r] \in Request /\ req[r].now <= clock /\ clock \in Nat
      /\ req[r].pc \in {"items", "cursor"} => req[r].dev \in Device /\ req[r].pl \in Pl
      /\ req[r].pc = "cursor" => req[r].items # <<>>
  BY DEF RequestsInv, PlType
<1>i. 0 <= clock
  BY <1>t
\* The tables stay.
<1>k. ASSUME UNCHANGED <<devices, images, pls, pb, rb, cursor, clock, nextPl, binds, ghosts>>
      PROVE  PlType' /\ RowsInv' /\ RotationInv'
  BY <1>k, RowsKept, RotationKept DEF PlType, rowVars
<1>1. ASSUME NEW d \in Device, Render(r, d) PROVE PlInv'
  <2> DEFINE x == [IdleReq EXCEPT !.pc = "items", !.dev = d, !.pl = pb[d], !.now = clock]
  <2>1. /\ req' = [req EXCEPT ![r] = x] /\ pb[d] # Nothing
        /\ UNCHANGED <<devices, images, pls, pb, rb, cursor, call, clock, nextPl, binds, ghosts>>
    BY <1>1 DEF Render, tables
  <2>2. pb[d] \in Pl
    BY <2>1 DEF PlType
  <2>3. IdleReq \in Request
    BY IdleReqType
  <2>4. /\ x \in Request /\ x.now <= clock /\ x.dev \in Device /\ x.pl \in Pl /\ x.pc = "items"
    <3> DEFINE y == [IdleReq EXCEPT !.pc = "items", !.dev = d]
    <3>1. y \in Request /\ y.pc = "items" /\ y.dev = d
      BY <2>3 DEF Request
    <3>2. x = [y EXCEPT !.pl = pb[d], !.now = clock]
      OBVIOUS
    <3> HIDE DEF x, y
    <3>3. x \in Request /\ x.now = clock /\ x.pl = pb[d] /\ x.pc = y.pc /\ x.dev = y.dev
      BY <1>t, <2>2, <3>1, <3>2 DEF Request
    <3> QED
      BY <1>t, <2>2, <3>1, <3>3
  <2> HIDE DEF x
  <2>5. RequestsInv'
    BY <2>1, <2>4, RequestMoves
  <2> QED
    BY <1>k, <2>1, <2>5
<1>2. CASE RotationItems(r)
  <2> DEFINE x == IF pls[req[r].pl].items = <<>> THEN IdleReq
                  ELSE [req[r] EXCEPT !.pc = "cursor", !.items = pls[req[r].pl].items]
  <2>1. /\ req' = [req EXCEPT ![r] = x] /\ req[r].pc = "items"
        /\ UNCHANGED <<devices, images, pls, pb, rb, cursor, call, clock, nextPl, binds, ghosts>>
    BY <1>2 DEF RotationItems, tables
  <2>2. pls[req[r].pl].items \in Seq(Image)
    BY <1>t, <2>1 DEF PlType, Playlist
  <2>3. /\ x \in Request /\ x.now <= clock
        /\ x.pc \in {"items", "cursor"} => x.dev \in Device /\ x.pl \in Pl
        /\ x.pc = "cursor" => x.items # <<>>
    <3>1. CASE pls[req[r].pl].items = <<>>
      BY <1>i, <3>1, IdleReqType
    <3>2. CASE pls[req[r].pl].items # <<>>
      BY <1>t, <2>1, <2>2, <3>2 DEF Request
    <3> QED
      BY <3>1, <3>2
  <2> HIDE DEF x
  <2>4. RequestsInv'
    BY <2>1, <2>3, RequestMoves
  <2> QED
    BY <1>k, <2>1, <2>4
<1>3. CASE ResolveCursor(r)
  <2> DEFINE d == req[r].dev
             n == Len(req[r].items)
             c == Resolve(cursor[d], req[r], n)
             x == [req[r] EXCEPT !.pc = "image",
                     !.img = IF c.pos < n THEN req[r].items[c.pos + 1] ELSE "range"]
  <2>1. /\ req[r].pc = "cursor" /\ cursor' = [cursor EXCEPT ![d] = c]
        /\ req' = [req EXCEPT ![r] = x]
        /\ UNCHANGED <<devices, images, pls, pb, rb, call, clock, nextPl, binds, ghosts>>
    BY <1>3 DEF ResolveCursor
  <2>2. d \in Device /\ req[r].pl \in Pl /\ cursor[d] \in Cursor /\ binds[d] \in Nat
    BY <1>t, <2>1 DEF PlType
  <2>3. n \in Nat \ {0} /\ req[r].items \in Seq(Image) /\ \A k \in 1..n : req[r].items[k] \in Image
    <3>1. req[r].items \in Seq(Image) /\ req[r].items # <<>>
      BY <1>t, <2>1 DEF Request
    <3> QED
      BY <3>1, EmptySeq, LenProperties, ElementOfSeq
  <2>4. /\ cursor[d].adv <= cursor[d].at - cursor[d].born /\ cursor[d].at <= clock
        /\ cursor[d].pl # Nothing => cursor[d].bind = binds[d]
    BY <2>2 DEF RotationInv
  <2>5. /\ c \in Cursor /\ c.pos < n /\ c.adv <= c.at - c.born /\ c.at <= clock
        /\ c.pl # Nothing => c.bind = binds[d]
    BY <1>t, <2>2, <2>3, <2>4, ResolveSpec
  <2> HIDE DEF c, n, d
  <2>6. req[r].items[c.pos + 1] \in Image
    <3>1. c.pos \in Nat
      BY <2>5 DEF Cursor
    <3> QED
      BY <2>3, <2>5, <3>1
  <2>7. x \in Request /\ x.pc = "image" /\ x.now = req[r].now
    BY <1>t, <2>5, <2>6 DEF Request
  <2> HIDE DEF x
  <2>8. RequestsInv'
    BY <1>t, <2>1, <2>7, RequestMoves
  <2>9. PlType' /\ RotationInv'
    BY <2>1, <2>2, <2>5 DEF PlType, RotationInv
  <2> QED
    BY <2>1, <2>8, <2>9, RowsKept DEF rowVars
<1>4. CASE ServeItem(r)
  <2>1. /\ req' = [req EXCEPT ![r] = IdleReq]
        /\ UNCHANGED <<devices, images, pls, pb, rb, cursor, call, clock, nextPl, binds, ghosts>>
    BY <1>4 DEF ServeItem, tables
  <2>2. RequestsInv'
    BY <1>i, <2>1, IdleReqType, RequestMoves
  <2> QED
    BY <1>k, <2>1, <2>2
<1> QED
  BY <1>1, <1>2, <1>3, <1>4

LEMMA TickKeeps == ASSUME PlInv, Tick PROVE PlInv'
<1> USE DEF PlInv
<1>1. /\ clock' = clock + 1
      /\ UNCHANGED <<devices, images, pls, pb, rb, cursor, call, req, nextPl, binds, ghosts>>
  BY DEF Tick, tables
<1>2. PlType' /\ RotationInv'
  BY <1>1 DEF PlType, RotationInv, Cursor
<1>3. RequestsInv'
  BY <1>1 DEF RequestsInv, Handler, PlType, Request
<1> QED
  BY <1>1, <1>2, <1>3, RowsKept DEF rowVars

LEMMA PlInvInit == PlInit => PlInv
<1> SUFFICES ASSUME PlInit PROVE PlInv
  OBVIOUS
<1>1. PlType
  BY EmptyItems, NoCursorType DEF PlInit, PlType, Playlist
<1>2. RequestsInv
  BY IdleReqType DEF PlInit, RequestsInv, Handler, IdleOp
<1>3. RowsInv
  BY DEF PlInit, RowsInv, OneSource, NoOrphanBinding
<1>4. RotationInv
  BY NoCursorType DEF PlInit, RotationInv
<1> QED
  BY <1>1, <1>2, <1>3, <1>4 DEF PlInv

LEMMA PlInvNext == PlInv /\ [PlNext]_plVars => PlInv'
<1> SUFFICES ASSUME PlInv, [PlNext]_plVars PROVE PlInv'
  OBVIOUS
<1>1. CASE Edit
  BY <1>1, CreateKeeps, PostItemKeeps, DropItemKeeps, PatchItemsKeeps, DeleteImageKeeps DEF Edit
<1>2. CASE UNCHANGED plVars
  <2>1. UNCHANGED <<devices, images, pls, pb, rb, cursor, call, req, clock, nextPl, binds, ghosts>>
    BY <1>2 DEF plVars, tables
  <2>2. PlType'
    BY <2>1 DEF PlInv, PlType
  <2> QED
    BY <2>1, <2>2, RowsKept, RequestsKept, RotationKept DEF PlInv, rowVars
<1> QED
  BY <1>1, <1>2, TickKeeps, AdmissionKeeps, CommitKeeps, DevicesKeep, DeleteDeviceKeeps, RequestKeeps
     DEF PlNext

LEMMA PlInvariant == PlSpec => []PlInv
BY PlInvInit, PlInvNext, PTL DEF PlSpec

-----------------------------------------------------------------------------
(* What the tables promise.                                                *)

LEMMA ManagedAtMostOne ==
  ASSUME PlInv, NEW d \in Device
  PROVE  /\ Cardinality(Managed(d)) <= 1
         /\ \A p \in Managed(d) : pb[d] \in {p, Nothing} /\ rb[d] = Nothing
<1>1. d # NoDev
  BY PlAssumption
<1>2. \A p, q \in Managed(d) : p = q
  BY <1>1 DEF Managed, Live, PlInv, RowsInv
<1>3. \A p \in Managed(d) : pb[d] \in {p, Nothing} /\ rb[d] = Nothing
  BY <1>1 DEF Managed, Live, PlInv, RowsInv
<1>4. CASE Managed(d) = {}
  BY <1>3, <1>4, FS_EmptySet
<1>5. CASE Managed(d) # {}
  <2>1. PICK p : p \in Managed(d)
    BY <1>5
  <2>2. Managed(d) = {p}
    BY <1>2, <2>1
  <2>3. Cardinality({p}) = 1
    BY FS_Singleton
  <2> QED
    BY <1>3, <2>2, <2>3
<1> QED
  BY <1>4, <1>5

LEMMA PlInvAgrees == PlInv => TablesAgree
<1> SUFFICES ASSUME PlInv PROVE TablesAgree
  OBVIOUS
<1>1. OneSource /\ NoOrphanBinding
  BY DEF PlInv, RowsInv
<1>2. ManagedReaped
  BY ManagedAtMostOne DEF ManagedReaped
<1>3. NothingDangles
  <2>1. \A p \in Live, i \in Image : Has(p, i) => i \in images
    BY DEF PlInv, RowsInv, Live, Has
  <2>2. \A d \in Device : pb[d] \in Live \cup {Nothing}
    BY DEF PlInv, RowsInv, PlType, Live
  <2>3. \A r \in Req : req[r].img # "range"
    <3>1. SUFFICES ASSUME NEW r \in Req PROVE req[r].img # "range"
      OBVIOUS
    <3>2. req[r].img \in Image \cup {NoDev}
      BY DEF PlInv, RequestsInv, Request
    <3> QED
      BY <3>2, PlAssumption DEF NoDev
  <2> QED
    BY <2>1, <2>2, <2>3 DEF NothingDangles
<1>4. AdvanceRate
  <2>1. SUFFICES ASSUME NEW d \in Device PROVE cursor[d].adv <= clock - cursor[d].born
    BY DEF AdvanceRate
  <2>2. cursor[d] \in Cursor /\ clock \in Nat
    BY DEF PlInv, PlType
  <2>3. cursor[d].adv \in Nat /\ cursor[d].at \in Nat /\ cursor[d].born \in Nat
    BY <2>2 DEF Cursor
  <2>4. cursor[d].adv <= cursor[d].at - cursor[d].born /\ cursor[d].at <= clock
    BY DEF PlInv, RotationInv
  <2> QED
    BY <2>2, <2>3, <2>4
<1>5. CursorOfBinding
  BY DEF PlInv, RotationInv, CursorOfBinding
<1> QED
  BY <1>1, <1>2, <1>3, <1>4, <1>5 DEF TablesAgree

\* Whatever operators, deletions, cascades and frame requests overlap, and
\* however many devices, playlists and images there are: a device has one
\* source, a managed playlist one panel, nothing dangles, an orphan binding
\* comes only from an overtaken check, and a rotation keeps its pace.
THEOREM TablesAlwaysAgree == PlSpec => []TablesAgree
BY PlInvariant, PlInvAgrees, PTL

-----------------------------------------------------------------------------
(* The refinement of Panel: each step of the tables is a step of the       *)
(* register, or leaves it alone.                                           *)

\* What the mapped variables are, device by device.
LEMMA ShownValues ==
  ASSUME PlInv, NEW d \in Device
  PROVE  /\ Shows(d) \in Live \cup Fn \cup {Nothing}
         /\ pb[d] # Nothing => rb[d] = Nothing /\ Shows(d) = pb[d] /\ pb[d] \in Live
         /\ pb[d] = Nothing => Shows(d) = rb[d] /\ rb[d] \in Fn \cup {Nothing}
         /\ rb[d] \notin Pl
<1>1. pb[d] \in Pl \cup {Nothing} /\ rb[d] \in Fn \cup {Nothing}
  BY DEF PlInv, PlType
<1>2. pb[d] # Nothing => rb[d] = Nothing /\ pls[pb[d]].live
  BY DEF PlInv, RowsInv, OneSource
<1>3. Nothing \notin Pl
  BY DEF Nothing, Pl
<1> QED
  BY <1>1, <1>2, <1>3, PlAssumption DEF Shows, Live

LEMMA StutterStep ==
  ASSUME UNCHANGED <<pb, rb>>, \A p \in Pl : pls'[p].live = pls[p].live
  PROVE  UNCHANGED <<[d \in Device |-> Shows(d)], Live \cup Fn>>
<1>1. Live' = Live
  BY DEF Live
<1>2. \A d \in Device : Shows(d)' = Shows(d)
  BY DEF Shows
<1> QED
  BY <1>1, <1>2

\* Playlists D go and N are made; exactly the devices that showed one of D
\* go blank.
LEMMA RenewStep ==
  ASSUME NEW D \in SUBSET Live, NEW N \in SUBSET (Pl \ Live), Live' = (Live \ D) \cup N,
         \A d \in Device : Shows(d)' = IF Shows(d) \in D THEN Nothing ELSE Shows(d)
  PROVE  P!PanelNext
<1> DEFINE made == Live \cup Fn
           shows == [d \in Device |-> Shows(d)]
<1>1. Live \subseteq Pl
  BY DEF Live
<1>2. D \in SUBSET made /\ N \in SUBSET ((Pl \cup Fn) \ made)
  BY <1>1, PlAssumption
<1>3. made' = (made \ D) \cup N
  BY <1>1, PlAssumption
<1>4. shows' = [d \in Device |-> IF shows[d] \in D THEN Nothing ELSE shows[d]]
  OBVIOUS
<1>5. P!Renew(D, N)
  BY <1>3, <1>4 DEF P!Renew, P!Withdrawn
<1> QED
  BY <1>2, <1>5 DEF P!PanelNext

\* Device e now shows c; playlists D, kept for it, go and N are made for it.
LEMMA ReplaceStep ==
  ASSUME NEW D \in SUBSET Live, NEW N \in SUBSET (Pl \ Live), Live' = (Live \ D) \cup N,
         NEW e \in Device, NEW c \in Live' \cup Fn \cup {Nothing}, Shows(e)' = c,
         \A d \in Device \ {e} : Shows(d)' = IF Shows(d) \in D THEN Nothing ELSE Shows(d)
  PROVE  P!PanelNext
<1> DEFINE made == Live \cup Fn
           shows == [d \in Device |-> Shows(d)]
<1>1. Live \subseteq Pl
  BY DEF Live
<1>2. D \in SUBSET made /\ N \in SUBSET ((Pl \cup Fn) \ made)
  BY <1>1, PlAssumption
<1>3. made' = (made \ D) \cup N /\ c \in made' \cup {Nothing} /\ c \in (Pl \cup Fn) \cup {Nothing}
  BY <1>1, PlAssumption
<1>4. shows' = [[d \in Device |-> IF shows[d] \in D THEN Nothing ELSE shows[d]] EXCEPT ![e] = c]
  OBVIOUS
<1>5. P!Replace(e, c, D, N)
  BY <1>3, <1>4 DEF P!Replace, P!Withdrawn
<1> QED
  BY <1>2, <1>3, <1>5 DEF P!PanelNext

\* Unbound(D) takes a device off what it showed in D, and leaves the others.
LEMMA WithdrawnShows ==
  ASSUME PlInv, NEW D \in SUBSET Live, NEW d \in Device,
         pb'[d] = (IF pb[d] \in D THEN Nothing ELSE pb[d]), rb'[d] = rb[d]
  PROVE  Shows(d)' = IF Shows(d) \in D THEN Nothing ELSE Shows(d)
<1>1. /\ pb[d] # Nothing => rb[d] = Nothing /\ Shows(d) = pb[d]
      /\ pb[d] = Nothing => Shows(d) = rb[d]
      /\ rb[d] \notin Pl
  BY ShownValues
<1>2. Nothing \notin Pl
  BY DEF Nothing, Pl
<1>3. Nothing \notin D /\ rb[d] \notin D
  BY <1>1, <1>2 DEF Live
<1> QED
  BY <1>1, <1>3 DEF Shows

LEMMA GoneLive ==
  ASSUME NEW D \in SUBSET Live, pls' = Gone(D) PROVE Live' = Live \ D
BY DEF Gone, Live

LEMMA GoneRenews ==
  ASSUME PlInv, NEW D \in SUBSET Live, pls' = Gone(D), pb' = Unbound(D), UNCHANGED rb
  PROVE  P!PanelNext
<1>1. \A d \in Device : Shows(d)' = IF Shows(d) \in D THEN Nothing ELSE Shows(d)
  BY WithdrawnShows DEF Unbound
<1>2. Live' = (Live \ D) \cup {}
  BY GoneLive
<1> QED
  BY <1>1, <1>2, RenewStep

\* The shape of BindPlaylist, BindDevice and Delete: x and y are the two
\* bindings the device is left with.
LEMMA GoneReplaces ==
  ASSUME PlInv, NEW D \in SUBSET Live, NEW e \in Device, NEW x, NEW y, pls' = Gone(D),
         pb' = [Unbound(D) EXCEPT ![e] = x], rb' = [rb EXCEPT ![e] = y],
         \/ x \in Live \ D /\ y = Nothing
         \/ x = Nothing /\ y \in Fn \cup {Nothing}
  PROVE  P!PanelNext
<1>1. \A d \in Device \ {e} : Shows(d)' = IF Shows(d) \in D THEN Nothing ELSE Shows(d)
  <2>1. SUFFICES ASSUME NEW d \in Device \ {e}
                 PROVE  Shows(d)' = IF Shows(d) \in D THEN Nothing ELSE Shows(d)
    OBVIOUS
  <2>2. pb'[d] = (IF pb[d] \in D THEN Nothing ELSE pb[d]) /\ rb'[d] = rb[d]
    BY DEF Unbound, PlInv, PlType
  <2> QED
    BY <2>2, WithdrawnShows
<1>2. Live' = (Live \ D) \cup {}
  BY GoneLive
<1>3. PICK c : c = Shows(e)'
  OBVIOUS
<1>4. c \in Live' \cup Fn \cup {Nothing}
  <2>1. pb'[e] = x /\ rb'[e] = y
    BY DEF Unbound, PlInv, PlType
  <2> QED
    BY <1>2, <1>3, <2>1 DEF Shows
<1>5. {} \in SUBSET (Pl \ Live)
  OBVIOUS
<1> QED
  <2>1. PICK N \in SUBSET (Pl \ Live) : N = {}
    BY <1>5
  <2>2. Live' = (Live \ D) \cup N
    BY <1>2, <2>1
  <2> QED
    BY <1>1, <1>3, <1>4, <2>2, ReplaceStep

LEMMA EditRefines ==
  ASSUME PlInv, Edit
  PROVE  P!PanelNext \/ UNCHANGED <<[d \in Device |-> Shows(d)], Live \cup Fn>>
<1>t. pls \in [Pl -> Playlist]
  BY DEF PlInv, PlType
<1>1. CASE Create
  <2>1. /\ nextPl <= MaxPl /\ pls' = [pls EXCEPT ![nextPl].live = TRUE] /\ UNCHANGED <<pb, rb>>
    BY <1>1 DEF Create, CreatePlaylist
  <2>2. nextPl \in Pl \ Live
    BY <2>1 DEF PlInv, PlType, RowsInv, Live, Pl
  <2>3. Live' = (Live \ {}) \cup {nextPl}
    BY <1>t, <2>1, <2>2 DEF Live, Playlist
  <2>4. \A d \in Device : Shows(d)' = IF Shows(d) \in {} THEN Nothing ELSE Shows(d)
    BY <2>1 DEF Shows
  <2>5. {} \in SUBSET Live /\ {nextPl} \in SUBSET (Pl \ Live)
    BY <2>2
  <2> QED
    BY <2>3, <2>4, <2>5, RenewStep
<1>2. ASSUME NEW p \in Pl,
             (\E i \in Image : PostItem(p, i)) \/ (\E k \in 1..MaxItems : DropItem(p, k)) \/ PatchItems(p)
      PROVE  UNCHANGED <<[d \in Device |-> Shows(d)], Live \cup Fn>>
  <2>1. UNCHANGED <<pb, rb>>
    BY <1>2 DEF PostItem, DropItem, PatchItems
  <2>2. PICK s : pls' = [pls EXCEPT ![p].items = s]
    BY <1>2 DEF PostItem, AddItem, DropItem, RemoveItem, PatchItems, Reorder
  <2>3. \A q \in Pl : pls'[q].live = pls[q].live
    BY <1>t, <2>2 DEF Playlist
  <2> QED
    BY <2>1, <2>3, StutterStep
<1>3. ASSUME NEW i \in Image, DeleteImage(i) PROVE P!PanelNext
  <2> DEFINE dead == {p \in Live : Has(p, i)}
  <2>1. dead \in SUBSET Live /\ pls' = Gone(dead) /\ pb' = Unbound(dead) /\ UNCHANGED rb
    BY <1>3 DEF DeleteImage, DeleteImageManagedAware
  <2> QED
    BY <2>1, GoneRenews
<1> QED
  BY <1>1, <1>2, <1>3 DEF Edit

LEMMA AdmissionRefines ==
  ASSUME PlInv, NEW o \in Op, Admission(o)
  PROVE  P!PanelNext \/ UNCHANGED <<[d \in Device |-> Shows(d)], Live \cup Fn>>
<1>1. ASSUME NEW k, NEW d, NEW a, Admit(o, k, d, a)
      PROVE  UNCHANGED <<[e \in Device |-> Shows(e)], Live \cup Fn>>
  <2>1. UNCHANGED <<pls, pb, rb>>
    BY <1>1 DEF Admit, tables
  <2> QED
    BY <2>1, StutterStep
<1>2. ASSUME NEW d \in Device, UnbindPlaylist(o, d) PROVE P!PanelNext
  <2>1. pb' = [pb EXCEPT ![d] = Nothing] /\ UNCHANGED <<pls, rb>>
    BY <1>2 DEF UnbindPlaylist
  <2>2. Live' = (Live \ {}) \cup {}
    BY <2>1 DEF Live
  <2>3. \A e \in Device \ {d} : Shows(e)' = IF Shows(e) \in {} THEN Nothing ELSE Shows(e)
    BY <2>1 DEF Shows, PlInv, PlType
  <2>4. Shows(d)' = rb[d] /\ rb[d] \in Fn \cup {Nothing}
    BY <2>1 DEF Shows, PlInv, PlType
  <2>5. {} \in SUBSET Live /\ {} \in SUBSET (Pl \ Live) /\ rb[d] \in Live' \cup Fn \cup {Nothing}
    BY <2>4
  <2> QED
    BY <2>2, <2>3, <2>4, <2>5, ReplaceStep
<1> QED
  BY <1>1, <1>2 DEF Admission, CheckBind, CheckImage, CheckFunction, CheckDelete

LEMMA BindPlaylistRefines ==
  ASSUME PlInv, NEW o \in Op, BindPlaylist(o) PROVE P!PanelNext
<1> DEFINE d == call[o].dev
           p == call[o].arg
           reap == Managed(d) \ {p}
<1>1. d \in Device /\ p \in Live \ reap /\ reap \in SUBSET Live
  BY DEF BindPlaylist, PlInv, RequestsInv, Handler, Managed
<1>2. /\ pls' = Gone(reap) /\ pb' = [Unbound(reap) EXCEPT ![d] = p]
      /\ rb' = [rb EXCEPT ![d] = Nothing]
  BY DEF BindPlaylist
<1> HIDE DEF d, p, reap
<1> QED
  BY <1>1, <1>2, GoneReplaces

LEMMA BindDeviceRefines ==
  ASSUME PlInv, NEW o \in Op, BindDevice(o) PROVE P!PanelNext
<1> DEFINE d == call[o].dev
           f == call[o].arg
           reap == Managed(d)
<1>1. d \in Device /\ f \in Fn /\ reap \in SUBSET Live
  BY DEF BindDevice, PlInv, RequestsInv, Handler, Managed
<1>2. /\ pls' = Gone(reap) /\ pb' = [Unbound(reap) EXCEPT ![d] = Nothing]
      /\ rb' = [rb EXCEPT ![d] = f]
  BY DEF BindDevice
<1> HIDE DEF d, f, reap
<1> QED
  BY <1>1, <1>2, GoneReplaces

\* The device's managed playlist is reused, or one is made for it.
LEMMA SetManagedImageRefines ==
  ASSUME PlInv, NEW o \in Op, SetManagedImage(o) PROVE P!PanelNext
<1> DEFINE d == call[o].dev
           p == IF Managed(d) # {} THEN CHOOSE x \in Managed(d) : TRUE ELSE nextPl
           new == [live |-> TRUE, owner |-> d, items |-> <<call[o].arg>>]
           made == IF p \in Live THEN {} ELSE {p}
<1>1. d \in Device /\ (Managed(d) # {} \/ nextPl <= MaxPl)
  BY DEF SetManagedImage, PlInv, RequestsInv, Handler
<1>2. /\ pls' = [pls EXCEPT ![p] = new] /\ pb' = [pb EXCEPT ![d] = p]
      /\ rb' = [rb EXCEPT ![d] = Nothing]
  BY DEF SetManagedImage
<1>3. p \in Pl /\ new.live /\ pls \in [Pl -> Playlist]
  BY <1>1, ManagedTarget DEF PlInv, PlType
<1> HIDE DEF d, p, new
<1>4. Live' = (Live \ {}) \cup made
  BY <1>2, <1>3 DEF Live
<1>5. {} \in SUBSET Live /\ made \in SUBSET (Pl \ Live) /\ p \in Live' \cup Fn \cup {Nothing}
  BY <1>3, <1>4
<1> HIDE DEF made
<1>6. PICK e, c, N : e = d /\ c = p /\ N = made
  OBVIOUS
<1>7. pb'[e] = c /\ \A x \in Device \ {e} : pb'[x] = pb[x] /\ rb'[x] = rb[x]
  BY <1>1, <1>2, <1>6 DEF PlInv, PlType
<1>8. c # Nothing
  BY <1>3, <1>6 DEF Nothing, Pl
<1>9. Shows(e)' = c
  BY <1>7, <1>8 DEF Shows
<1>10. \A x \in Device \ {e} : Shows(x)' = IF Shows(x) \in {} THEN Nothing ELSE Shows(x)
  BY <1>7 DEF Shows
<1> QED
  BY <1>1, <1>4, <1>5, <1>6, <1>9, <1>10, ReplaceStep

LEMMA CommitRefines ==
  ASSUME PlInv, NEW o \in Op, Commit(o)
  PROVE  P!PanelNext \/ UNCHANGED <<[d \in Device |-> Shows(d)], Live \cup Fn>>
<1>1. CASE DeletePlaylist(o)
  <2>1. call[o].arg \in Live /\ pls' = Gone({call[o].arg}) /\ pb' = Unbound({call[o].arg})
        /\ UNCHANGED rb
    BY <1>1 DEF DeletePlaylist
  <2> QED
    BY <2>1, GoneRenews
<1>2. CASE Refused(o) \/ UnbindCursor(o)
  <2>1. UNCHANGED <<pls, pb, rb>>
    BY <1>2 DEF Refused, UnbindCursor, tables
  <2> QED
    BY <2>1, StutterStep
<1> QED
  BY <1>1, <1>2, BindPlaylistRefines, SetManagedImageRefines, BindDeviceRefines DEF Commit

LEMMA DevicesRefine ==
  ASSUME PlInv, NEW d \in Device, UnbindFunction(d) \/ DeleteDevice(d) \/ PostDevice(d)
  PROVE  P!PanelNext \/ UNCHANGED <<[e \in Device |-> Shows(e)], Live \cup Fn>>
<1>1. CASE UnbindFunction(d)
  <2>1. rb[d] # Nothing /\ rb' = [rb EXCEPT ![d] = Nothing] /\ UNCHANGED <<pls, pb>>
    BY <1>1 DEF UnbindFunction, Unbind
  <2>2. pb[d] = Nothing
    BY <2>1, ShownValues
  <2>3. Shows(d)' = Nothing
    BY <2>1, <2>2 DEF Shows, PlInv, PlType
  <2>4. \A e \in Device \ {d} : Shows(e)' = IF Shows(e) \in {} THEN Nothing ELSE Shows(e)
    BY <2>1 DEF Shows, PlInv, PlType
  <2>5. Live' = (Live \ {}) \cup {} /\ {} \in SUBSET Live /\ {} \in SUBSET (Pl \ Live)
    BY <2>1 DEF Live
  <2> QED
    BY <2>3, <2>4, <2>5, ReplaceStep
<1>2. CASE DeleteDevice(d)
  <2>1. /\ pls' = Gone(Managed(d)) /\ pb' = [Unbound(Managed(d)) EXCEPT ![d] = Nothing]
        /\ rb' = [rb EXCEPT ![d] = Nothing]
    BY <1>2 DEF DeleteDevice, Delete
  <2>2. Managed(d) \in SUBSET Live
    BY DEF Managed
  <2> QED
    BY <2>1, <2>2, GoneReplaces
<1>3. CASE PostDevice(d)
  <2>1. UNCHANGED <<pls, pb, rb>>
    BY <1>3 DEF PostDevice
  <2> QED
    BY <2>1, StutterStep
<1> QED
  BY <1>1, <1>2, <1>3

LEMMA StepRefines ==
  PlInv /\ [PlNext]_plVars => [P!PanelNext]_<<[d \in Device |-> Shows(d)], Live \cup Fn>>
<1> SUFFICES ASSUME PlInv, [PlNext]_plVars
             PROVE  P!PanelNext \/ UNCHANGED <<[d \in Device |-> Shows(d)], Live \cup Fn>>
  OBVIOUS
<1>1. CASE Tick \/ UNCHANGED plVars
  <2>1. UNCHANGED <<pls, pb, rb>>
    BY <1>1 DEF Tick, plVars, tables
  <2> QED
    BY <2>1, StutterStep
<1>2. ASSUME NEW r \in Req,
             (\E d \in Device : Render(r, d)) \/ RotationItems(r) \/ ResolveCursor(r) \/ ServeItem(r)
      PROVE  UNCHANGED <<[d \in Device |-> Shows(d)], Live \cup Fn>>
  <2>1. UNCHANGED <<pls, pb, rb>>
    BY <1>2 DEF Render, RotationItems, ResolveCursor, ServeItem, tables
  <2> QED
    BY <2>1, StutterStep
<1> QED
  BY <1>1, <1>2, EditRefines, AdmissionRefines, CommitRefines, DevicesRefine DEF PlNext

LEMMA InitRefines == PlInit => P!PanelInit
<1> SUFFICES ASSUME PlInit PROVE P!PanelInit
  OBVIOUS
<1>1. \A d \in Device : Shows(d) = Nothing
  BY DEF PlInit, Shows
<1>2. Live \cup Fn \subseteq Pl \cup Fn
  BY DEF Live
<1> QED
  BY <1>1, <1>2 DEF P!PanelInit

\* The two binding tables, the playlists and their cascades, changed by
\* handlers whose checks may be overtaken, behave like one register per
\* device: an operation changes what one device shows, and only content that
\* ceases to exist takes it off the others.
THEOREM PlaylistsImplementPanel == PlSpec => RefinesPanel
BY PlInvariant, InitRefines, StepRefines, PTL DEF PlSpec, RefinesPanel, P!PanelSpec

-----------------------------------------------------------------------------
(* Browse.                                                                 *)

(* A finite set of numbers that is not empty has a greatest member.        *)
LEMMA GreatestNumber ==
  ASSUME NEW S, S \subseteq Int, IsFiniteSet(S), S # {}
  PROVE  \E x \in S : \A y \in S : x >= y
<1> DEFINE Over(x) == {y \in S : y > x}
           U == {Over(x) : x \in S}
           R == StrictSubsetOrdering(S)
<1>1. IsWellFoundedOn(R, FiniteSubsetsOf(S))
  BY FS_StrictSubsetOrderingWellFounded
<1>2. \A x \in S : Over(x) \in FiniteSubsetsOf(S)
  BY FS_FiniteSubsetsOfFinite
<1>3. U \subseteq FiniteSubsetsOf(S) /\ U # {}
  <2> HIDE DEF Over
  <2> QED
    BY <1>2
<1>4. PICK u \in U : \A v \in U : ~(<<v, u>> \in R)
  <2> HIDE DEF R, U
  <2> QED
    BY <1>1, <1>3, WFMin
<1>5. PICK x \in S : u = Over(x)
  OBVIOUS
<1>6. ASSUME NEW y \in S, y > x PROVE FALSE
  <2>1. y \in Over(x) /\ y \notin Over(y)
    BY <1>6
  <2>2. Over(y) \subseteq Over(x)
    <3> SUFFICES ASSUME NEW z \in S, z > y PROVE z > x
      OBVIOUS
    <3>1. x \in Int /\ y \in Int /\ z \in Int
      OBVIOUS
    <3> QED
      BY <1>6, <3>1
  <2>3. <<Over(y), Over(x)>> \in R
    <3> HIDE DEF Over
    <3> QED
      BY <1>2, <2>1, <2>2 DEF StrictSubsetOrdering, FiniteSubsetsOf
  <2>4. Over(y) \in U
    <3> HIDE DEF Over
    <3> QED
      OBVIOUS
  <2> QED
    BY <1>4, <1>5, <2>3, <2>4
<1>7. \A y \in S : x >= y
  BY <1>6
<1> QED
  BY <1>7

LEMMA LargestFacts ==
  ASSUME NEW S, S \subseteq Nat, IsFiniteSet(S)
  PROVE  Largest(S) \in S \cup {-1} /\ \A y \in S : Largest(S) >= y
<1>1. \E x \in S \cup {-1} : \A y \in S : x >= y
  <2>1. CASE S = {}
    BY <2>1
  <2>2. CASE S # {}
    <3>1. S \subseteq Int
      OBVIOUS
    <3>2. PICK x \in S : \A y \in S : x >= y
      BY <2>2, <3>1, GreatestNumber
    <3> QED
      BY <3>2
  <2> QED
    BY <2>1, <2>2
<1> QED
  BY <1>1 DEF Largest

\* A finite set of rows with a key each.
Ordered(S) ==
  /\ IsFiniteSet(S) /\ \A r \in S : At(r) \in Nat
  /\ \A r, q \in S : At(r) = At(q) => r = q

LEMMA Ranks ==
  ASSUME NEW S, Ordered(S)
  PROVE  \E f \in [S -> 1..Cardinality(S)] :
           /\ \A r \in S : f[r] = Cardinality({q \in S : At(q) < At(r)}) + 1
           /\ \A r, q \in S : At(q) < At(r) <=> f[q] < f[r]
           /\ \A k \in 1..Cardinality(S) : \E r \in S : f[r] = k
<1> DEFINE Under(r) == {q \in S : At(q) < At(r)}
           f == [r \in S |-> Cardinality(Under(r)) + 1]
           n == Cardinality(S)
<1>1. IsFiniteSet(S) /\ n \in Nat
  BY FS_CardinalityType DEF Ordered
<1>2. \A r \in S : At(r) \in Nat
  BY DEF Ordered
<1>3. ASSUME NEW r \in S
      PROVE  IsFiniteSet(Under(r)) /\ Cardinality(Under(r)) \in Nat /\ Cardinality(Under(r)) + 1 <= n
  <2>1. Under(r) \subseteq S \ {r}
    BY <1>2
  <2>2. IsFiniteSet(S \ {r}) /\ Cardinality(S \ {r}) = n - 1
    BY <1>1, FS_RemoveElement
  <2>3. IsFiniteSet(Under(r)) /\ Cardinality(Under(r)) <= Cardinality(S \ {r})
    <3> HIDE DEF Under
    <3> QED
      BY <2>1, <2>2, FS_Subset
  <2>4. Cardinality(Under(r)) \in Nat
    <3> HIDE DEF Under
    <3> QED
      BY <2>3, FS_CardinalityType
  <2> HIDE DEF Under, n
  <2> QED
    BY <1>1, <2>2, <2>3, <2>4
<1>4. ASSUME NEW r \in S, NEW q \in S, At(q) < At(r)
      PROVE  Cardinality(Under(q)) < Cardinality(Under(r))
  <2>1. Under(q) \cup {q} \subseteq Under(r) /\ q \notin Under(q)
    BY <1>2, <1>4
  <2> HIDE DEF Under
  <2>2. Cardinality(Under(q) \cup {q}) = Cardinality(Under(q)) + 1
    BY <1>3, <2>1, FS_AddElement
  <2>3. Cardinality(Under(q) \cup {q}) <= Cardinality(Under(r))
    BY <1>3, <2>1, FS_Subset
  <2> QED
    BY <1>3, <2>2, <2>3
<1>5. f \in [S -> 1..n] /\ \A r \in S : f[r] = Cardinality(Under(r)) + 1
  <2> HIDE DEF Under, n
  <2>1. \A r \in S : Cardinality(Under(r)) + 1 \in 1..n
    BY <1>1, <1>3
  <2> QED
    BY <2>1
<1> HIDE DEF f
<1>6. \A r, q \in S : At(q) < At(r) => f[q] < f[r]
  <2> SUFFICES ASSUME NEW r \in S, NEW q \in S, At(q) < At(r) PROVE f[q] < f[r]
    OBVIOUS
  <2> HIDE DEF Under
  <2> QED
    BY <1>3, <1>4, <1>5
<1>7. \A r, q \in S : r = q \/ At(q) < At(r) \/ At(r) < At(q)
  BY <1>2 DEF Ordered
<1>8. \A r, q \in S : f[r] \in Int /\ f[q] \in Int
  BY <1>5
<1>9. \A r, q \in S : f[q] < f[r] => At(q) < At(r)
  BY <1>6, <1>7, <1>8
<1>10. f \in Injection(S, 1..n)
  <2>1. \A r, q \in S : f[r] = f[q] => r = q
    BY <1>6, <1>7, <1>8
  <2> QED
    BY <1>5, <2>1 DEF Injection, IsInjective
<1>11. IsFiniteSet(1..n) /\ Cardinality(1..n) = n
  BY <1>1, FS_Interval
<1>12. f \in Surjection(S, 1..n)
  <2> HIDE DEF n
  <2>1. Cardinality(S) = Cardinality(1..n)
    BY <1>11 DEF n
  <2> QED
    BY <1>10, <1>11, <2>1, FS_Injection
<1>13. \A k \in 1..n : \E r \in S : f[r] = k
  BY <1>12 DEF Surjection
<1> QED
  BY <1>5, <1>6, <1>9, <1>13

LEMMA OrderFacts ==
  ASSUME NEW S, Ordered(S)
  PROVE  LET s == InOrder(S) IN
         /\ s \in [1..Cardinality(S) -> S]
         /\ \A i, j \in 1..Cardinality(S) : s[i] = s[j] => i = j
         /\ \A r \in S : \E i \in 1..Cardinality(S) : s[i] = r
<1> DEFINE n == Cardinality(S)
           s == InOrder(S)
<1>1. IsFiniteSet(S) /\ n \in Nat /\ IsFiniteSet(1..n) /\ Cardinality(1..n) = n
  <2>1. IsFiniteSet(S) /\ n \in Nat
    BY FS_CardinalityType DEF Ordered
  <2> QED
    BY <2>1, FS_Interval
<1>2. PICK f \in [S -> 1..n] :
        /\ \A r, q \in S : At(q) < At(r) <=> f[q] < f[r]
        /\ \A k \in 1..n : \E r \in S : f[r] = k
  BY Ranks
<1> DEFINE g == [i \in 1..n |-> CHOOSE r \in S : f[r] = i]
<1>3. \A i \in 1..n : g[i] \in S /\ f[g[i]] = i
  BY <1>2
<1>4. g \in [1..n -> S]
  BY <1>3
<1>5. \A i, j \in 1..n : i < j => At(g[i]) < At(g[j])
  <2> HIDE DEF g, n
  <2> QED
    BY <1>2, <1>3
<1>6. s \in [1..n -> S] /\ \A i, j \in 1..n : i < j => At(s[i]) < At(s[j])
  <2> HIDE DEF g
  <2> QED
    BY <1>4, <1>5 DEF InOrder
<1> HIDE DEF s, g
<1>7. \A i, j \in 1..n : s[i] = s[j] => i = j
  <2> SUFFICES ASSUME NEW i \in 1..n, NEW j \in 1..n, i # j PROVE s[i] # s[j]
    OBVIOUS
  <2>1. i < j \/ j < i
    BY <1>1
  <2>2. At(s[i]) \in Nat /\ At(s[j]) \in Nat
    BY <1>6 DEF Ordered
  <2>3. At(s[i]) < At(s[j]) \/ At(s[j]) < At(s[i])
    BY <1>6, <2>1
  <2>4. At(s[i]) # At(s[j])
    BY <2>2, <2>3
  <2> QED
    BY <2>4
<1>8. s \in Surjection(1..n, S)
  <2>1. s \in Injection(1..n, S)
    BY <1>6, <1>7 DEF Injection, IsInjective
  <2> HIDE DEF n
  <2>2. Cardinality(1..n) = Cardinality(S)
    BY <1>1 DEF n
  <2> QED
    BY <1>1, <2>1, <2>2, FS_Injection
<1>9. \A r \in S : \E i \in 1..n : s[i] = r
  BY <1>8 DEF Surjection
<1> QED
  BY <1>6, <1>7, <1>9 DEF s

LEMMA PageFacts ==
  ASSUME NEW S, Ordered(S), NEW n \in Nat \ {0}
  PROVE  /\ Page(S, n) \subseteq S /\ Ordered(Page(S, n))
         /\ \A r \in Page(S, n), q \in S \ Page(S, n) : At(r) < At(q)
         /\ Cardinality(Page(S, n)) # n => Page(S, n) = S
         /\ Cardinality(Page(S, n)) = n => Page(S, n) # {}
<1> DEFINE pg == Page(S, n)
           m == Cardinality(S)
<1>1. PICK f \in [S -> 1..m] :
        /\ \A r \in S : f[r] = Cardinality({q \in S : At(q) < At(r)}) + 1
        /\ \A r, q \in S : At(q) < At(r) <=> f[q] < f[r]
        /\ \A k \in 1..m : \E r \in S : f[r] = k
  BY Ranks
<1>2. IsFiniteSet(S) /\ m \in Nat
  BY FS_CardinalityType DEF Ordered
<1>3. \A r \in S : f[r] \in 1..m /\ f[r] \in Nat
  BY <1>1, <1>2
<1>4. pg = {r \in S : f[r] <= n}
  <2>1. \A r \in S : Cardinality({q \in S : At(q) < At(r)}) < n <=> f[r] <= n
    <3> SUFFICES ASSUME NEW r \in S PROVE Cardinality({q \in S : At(q) < At(r)}) < n <=> f[r] <= n
      OBVIOUS
    <3> DEFINE c == Cardinality({q \in S : At(q) < At(r)})
    <3>1. f[r] = c + 1
      BY <1>1
    <3>2. c \in Nat
      <4>1. {q \in S : At(q) < At(r)} \in SUBSET S
        OBVIOUS
      <4>2. IsFiniteSet({q \in S : At(q) < At(r)})
        BY <1>2, <4>1, FS_Subset
      <4> QED
        BY <4>2, FS_CardinalityType
    <3> HIDE DEF c
    <3>3. c < n <=> f[r] <= n
      BY <3>1, <3>2
    <3> QED
      BY <3>3 DEF c
  <2> QED
    BY <2>1 DEF Page
<1> HIDE DEF pg
<1>5. pg \subseteq S /\ IsFiniteSet(pg) /\ Ordered(pg)
  <2>1. pg \subseteq S
    BY <1>4
  <2>2. IsFiniteSet(pg)
    BY <1>2, <2>1, FS_Subset
  <2> QED
    BY <2>1, <2>2 DEF Ordered
<1>6. \A r \in pg, q \in S \ pg : At(r) < At(q)
  <2> SUFFICES ASSUME NEW r \in pg, NEW q \in S \ pg PROVE At(r) < At(q)
    OBVIOUS
  <2>1. r \in S /\ q \in S /\ f[r] <= n /\ ~(f[q] <= n)
    BY <1>4
  <2>2. f[r] \in Nat /\ f[q] \in Nat
    BY <1>3, <2>1
  <2>3. f[r] < f[q]
    BY <2>1, <2>2
  <2> QED
    BY <1>1, <2>1, <2>3
<1>7. ASSUME NEW x \in S, x \notin pg PROVE Cardinality(pg) = n
  <2>1. f[x] > n /\ n < m
    BY <1>2, <1>3, <1>4, <1>7
  <2>2. \A k \in 1..n : k \in 1..m
    BY <1>2, <2>1
  <2> DEFINE g == [r \in pg |-> f[r]]
  <2>3. g \in [pg -> 1..n] /\ \A r \in pg : g[r] = f[r]
    <3>1. \A r \in pg : f[r] \in 1..n
      BY <1>3, <1>4
    <3> QED
      BY <3>1
  <2> HIDE DEF g
  <2>4. \A r, q \in pg : g[r] = g[q] => r = q
    <3> SUFFICES ASSUME NEW r \in pg, NEW q \in pg, r # q PROVE f[r] # f[q]
      BY <2>3
    <3>1. r \in S /\ q \in S /\ f[r] \in Nat /\ f[q] \in Nat
      BY <1>3, <1>5
    <3>2. At(r) < At(q) \/ At(q) < At(r)
      <4>1. At(r) \in Nat /\ At(q) \in Nat /\ At(r) # At(q)
        BY <3>1 DEF Ordered
      <4> QED
        BY <4>1
    <3>3. f[r] < f[q] \/ f[q] < f[r]
      BY <1>1, <3>1, <3>2
    <3> QED
      BY <3>1, <3>3
  <2>5. \A k \in 1..n : \E r \in pg : g[r] = k
    <3> SUFFICES ASSUME NEW k \in 1..n PROVE \E r \in pg : g[r] = k
      OBVIOUS
    <3>1. PICK r \in S : f[r] = k
      BY <1>1, <2>2
    <3>2. r \in pg
      BY <1>4, <3>1
    <3> QED
      BY <2>3, <3>1, <3>2
  <2>6. g \in Bijection(pg, 1..n)
    BY <2>3, <2>4, <2>5 DEF Bijection, Injection, Surjection, IsInjective
  <2>7. Cardinality(1..n) = Cardinality(pg)
    BY <1>5, <2>6, FS_Bijection DEF ExistsBijection
  <2>8. Cardinality(1..n) = n
    BY FS_Interval
  <2> QED
    BY <2>7, <2>8
<1>8. Cardinality(pg) # n => pg = S
  BY <1>5, <1>7
<1>9. Cardinality(pg) = n => pg # {}
  BY FS_EmptySet
<1> QED
  BY <1>5, <1>6, <1>8, <1>9 DEF pg

BrRow == [id : 1..ids, pos : Nat, hidden : BOOLEAN]

LEMMA BrRowFacts ==
  ASSUME BrType, Keyed
  PROVE  /\ \A r \in rows : r \in BrRow /\ r.id \in 1..ids /\ r.id \in Nat /\ r.pos \in Nat /\ r.hidden \in BOOLEAN /\ At(r) \in Nat
         /\ \A r, q \in rows : At(r) = At(q) => r = q
         /\ Ordered(rows)
<1>1. \A r \in rows : r \in BrRow
  BY DEF BrType, BrRow
<1>2. \A r \in BrRow : r.id \in 1..ids /\ r.pos \in Nat /\ r.hidden \in BOOLEAN
  BY DEF BrRow
<1>3. \A k \in 1..ids : k \in Nat
  BY DEF BrType
<1>4. \A r \in rows : At(r) \in Nat
  BY <1>1, <1>2, <1>3 DEF At
<1>5. \A r, q \in rows : At(r) = At(q) => r = q
  BY DEF Keyed, At
<1>6. IsFiniteSet(rows)
  BY DEF BrType
<1> QED
  BY <1>1, <1>2, <1>3, <1>4, <1>5, <1>6 DEF Ordered

LEMMA BrInvInit == BrInit => BrInv
<1> SUFFICES ASSUME BrInit PROVE BrInv
  OBVIOUS
<1>1. walk \in [pc : {"idle", "next", "done"}, after : Int, limit : Nat \ {0}]
  <2>1. -1 \in Int /\ 1 \in Nat \ {0}
    OBVIOUS
  <2> QED
    BY <2>1 DEF BrInit
<1>2. IsFiniteSet(rows) /\ << >> \in Seq(1..ids) /\ rows = {} /\ seen = << >> /\ ids = 0
  BY FS_EmptySet DEF BrInit
<1>3. BrType
  <2>1. rows \subseteq [id : 1..ids, pos : Nat, hidden : BOOLEAN]
    BY <1>2
  <2>2. seen \in Seq(1..ids) /\ ids \in Nat
    BY <1>2
  <2> QED
    BY <1>1, <1>2, <2>1, <2>2 DEF BrInit, BrType
<1>4. DOMAIN seen = {} /\ walk.pc = "idle"
  BY DEF BrInit
<1>5. WalkComplete /\ CursorApart
  BY <1>4 DEF WalkComplete, CursorApart
<1> QED
  BY <1>2, <1>3, <1>5 DEF BrInv, Keyed

LEMMA BrInserts == ASSUME BrInv, NEW h \in BOOLEAN, InsertRow(h) PROVE BrInv'
<1> DEFINE top == Largest({r.pos : r \in rows})
           new == [id |-> ids + 1, pos |-> top + 1, hidden |-> h]
<1>0. /\ ids' = ids + 1 /\ rows' = rows \cup {new}
      /\ UNCHANGED <<list, walk, seen, stayed, moved>>
  BY DEF InsertRow
<1>1. /\ \A r \in rows : r \in BrRow /\ r.id \in 1..ids /\ r.pos \in Nat /\ r.hidden \in BOOLEAN /\ At(r) \in Nat
      /\ IsFiniteSet(rows) /\ ids \in Nat
  BY BrRowFacts DEF BrInv, BrType
<1>2. top + 1 \in Nat /\ \A r \in rows : r.pos < top + 1
  <2> DEFINE S == {r.pos : r \in rows}
  <2>1. S \subseteq Nat
    BY <1>1
  <2>2. IsFiniteSet(S)
    <3> DEFINE f == [r \in rows |-> r.pos]
    <3>1. f \in Surjection(rows, S)
      BY DEF Surjection
    <3> QED
      BY <1>1, <3>1, FS_Surjection
  <2>3. \A r \in rows : r.pos \in S
    OBVIOUS
  <2> HIDE DEF S
  <2>4. top \in S \cup {-1} /\ \A y \in S : top >= y
    <3>1. Largest(S) \in S \cup {-1} /\ \A y \in S : Largest(S) >= y
      BY <2>1, <2>2, LargestFacts
    <3> QED
      BY <3>1 DEF S
  <2> HIDE DEF top
  <2>5. top \in Int /\ top + 1 \in Nat
    BY <2>1, <2>4
  <2>6. ASSUME NEW r \in rows PROVE r.pos < top + 1
    <3>1. r.pos \in Nat /\ top >= r.pos
      BY <1>1, <2>3, <2>4
    <3> QED
      BY <2>5, <3>1
  <2> QED
    BY <2>5, <2>6
<1> HIDE DEF top
<1>3. new.id = ids + 1 /\ new.pos = top + 1 /\ new \notin rows /\ \A r \in rows : r.id # new.id /\ r.pos # new.pos
  <2>1. \A r \in rows : r.id # ids + 1
    <3> SUFFICES ASSUME NEW r \in rows PROVE r.id # ids + 1
      OBVIOUS
    <3>1. r.id \in 1..ids
      BY <1>1
    <3> QED
      BY <1>1, <3>1
  <2>2. \A r \in rows : r.pos # top + 1
    <3> SUFFICES ASSUME NEW r \in rows PROVE r.pos # top + 1
      OBVIOUS
    <3>1. r.pos \in Nat /\ r.pos < top + 1
      BY <1>1, <1>2
    <3> QED
      BY <1>2, <3>1
  <2> QED
    BY <2>1, <2>2
<1>4. BrType'
  <2>1. new \in [id : 1..(ids + 1), pos : Nat, hidden : BOOLEAN]
    <3>1. ids + 1 \in 1..(ids + 1)
      BY <1>1
    <3> QED
      BY <1>2, <3>1
  <2>2. 1..ids \subseteq 1..(ids + 1) /\ ids + 1 \in Nat
    BY <1>1
  <2>3. \A r \in rows : r \in [id : 1..(ids + 1), pos : Nat, hidden : BOOLEAN]
    BY <1>1, <2>2 DEF BrRow
  <2> HIDE DEF new
  <2>4. IsFiniteSet(rows')
    BY <1>0, <1>1, FS_AddElement
  <2>5. seen \in Seq(1..(ids + 1))
    <3>1. seen \in Seq(1..ids)
      BY DEF BrInv, BrType
    <3> QED
      BY <2>2, <3>1, SeqMonotonic
  <2> QED
    BY <1>0, <2>1, <2>2, <2>3, <2>4, <2>5 DEF BrInv, BrType
<1>5. Keyed'
  <2> HIDE DEF new
  <2> QED
    BY <1>0, <1>3 DEF BrInv, Keyed
<1>6. CursorApart'
  <2> SUFFICES ASSUME ~moved, walk.pc = "next" PROVE CursorApart'
    BY <1>0 DEF CursorApart
  <2>1. \A r : At(r)' = At(r)
    BY <1>0 DEF At
  <2>2. \A i \in DOMAIN seen : seen[i] \in 1..ids
    BY DEF BrInv, BrType
  <2>3. ids + 1 \notin 1..ids
    BY <1>1
  <2>4. \A i \in DOMAIN seen : new.id # seen[i]
    BY <1>3, <2>2, <2>3
  <2> HIDE DEF new
  <2>5. \A i \in DOMAIN seen : \A r \in rows' : r.id = seen[i] => At(r) <= walk.after
    BY <1>0, <2>4 DEF BrInv, CursorApart
  <2>6. \A x \in stayed : \/ \E i \in DOMAIN seen : seen[i] = x
                          \/ \E r \in rows' : r.id = x /\ ~r.hidden /\ At(r) > walk.after
    BY <1>0 DEF BrInv, CursorApart
  <2> QED
    BY <1>0, <2>1, <2>5, <2>6 DEF CursorApart
<1>7. WalkComplete' /\ (walk.pc = "idle" => seen = <<>>)'
  BY <1>0 DEF BrInv, WalkComplete
<1> QED
  BY <1>4, <1>5, <1>6, <1>7 DEF BrInv

LEMMA BrDeletes == ASSUME BrInv, NEW d \in rows, DeleteRow(d) PROVE BrInv'
<1>0. rows' = rows \ {d} /\ stayed' = stayed \ {d.id} /\ UNCHANGED <<list, ids, walk, seen, moved>>
  BY DEF DeleteRow
<1>1. BrType'
  <2>1. IsFiniteSet(rows')
    BY <1>0, FS_RemoveElement DEF BrInv, BrType
  <2> QED
    BY <1>0, <2>1 DEF BrInv, BrType
<1>2. Keyed'
  BY <1>0 DEF BrInv, Keyed
<1>3. CursorApart'
  <2> SUFFICES ASSUME ~moved, walk.pc = "next" PROVE CursorApart'
    BY <1>0 DEF CursorApart
  <2>1. \A r : At(r)' = At(r)
    BY <1>0 DEF At
  <2>2. \A i \in DOMAIN seen : \A r \in rows' : r.id = seen[i] => At(r) <= walk.after
    BY <1>0 DEF BrInv, CursorApart
  <2>3. \A x \in stayed' : \/ \E i \in DOMAIN seen : seen[i] = x
                           \/ \E r \in rows' : r.id = x /\ ~r.hidden /\ At(r) > walk.after
    <3> SUFFICES ASSUME NEW x \in stayed', ~ \E i \in DOMAIN seen : seen[i] = x
                 PROVE  \E r \in rows' : r.id = x /\ ~r.hidden /\ At(r) > walk.after
      OBVIOUS
    <3>1. x \in stayed /\ x # d.id
      BY <1>0
    <3>2. PICK r \in rows : r.id = x /\ ~r.hidden /\ At(r) > walk.after
      BY <3>1 DEF BrInv, CursorApart
    <3>3. r \in rows'
      BY <1>0, <3>1, <3>2
    <3> QED
      BY <3>2, <3>3
  <2> QED
    BY <1>0, <2>1, <2>2, <2>3 DEF CursorApart
<1>4. WalkComplete' /\ (walk.pc = "idle" => seen = <<>>)'
  BY <1>0 DEF BrInv, WalkComplete
<1> QED
  BY <1>1, <1>2, <1>3, <1>4 DEF BrInv

LEMMA BrReorders ==
  ASSUME BrInv, NEW o \in [{r.id : r \in rows} -> 0..(Cardinality(rows) - 1)],
         {o[r.id] : r \in rows} = 0..(Cardinality(rows) - 1), ReorderRows(o)
  PROVE  BrInv'
<1> DEFINE Put(r) == [r EXCEPT !.pos = o[r.id]]
<1>0. rows' = {Put(r) : r \in rows} /\ moved' = TRUE /\ UNCHANGED <<list, ids, walk, seen, stayed>>
  BY DEF ReorderRows
<1>1. /\ \A r \in rows : r \in BrRow /\ r.id \in 1..ids /\ r.pos \in Nat /\ r.hidden \in BOOLEAN
      /\ IsFiniteSet(rows) /\ ids \in Nat /\ Cardinality(rows) \in Nat
  BY BrRowFacts, FS_CardinalityType DEF BrInv, BrType
<1>2. \A r \in rows : Put(r) \in BrRow /\ Put(r).id = r.id /\ Put(r).pos = o[r.id] /\ Put(r).hidden = r.hidden
  <2> SUFFICES ASSUME NEW r \in rows
               PROVE Put(r) \in BrRow /\ Put(r).id = r.id /\ Put(r).pos = o[r.id] /\ Put(r).hidden = r.hidden
    OBVIOUS
  <2>1. o[r.id] \in Nat
    <3>1. o[r.id] \in 0..(Cardinality(rows) - 1)
      OBVIOUS
    <3> QED
      BY <3>1
  <2> QED
    BY <1>1, <2>1 DEF BrRow
<1> HIDE DEF Put
<1>3. \A r, q \in rows : o[r.id] = o[q.id] => r = q
  <2> DEFINE n == Cardinality(rows)
             T == 0..(n - 1)
             f == [r \in rows |-> o[r.id]]
  <2>1. Cardinality(T) = n
    <3>1. n \in Nat
      BY <1>1
    <3> HIDE DEF n
    <3>2. 0 \in Int /\ n - 1 \in Int
      BY <3>1
    <3>3. Cardinality(0..(n - 1)) = IF 0 > n - 1 THEN 0 ELSE (n - 1) - 0 + 1
      BY <3>2, FS_Interval
    <3> QED
      BY <3>1, <3>3
  <2>2. f \in Surjection(rows, T)
    <3>1. \A r \in rows : o[r.id] \in T
      OBVIOUS
    <3>2. \A t \in T : \E r \in rows : o[r.id] = t
      OBVIOUS
    <3> HIDE DEF T
    <3> QED
      BY <3>1, <3>2 DEF Surjection
  <2>3. f \in Injection(rows, T)
    <3> HIDE DEF f, T
    <3>1. Cardinality(rows) = Cardinality(T)
      BY <2>1 DEF T
    <3> QED
      BY <1>1, <2>2, <3>1, FS_SurjSameCardinalityImpliesInj
  <2>4. \A r, q \in rows : f[r] = f[q] => r = q
    <3> HIDE DEF f, T
    <3> QED
      BY <2>3 DEF Injection, IsInjective
  <2> QED
    BY <2>4
<1>4. BrType'
  <2> DEFINE f == [r \in rows |-> Put(r)]
  <2>1. f \in Surjection(rows, rows')
    BY <1>0 DEF Surjection
  <2>2. IsFiniteSet(rows')
    <3> HIDE DEF f
    <3> QED
      BY <1>1, <2>1, FS_Surjection
  <2>3. rows' \subseteq BrRow
    BY <1>0, <1>2
  <2> QED
    BY <1>0, <2>2, <2>3 DEF BrInv, BrType, BrRow
<1>5. Keyed'
  <2> SUFFICES ASSUME NEW r \in rows, NEW q \in rows, Put(r).id = Put(q).id \/ Put(r).pos = Put(q).pos
               PROVE  Put(r) = Put(q)
    BY <1>0 DEF Keyed
  <2>1. r.id = q.id \/ o[r.id] = o[q.id]
    BY <1>2
  <2>2. r = q
    BY <1>3, <2>1 DEF BrInv, Keyed
  <2> QED
    BY <2>2
<1>6. CursorApart' /\ WalkComplete' /\ (walk.pc = "idle" => seen = <<>>)'
  BY <1>0 DEF BrInv, CursorApart, WalkComplete
<1> QED
  BY <1>4, <1>5, <1>6 DEF BrInv

LEMMA BrStarts == ASSUME BrInv, NEW n \in 1..(PageMax + 1), Start(n) PROVE BrInv'
<1>0. /\ walk.pc = "idle" /\ seen = <<>> /\ walk' = [pc |-> "next", after |-> FirstCursor, limit |-> ClampLimit(n)]
      /\ stayed' = {r.id : r \in {q \in rows : ~q.hidden}} /\ moved' = FALSE
      /\ UNCHANGED <<list, rows, ids, edits, seen>>
  BY DEF Start
<1>1. FirstCursor \in Int /\ ClampLimit(n) \in Nat \ {0}
  <2>1. ClampLimit(n) \in Nat \ {0}
    BY BrAssumption DEF ClampLimit
  <2>2. -1 \in Int /\ 0 \in Int
    OBVIOUS
  <2> QED
    BY <2>1, <2>2 DEF FirstCursor
<1>2. walk'.pc = "next" /\ walk'.after = FirstCursor
      /\ walk' \in [pc : {"idle", "next", "done"}, after : Int, limit : Nat \ {0}]
  BY <1>0, <1>1
<1>3. BrType'
  <2>1. moved' \in BOOLEAN
    BY <1>0
  <2> QED
    BY <1>0, <1>2, <2>1 DEF BrInv, BrType
<1>4. Keyed'
  BY <1>0 DEF BrInv, Keyed
<1>5. DOMAIN seen' = {}
  BY <1>0
<1>6. \A r \in rows : At(r) > FirstCursor
  <2> SUFFICES ASSUME NEW r \in rows PROVE At(r) > FirstCursor
    OBVIOUS
  <2>1. r.pos \in Nat /\ r.id \in 1..ids /\ ids \in Nat
    BY BrRowFacts DEF BrInv, BrType
  <2>2. r.pos > -1 /\ r.id > 0
    BY <2>1
  <2> QED
    BY <2>2 DEF At, FirstCursor
<1>7. CursorApart'
  <2>1. \A r : At(r)' = At(r)
    BY <1>0 DEF At
  <2>2. \A x \in stayed' : \E r \in rows : r.id = x /\ ~r.hidden /\ At(r) > FirstCursor
    BY <1>0, <1>6
  <2> QED
    BY <1>0, <1>2, <1>5, <2>1, <2>2 DEF CursorApart
<1>8. WalkComplete' /\ (walk.pc = "idle" => seen = <<>>)'
  BY <1>2, <1>5 DEF WalkComplete
<1> QED
  BY <1>3, <1>4, <1>7, <1>8 DEF BrInv

LEMMA MatchesFacts ==
  ASSUME BrType, Keyed, NEW a \in Int
  PROVE  /\ Matches(a) \subseteq rows /\ \A r \in Matches(a) : At(r) > a
         /\ \A r \in rows : ~r.hidden /\ At(r) > a => r \in Matches(a)
<1>1. list = "playlists" \/ list = "items" \/ list = "images" \/ list = "templates"
  BY DEF BrType, Lists
<1>2. CASE list = "playlists"
  <2>1. Matches(a) = {r \in rows : r.id > a /\ ~r.hidden} /\ \A r : At(r) = r.id
    BY <1>2 DEF Matches, ListPlaylists, At
  <2> QED
    BY <2>1
<1>3. CASE list = "images" \/ list = "templates"
  <2>1. Matches(a) = {r \in rows : r.id > a} /\ \A r : At(r) = r.id
    BY <1>3 DEF Matches, ListImages, ListTemplates, At
  <2> QED
    BY <2>1
<1>4. CASE list = "items"
  <2>1. Matches(a) = {r \in rows : r.pos > a} /\ \A r : At(r) = r.pos
    BY <1>4 DEF Matches, ListItems, At
  <2> QED
    BY <2>1
<1> QED
  BY <1>1, <1>2, <1>3, <1>4

\* u is s followed by t.
Follows(E, s, t, u) ==
  /\ u \in Seq(E)
  /\ \A i \in DOMAIN s : i \in DOMAIN u /\ u[i] = s[i]
  /\ \A i \in DOMAIN t : \E j \in DOMAIN u : u[j] = t[i]
  /\ \A i \in DOMAIN u :
       \/ i \in DOMAIN s /\ u[i] = s[i]
       \/ i - Len(s) \in DOMAIN t /\ i > Len(s) /\ u[i] = t[i - Len(s)]

LEMMA Appended ==
  ASSUME NEW E, NEW s \in Seq(E), NEW t \in Seq(E), NEW u, u = s \o t
  PROVE  Follows(E, s, t, u)
<1>1. Len(s) \in Nat /\ Len(t) \in Nat /\ DOMAIN s = 1..Len(s) /\ DOMAIN t = 1..Len(t)
  OBVIOUS
<1>2. u \in Seq(E) /\ Len(u) = Len(s) + Len(t)
  OBVIOUS
<1>3. DOMAIN u = 1..(Len(s) + Len(t))
  BY <1>1, <1>2
<1>4. \A i \in 1..Len(s) : u[i] = s[i]
  <2>1. \A i \in 1..Len(s) : (s \o t)[i] = s[i]
    OBVIOUS
  <2> QED
    BY <2>1, Zenon
<1>5. \A i \in 1..Len(t) : u[i + Len(s)] = t[i]
  <2>1. \A i \in 1..Len(t) : (s \o t)[i + Len(s)] = t[i]
    OBVIOUS
  <2> QED
    BY <2>1, Zenon
<1>6. \A i \in DOMAIN s : i \in DOMAIN u /\ u[i] = s[i]
  BY <1>1, <1>3, <1>4
<1>7. ASSUME NEW i \in DOMAIN t PROVE \E j \in DOMAIN u : u[j] = t[i]
  <2>1. i + Len(s) \in DOMAIN u /\ u[i + Len(s)] = t[i]
    BY <1>1, <1>3, <1>5
  <2> QED
    BY <2>1
<1>8. ASSUME NEW i \in DOMAIN u, i \notin DOMAIN s
      PROVE  i - Len(s) \in DOMAIN t /\ i > Len(s) /\ u[i] = t[i - Len(s)]
  <2>1. i - Len(s) \in 1..Len(t) /\ i > Len(s) /\ (i - Len(s)) + Len(s) = i
    BY <1>1, <1>3, <1>8
  <2>2. u[(i - Len(s)) + Len(s)] = t[i - Len(s)]
    BY <1>5, <2>1
  <2> QED
    BY <1>1, <2>1, <2>2
<1>9. \A i \in DOMAIN u : \/ i \in DOMAIN s /\ u[i] = s[i]
                          \/ i - Len(s) \in DOMAIN t /\ i > Len(s) /\ u[i] = t[i - Len(s)]
  BY <1>6, <1>8
<1> QED
  BY <1>2, <1>6, <1>7, <1>9 DEF Follows

LEMMA BrPages == ASSUME BrInv, ListPage PROVE BrInv'
<1> DEFINE S == Matches(walk.after)
           page == Page(S, walk.limit)
           next == NextCursor(page, walk.limit)
           sorted == InOrder(page)
           n == Cardinality(page)
           t == [i \in DOMAIN sorted |-> sorted[i].id]
           full == n = walk.limit
<1>0. /\ walk.pc = "next" /\ seen' = seen \o t
      /\ walk' = IF next = -2 THEN [walk EXCEPT !.pc = "done"] ELSE [walk EXCEPT !.after = next]
      /\ UNCHANGED <<list, rows, ids, edits, stayed, moved>>
  BY DEF ListPage
<1>1. /\ \A r \in rows : r.id \in 1..ids /\ At(r) \in Nat
      /\ \A r, q \in rows : At(r) = At(q) => r = q
      /\ \A r, q \in rows : r.id = q.id => r = q
      /\ IsFiniteSet(rows)
  BY BrRowFacts DEF BrInv, BrType, Keyed
<1>2. /\ walk \in [pc : {"idle", "next", "done"}, after : Int, limit : Nat \ {0}]
      /\ walk.after \in Int /\ walk.limit \in Nat \ {0} /\ seen \in Seq(1..ids)
  BY DEF BrInv, BrType
<1>3. /\ S \subseteq rows /\ \A r \in S : At(r) > walk.after
      /\ \A r \in rows : ~r.hidden /\ At(r) > walk.after => r \in S
  BY <1>2, MatchesFacts DEF BrInv
<1> HIDE DEF S
<1>4. Ordered(S)
  <2>1. IsFiniteSet(S)
    BY <1>1, <1>3, FS_Subset
  <2> QED
    BY <1>1, <1>3, <2>1 DEF Ordered
<1>5. /\ page \subseteq S /\ Ordered(page)
      /\ \A r \in page, q \in S \ page : At(r) < At(q)
      /\ ~full => page = S
      /\ full => page # {}
  BY <1>2, <1>4, PageFacts
<1> HIDE DEF page
<1>6. /\ sorted \in [1..n -> page]
      /\ \A i, j \in 1..n : sorted[i] = sorted[j] => i = j
      /\ \A r \in page : \E i \in 1..n : sorted[i] = r
  BY <1>5, OrderFacts
<1>7. n \in Nat
  BY <1>5, FS_CardinalityType DEF Ordered
<1> HIDE DEF sorted
<1>8. t \in Seq(1..ids) /\ DOMAIN t = 1..n /\ \A i \in 1..n : t[i] = sorted[i].id
  <2>1. DOMAIN sorted = 1..n
    BY <1>6
  <2>2. t = [i \in 1..n |-> sorted[i].id]
    BY <2>1
  <2>3. \A i \in 1..n : sorted[i] \in rows /\ sorted[i].id \in 1..ids
    <3>1. \A i \in 1..n : sorted[i] \in page
      BY <1>6
    <3> QED
      BY <1>1, <1>3, <1>5, <3>1
  <2> HIDE DEF t, n
  <2>4. t \in [1..n -> 1..ids]
    BY <2>2, <2>3
  <2> QED
    BY <1>7, <2>2, <2>4, SeqDef
<1> HIDE DEF t, n, full
<1>9. full \in BOOLEAN /\ (~full => next = -2)
      /\ (full => next \in Nat /\ (\A r \in page : At(r) <= next) /\ \E r \in page : At(r) = next)
  <2>1. CASE ~full
    BY <2>1 DEF full, n, NextCursor
  <2>2. CASE full
    <3> DEFINE K == {At(r) : r \in page}
    <3>1. next = Largest(K)
      BY <2>2 DEF full, n, NextCursor
    <3>2. K \subseteq Nat /\ K # {}
      BY <1>5, <2>2 DEF Ordered
    <3>3. IsFiniteSet(K)
      <4> DEFINE f == [r \in page |-> At(r)]
      <4>1. f \in Surjection(page, K)
        BY DEF Surjection
      <4>2. IsFiniteSet(page)
        BY <1>5 DEF Ordered
      <4> HIDE DEF f, K
      <4> QED
        BY <4>1, <4>2, FS_Surjection
    <3>4. \A r \in page : At(r) \in K
      OBVIOUS
    <3>5. \A x \in K : \E r \in page : At(r) = x
      OBVIOUS
    <3> HIDE DEF K, next
    <3>6. next \in K \cup {-1} /\ \A y \in K : next >= y
      BY <3>1, <3>2, <3>3, LargestFacts
    <3>7. next \in K
      <4>1. PICK y \in K : next >= y
        BY <3>2, <3>6
      <4>2. y \in Nat /\ next \in Int /\ next # -1
        BY <3>2, <3>6, <4>1
      <4> QED
        BY <3>6, <4>2
    <3>8. next \in Nat
      BY <3>2, <3>7
    <3>9. ASSUME NEW r \in page PROVE At(r) <= next
      <4>1. At(r) \in Nat /\ next >= At(r)
        BY <3>2, <3>4, <3>6
      <4> QED
        BY <3>8, <4>1
    <3> QED
      BY <2>2, <3>5, <3>7, <3>8, <3>9
  <2>3. full \in BOOLEAN
    BY DEF full
  <2> QED
    BY <2>1, <2>2, <2>3
<1> HIDE DEF next
<1>10. /\ walk' \in [pc : {"idle", "next", "done"}, after : Int, limit : Nat \ {0}]
       /\ full => walk'.pc = "next" /\ walk'.after = next
       /\ ~full => walk'.pc = "done"
  <2>1. CASE ~full
    <3>1. walk' = [walk EXCEPT !.pc = "done"]
      BY <1>0, <1>9, <2>1
    <3> QED
      BY <1>2, <2>1, <3>1
  <2>2. CASE full
    <3>1. next \in Int /\ next # -2
      BY <1>9, <2>2
    <3>2. walk' = [walk EXCEPT !.after = next]
      BY <1>0, <3>1
    <3> QED
      BY <1>0, <1>2, <2>2, <3>1, <3>2
  <2> QED
    BY <2>1, <2>2
<1>11. /\ seen' \in Seq(1..ids)
       /\ \A i \in DOMAIN seen : i \in DOMAIN seen' /\ seen'[i] = seen[i]
       /\ \A i \in 1..n : \E j \in DOMAIN seen' : seen'[j] = t[i]
       /\ \A i \in DOMAIN seen' :
            \/ i \in DOMAIN seen /\ seen'[i] = seen[i]
            \/ i - Len(seen) \in 1..n /\ i > Len(seen) /\ seen'[i] = t[i - Len(seen)]
  <2>1. seen \in Seq(1..ids) /\ t \in Seq(1..ids) /\ DOMAIN t = 1..n /\ seen' = seen \o t
    BY <1>0, <1>2, <1>8
  <2>2. Follows(1..ids, seen, t, seen')
    BY <2>1, Appended
  <2> QED
    BY <2>1, <2>2 DEF Follows
<1>12. BrType' /\ Keyed' /\ walk'.pc # "idle"
  <2>1. full \/ ~full
    OBVIOUS
  <2>2. walk'.pc # "idle"
    BY <1>10, <2>1
  <2> QED
    BY <1>0, <1>10, <1>11, <2>2 DEF BrInv, BrType, Keyed
<1>13. \A i \in 1..n : sorted[i] \in page /\ sorted[i] \in S /\ sorted[i] \in rows
  BY <1>3, <1>5, <1>6
<1>14. ASSUME ~moved
       PROVE  \A i \in DOMAIN seen, k \in 1..n : seen[i] # t[k]
  <2> SUFFICES ASSUME NEW i \in DOMAIN seen, NEW k \in 1..n, seen[i] = t[k] PROVE FALSE
    OBVIOUS
  <2>1. sorted[k].id = seen[i] /\ sorted[k] \in rows
    BY <1>8, <1>13
  <2>2. At(sorted[k]) <= walk.after
    BY <1>0, <1>14, <2>1 DEF BrInv, CursorApart
  <2>3. At(sorted[k]) > walk.after /\ At(sorted[k]) \in Nat
    BY <1>1, <1>3, <1>13
  <2> QED
    BY <1>2, <2>2, <2>3
<1>15. ASSUME ~moved
       PROVE  \A i, j \in DOMAIN seen' : seen'[i] = seen'[j] => i = j
  <2> SUFFICES ASSUME NEW i \in DOMAIN seen', NEW j \in DOMAIN seen', seen'[i] = seen'[j] PROVE i = j
    OBVIOUS
  <2> DEFINE m == Len(seen)
  <2>1. i \in Int /\ j \in Int /\ m \in Int
    BY <1>2, <1>11
  <2>2. CASE i \in DOMAIN seen /\ seen'[i] = seen[i] /\ j \in DOMAIN seen /\ seen'[j] = seen[j]
    BY <1>15, <2>2 DEF BrInv, WalkComplete
  <2>3. CASE i - m \in 1..n /\ seen'[i] = t[i - m] /\ j - m \in 1..n /\ seen'[j] = t[j - m]
    <3>1. sorted[i - m].id = sorted[j - m].id
      BY <1>8, <2>3
    <3>2. i - m = j - m
      BY <1>1, <1>6, <1>13, <2>3, <3>1
    <3> HIDE DEF m
    <3> QED
      BY <2>1, <3>2
  <2>4. \A k \in DOMAIN seen' :
          \/ k \in DOMAIN seen /\ seen'[k] = seen[k]
          \/ k - m \in 1..n /\ seen'[k] = t[k - m]
    BY <1>11
  <2> HIDE DEF m
  <2> QED
    BY <1>14, <1>15, <2>2, <2>3, <2>4
<1>16. ASSUME ~moved, NEW x \in stayed, ~ \E i \in DOMAIN seen' : seen'[i] = x
       PROVE  full /\ \E r \in rows : r.id = x /\ ~r.hidden /\ At(r) > next
  <2>1. ~ \E i \in DOMAIN seen : seen[i] = x
    BY <1>11, <1>16
  <2>2. PICK r \in rows : r.id = x /\ ~r.hidden /\ At(r) > walk.after
    BY <1>0, <1>16, <2>1 DEF BrInv, CursorApart
  <2>3. r \in S
    BY <1>3, <2>2
  <2>4. r \notin page
    <3> SUFFICES ASSUME r \in page PROVE FALSE
      OBVIOUS
    <3>1. PICK k \in 1..n : sorted[k] = r
      BY <1>6
    <3>2. t[k] = x
      BY <1>8, <2>2, <3>1
    <3> QED
      BY <1>11, <1>16, <3>2
  <2>5. full
    BY <1>5, <2>3, <2>4
  <2>6. PICK q \in page : At(q) = next
    BY <1>9, <2>5
  <2>7. next < At(r)
    BY <1>5, <2>3, <2>4, <2>6
  <2>8. next \in Nat /\ At(r) \in Nat
    BY <1>1, <1>9, <2>5
  <2>9. At(r) > next
    BY <2>7, <2>8
  <2> QED
    BY <2>2, <2>5, <2>9
<1>17. WalkComplete'
  <2> SUFFICES ASSUME ~moved
               PROVE  /\ \A i, j \in DOMAIN seen' : seen'[i] = seen'[j] => i = j
                      /\ walk'.pc = "done" => \A x \in stayed : \E i \in DOMAIN seen' : seen'[i] = x
    BY <1>0 DEF WalkComplete
  <2>1. walk'.pc = "done" => ~full
    BY <1>10
  <2> QED
    BY <1>15, <1>16, <2>1
<1>18. CursorApart'
  <2> SUFFICES ASSUME ~moved, full
               PROVE  /\ \A i \in DOMAIN seen' : \A r \in rows : r.id = seen'[i] => At(r) <= next
                      /\ \A x \in stayed : \/ \E i \in DOMAIN seen' : seen'[i] = x
                                           \/ \E r \in rows : r.id = x /\ ~r.hidden /\ At(r) > next
    <3>1. \A r : At(r)' = At(r)
      BY <1>0 DEF At
    <3>2. walk'.pc = "next" => full /\ walk'.after = next
      BY <1>10
    <3> QED
      BY <1>0, <3>1, <3>2 DEF CursorApart
  <2>1. ASSUME NEW i \in DOMAIN seen', NEW r \in rows, r.id = seen'[i] PROVE At(r) <= next
    <3>1. next \in Nat /\ At(r) \in Nat
      BY <1>1, <1>9
    <3>2. CASE i \in DOMAIN seen /\ seen'[i] = seen[i]
      <4>1. At(r) <= walk.after
        BY <1>0, <2>1, <3>2 DEF BrInv, CursorApart
      <4>2. PICK q \in page : At(q) = next
        BY <1>9
      <4>3. next > walk.after
        BY <1>3, <1>5, <4>2
      <4> QED
        BY <1>2, <3>1, <4>1, <4>3
    <3>3. CASE i - Len(seen) \in 1..n /\ seen'[i] = t[i - Len(seen)]
      <4>1. sorted[i - Len(seen)].id = r.id /\ sorted[i - Len(seen)] \in page
        BY <1>8, <1>13, <2>1, <3>3
      <4>2. sorted[i - Len(seen)] = r
        BY <1>1, <1>13, <3>3, <4>1
      <4> QED
        BY <1>9, <4>1, <4>2
    <3> QED
      BY <1>11, <3>2, <3>3
  <2>2. ASSUME NEW x \in stayed, ~ \E i \in DOMAIN seen' : seen'[i] = x
        PROVE  \E r \in rows : r.id = x /\ ~r.hidden /\ At(r) > next
    BY <1>16, <2>2
  <2> QED
    BY <2>1, <2>2
<1> QED
  BY <1>12, <1>17, <1>18 DEF BrInv

(* For lists of any length, page sizes up to any bound, and any inserts    *)
(* and deletes between two pages: a walk shows nothing twice and skips     *)
(* nothing that was there all the while, unless items were reordered.      *)
THEOREM WalksAreComplete == BrSpec => []WalkComplete
<1>1. BrInv /\ [BrNext]_browseVars => BrInv'
  <2> SUFFICES ASSUME BrInv, [BrNext]_browseVars PROVE BrInv'
    OBVIOUS
  <2>1. CASE UNCHANGED browseVars
    <3>1. BrType' /\ Keyed' /\ CursorApart' /\ (walk.pc = "idle" => seen = <<>>)'
      BY <2>1 DEF BrInv, browseVars, BrType, Keyed, CursorApart, At
    <3>2. WalkComplete'
      BY <2>1 DEF BrInv, browseVars, WalkComplete
    <3> QED
      BY <3>1, <3>2 DEF BrInv
  <2>2. CASE BrNext
    BY <2>2, BrInserts, BrDeletes, BrReorders, BrStarts, BrPages DEF BrNext
  <2> QED
    BY <2>1, <2>2
<1>2. BrInv => WalkComplete
  BY DEF BrInv
<1> QED
  BY <1>1, <1>2, BrInvInit, PTL DEF BrSpec

-----------------------------------------------------------------------------
(* The pure policies, for every input.                                     *)

LEMMA Hundredths ==
  ASSUME NEW j \in 0..14, NEW n \in Nat
  PROVE  (j * n) \div 100 \in 0..n /\ (j = 0 => (j * n) \div 100 = 0)
<1> DEFINE m == j * n
<1>1. m \in Nat /\ m <= 100 * n /\ (j = 0 => m = 0)
  OBVIOUS
<1> HIDE DEF m
<1>2. m \div 100 \in 0..n /\ (m = 0 => m \div 100 = 0)
  BY <1>1
<1> QED
  BY <1>1, <1>2 DEF m

LEMMA LeastOf ==
  ASSUME NEW m \in Nat, NEW T, T \subseteq 1..m, T # {}
  PROVE  \E x \in T : \A y \in T : x <= y
<1> DEFINE below == {i \in 0..m : \A y \in T : i <= y}
<1>1. below \subseteq Int /\ IsFiniteSet(below) /\ 0 \in below
  <2>1. IsFiniteSet(0..m) /\ below \subseteq 0..m
    BY FS_Interval
  <2>2. IsFiniteSet(below)
    <3> HIDE DEF below
    <3> QED
      BY <2>1, FS_Subset
  <2> QED
    BY <2>2
<1>2. PICK x \in below : \A y \in below : x >= y
  <2> HIDE DEF below
  <2> QED
    BY <1>1, GreatestNumber
<1>3. x \in Nat /\ \A y \in T : x <= y /\ y \in Nat /\ y <= m
  OBVIOUS
<1>4. x \in T
  <2> SUFFICES ASSUME x \notin T PROVE FALSE
    OBVIOUS
  <2>1. \A y \in T : x + 1 <= y
    BY <1>3
  <2>2. x + 1 \in 0..m
    <3>1. PICK y \in T : TRUE
      OBVIOUS
    <3> QED
      BY <1>3, <2>1, <3>1
  <2>3. x + 1 \in below
    BY <2>1, <2>2
  <2> QED
    BY <1>2, <1>3, <2>3
<1> QED
  BY <1>3, <1>4

LEMMA Clamped ==
  ASSUME NEW n \in Int, NEW m \in Nat
  PROVE  /\ ClampWake(n, m) \in Nat /\ ClampWake(n, m) >= 60
         /\ ClampWake(n, m) <= Larger(60, n)
         /\ m >= 60 => ClampWake(n, m) <= m
         /\ m = 0 => ClampWake(n, m) = Larger(60, n)
BY DEF ClampWake, Larger

\* The seconds from c past h o'clock to e o'clock, as the property and as the
\* code reckon them; the wake time before it is clamped and jittered.
Rest(h, c, e) == (e * Hour - h * Hour - c) % Day
Ahead(h, c, e) == (e * Hour + (IF h >= e THEN Day ELSE 0)) - (h * Hour + c)
Due(p) == IF IsNight(p) THEN Rest(p.hour, p.sec, p.e) + Buffer ELSE p.day

LEMMA NightLeft ==
  ASSUME NEW h \in 0..23, NEW c \in 0..(Hour - 1), NEW e \in 0..23, h # e
  PROVE  Rest(h, c, e) \in Nat /\ Rest(h, c, e) = Ahead(h, c, e)
<1> DEFINE d == e * Hour - h * Hour - c
<1>1. /\ d \in Int /\ 0 - Day < d /\ d < Day /\ Day \in Nat \ {0} /\ Hour \in Nat
      /\ (h < e => d >= 0) /\ (h > e => d < 0)
  BY DEF Hour, Day
<1>2. d % Day = IF d >= 0 THEN d ELSE d + Day
  <2>1. d \in Int /\ 0 - Day < d /\ d < Day /\ Day \in Nat \ {0}
    BY <1>1
  <2> HIDE DEF d
  <2> QED
    BY <2>1
<1> QED
  BY <1>1, <1>2 DEF Rest, Ahead

LEMMA WakeDue ==
  ASSUME NEW p \in WakeInput
  PROVE  Due(p) \in Nat /\ NextWakeSeconds(p) = ClampWake(Due(p), p.max)
<1>1. p.hour \in 0..23 /\ p.sec \in 0..(Hour - 1) /\ p.s \in 0..23 /\ p.e \in 0..23 /\ p.day \in Nat
  BY DEF WakeInput
<1>2. CASE IsNight(p)
  <2>1. p.hour # p.e
    BY <1>1, <1>2 DEF IsNight
  <2>2. Rest(p.hour, p.sec, p.e) \in Nat /\ Rest(p.hour, p.sec, p.e) = Ahead(p.hour, p.sec, p.e)
    BY <1>1, <2>1, NightLeft
  <2>3. Due(p) = Rest(p.hour, p.sec, p.e) + Buffer
    BY <1>2, Zenon DEF Due
  <2>4. NextWakeSeconds(p) = ClampWake(Ahead(p.hour, p.sec, p.e) + Buffer, p.max)
    <3> DEFINE n == (p.e * Hour + (IF p.hour >= p.e THEN Day ELSE 0)) - (p.hour * Hour + p.sec)
    <3>1. NextWakeSeconds(p) = ClampWake(IF IsNight(p) THEN n + Buffer ELSE p.day, p.max)
      BY Zenon DEF NextWakeSeconds
    <3>2. n = Ahead(p.hour, p.sec, p.e)
      BY DEF Ahead
    <3> HIDE DEF n
    <3> QED
      BY <1>2, <3>1, <3>2
  <2> QED
    BY <2>2, <2>3, <2>4 DEF Buffer
<1>3. CASE ~IsNight(p)
  BY <1>1, <1>3 DEF Due, NextWakeSeconds
<1> QED
  BY <1>2, <1>3

LEMMA WakeTimes == probe \in WakeInput => WakeInTime
<1> SUFFICES ASSUME probe \in WakeInput PROVE WakeInTime
  OBVIOUS
<1>1. probe.max \in Nat /\ probe.to \in Int /\ probe.j \in 0..14
  BY DEF WakeInput
<1>2. PICK due \in Nat, max \in Nat, to \in Int, j \in 0..14 :
        due = Due(probe) /\ max = probe.max /\ to = probe.to /\ j = probe.j
  BY <1>1, WakeDue
<1>30. NextWakeSeconds(probe) = ClampWake(due, max)
  BY <1>2, WakeDue
<1>31. ClampWake(due, max) \in Nat
  BY Clamped
<1>3. PICK base \in Nat : base = NextWakeSeconds(probe) /\ base = ClampWake(due, max)
  BY <1>30, <1>31
<1>4. /\ base >= 60 /\ base <= Larger(60, due) /\ (max >= 60 => base <= max)
      /\ max = 0 => base = Larger(60, due)
  BY <1>3, Clamped
<1>5. PICK near \in Nat : near = IF to > 0 /\ to < base THEN to ELSE base
  OBVIOUS
<1>6. PICK late \in 0..near : late = (j * near) \div 100 /\ (j = 0 => late = 0)
  BY Hundredths
<1>7. PlaylistWake(probe) = ClampWake(near - late, max)
  BY <1>2, <1>3, <1>5, <1>6 DEF PlaylistWake, Jitter
<1>8. PICK w \in Nat : w = PlaylistWake(probe)
  BY <1>5, <1>6, <1>7, Clamped
<1>9. /\ w >= 60 /\ w <= Larger(60, near - late) /\ (max >= 60 => w <= max)
      /\ max = 0 => w = Larger(60, near - late)
  BY <1>5, <1>6, <1>7, <1>8, Clamped
<1>10. w >= 60 /\ w <= Larger(60, due) /\ (max >= 60 => w <= max)
  BY <1>4, <1>5, <1>9 DEF Larger
<1>11. max = 0 /\ j = 0 /\ (to <= 0 \/ to >= due) => w = Larger(60, due)
  BY <1>4, <1>5, <1>6, <1>9 DEF Larger
<1>12. PlaylistWake(probe) >= 60 /\ PlaylistWake(probe) <= Larger(60, Due(probe))
  BY <1>2, <1>8, <1>10
<1>13. probe.max >= 60 => PlaylistWake(probe) <= probe.max
  BY <1>2, <1>8, <1>10
<1>14. probe.max = 0 /\ probe.j = 0 /\ (probe.to <= 0 \/ probe.to >= Due(probe))
       => PlaylistWake(probe) = Larger(60, Due(probe))
  BY <1>2, <1>8, <1>11
<1> QED
  BY <1>12, <1>13, <1>14, Zenon DEF WakeInTime, Due, Rest

-----------------------------------------------------------------------------
LEMMA VerdictIs == probe \in VerdictInput => VerdictWorst
<1> SUFFICES ASSUME probe \in VerdictInput PROVE VerdictWorst
  OBVIOUS
<1>1. CASE ~probe.data
  BY <1>1 DEF VerdictWorst, Verdict
<1>2. CASE probe.data
  <2> DEFINE c == Conditions(probe)
             h == Bump(Bump(Bump(Bump(1, 5, c[5]), 4, c[4]), 3, c[3]), 2, c[2])
  <2>1. Verdict(probe) = Severity[h]
    BY <1>2, Zenon DEF Verdict
  <2>2. PICK a, b, d, e : a = c[2] /\ b = c[3] /\ d = c[4] /\ e = c[5]
    OBVIOUS
  <2>3. /\ h \in 1..5 /\ (a => h >= 2) /\ (b => h >= 3) /\ (d => h >= 4) /\ (e => h >= 5)
        /\ (h = 2 => a) /\ (h = 3 => b) /\ (h = 4 => d) /\ (h = 5 => e)
    <3> HIDE DEF c
    <3> QED
      BY <2>2 DEF Bump
  <2>4. \A k \in 2..5 : (c[k] => h >= k) /\ (h = k => c[k])
    <3> HIDE DEF h, c
    <3>1. \A k \in 2..5 : k = 2 \/ k = 3 \/ k = 4 \/ k = 5
      OBVIOUS
    <3> QED
      BY <2>2, <2>3, <3>1
  <2>5. \A m, k \in 1..5 : Severity[m] = Severity[k] => m = k
    <3>1. \A m \in 1..5 : m = 1 \/ m = 2 \/ m = 3 \/ m = 4 \/ m = 5
      OBVIOUS
    <3> QED
      BY <3>1 DEF Severity
  <2> HIDE DEF h, c
  <2>6. \A k \in 2..5 : /\ c[k] => \E m \in k..5 : Severity[m] = Severity[h]
                        /\ Severity[k] = Severity[h] => c[k]
    <3> SUFFICES ASSUME NEW k \in 2..5
                 PROVE  /\ c[k] => \E m \in k..5 : Severity[m] = Severity[h]
                        /\ Severity[k] = Severity[h] => c[k]
      OBVIOUS
    <3>1. c[k] => h \in k..5
      BY <2>3, <2>4
    <3>2. Severity[k] = Severity[h] => k = h
      BY <2>3, <2>5
    <3> QED
      BY <2>4, <3>1, <3>2
  <2> QED
    BY <1>2, <2>1, <2>6, Zenon DEF VerdictWorst, c
<1> QED
  BY <1>1, <1>2

-----------------------------------------------------------------------------
LEMMA Egress == probe \in EgressInput => EgressPinned
<1> SUFFICES ASSUME probe \in EgressInput PROVE EgressPinned
  OBVIOUS
<1>1. probe.ips \in Seq({"public", "denied"})
  BY DEF EgressInput
<1> DEFINE ok == {i \in DOMAIN probe.ips : ~IsDenied(probe.ips[i])}
<1>2. ok # {} => \E i \in ok : \A k \in ok : i <= k
  <2>1. Len(probe.ips) \in Nat /\ ok \subseteq 1..Len(probe.ips)
    BY <1>1
  <2> HIDE DEF ok
  <2> QED
    BY <2>1, LeastOf
<1>3. ASSUME HostAllowed(probe), probe.literal = None, ~probe.fails, ok # {}
      PROVE  ~IsDenied(Decide(probe)) /\ Decide(probe) # None
  <2> DEFINE i == CHOOSE i \in ok : \A k \in ok : i <= k
  <2>1. i \in ok
    BY <1>2, <1>3
  <2>2. Decide(probe) = probe.ips[i]
    BY <1>3, Zenon DEF Decide
  <2> HIDE DEF i
  <2> QED
    BY <1>1, <2>1, <2>2 DEF IsDenied, None
<1>4. HostAllowed(probe) /\ probe.literal = None /\ (probe.fails \/ ok = {}) => Decide(probe) = None
  BY Zenon DEF Decide
<1>5. ~HostAllowed(probe) => Decide(probe) = None
  BY DEF Decide
<1>6. ok # {} <=> \E i \in DOMAIN probe.ips : ~IsDenied(probe.ips[i])
  OBVIOUS
<1> HIDE DEF ok
<1> QED
  BY <1>3, <1>4, <1>5, <1>6 DEF EgressPinned

-----------------------------------------------------------------------------
LEMMA SeqItems == ASSUME NEW S, NEW s \in Seq(S) PROVE \A i \in DOMAIN s : s[i] \in S
OBVIOUS

LEMMA SpecCases ==
  ASSUME NEW z \in Specs
  PROVE  /\ z.decl \in BOOLEAN /\ z.num \in BOOLEAN /\ z.req \in BOOLEAN /\ z.def \in {None, "7", "x"}
         /\ ~z.decl => ~z.num /\ ~z.req /\ z.def = None
<1>1. CASE z \in [decl : {TRUE}, num : BOOLEAN, req : BOOLEAN, def : {None, "7", "x"}]
  BY <1>1
<1>2. CASE z \notin [decl : {TRUE}, num : BOOLEAN, req : BOOLEAN, def : {None, "7", "x"}]
  <2>1. z = [decl |-> FALSE, num |-> FALSE, req |-> FALSE, def |-> None]
    BY <1>2, Zenon DEF Specs
  <2> QED
    BY <2>1
<1> QED
  BY <1>1, <1>2

LEMMA Substitution == probe \in SubstInput => SubstituteExact
<1> SUFFICES ASSUME probe \in SubstInput PROVE SubstituteExact
  OBVIOUS
<1> DEFINE p == probe
           given(n) == p.params[n] # None
           usable(n) == given(n) \/ (p.spec[n].decl /\ p.spec[n].def # None)
           val(n) == IF given(n) THEN p.params[n] ELSE p.spec[n].def
           fine == /\ \A n \in ParamNames : given(n) => p.spec[n].decl
                   /\ \A n \in ParamNames : p.spec[n].req => usable(n)
                   /\ \A n \in ParamNames : p.spec[n].num /\ usable(n) => val(n) = "7"
                   /\ \A i \in DOMAIN p.src : p.src[i] \in ParamNames =>
                        usable(p.src[i]) /\ val(p.src[i]) # "{{b}}"
           values == [n \in ParamNames |-> IF p.spec[n].decl THEN Filled(p, n) ELSE None]
           bad(n) == /\ p.spec[n].decl
                     /\ IF values[n] = None THEN p.spec[n].req ELSE ~CheckParamType(p.spec[n], values[n])
           out == SpliceTokens(p.src, values)
           stray == \E n \in ParamNames : p.params[n] # None /\ ~p.spec[n].decl
           wrong == \E n \in ParamNames : bad(n)
           left == \E i \in DOMAIN out : Placeholder(out[i])
<1>1. /\ p.spec \in [ParamNames -> Specs] /\ p.params \in [ParamNames -> {None, "7", "x", "{{b}}"}]
      /\ p.src \in Seq(ParamNames \cup {"lit"})
  BY DEF SubstInput
<1>2. Substitute(p) = IF stray THEN <<"unknown_param">> ELSE IF wrong THEN <<"missing_or_invalid">>
                      ELSE IF left THEN <<"unresolved_placeholder">> ELSE out
  BY Zenon DEF Substitute
<1>3. ASSUME NEW n \in ParamNames
      PROVE  /\ p.spec[n].decl \in BOOLEAN /\ p.spec[n].num \in BOOLEAN /\ p.spec[n].req \in BOOLEAN
             /\ p.spec[n].def \in {None, "7", "x"} /\ p.params[n] \in {None, "7", "x", "{{b}}"}
             /\ ~p.spec[n].decl => ~p.spec[n].num /\ ~p.spec[n].req /\ p.spec[n].def = None
  <2>1. p.spec[n] \in Specs /\ p.params[n] \in {None, "7", "x", "{{b}}"}
    BY <1>1
  <2> QED
    BY <2>1, SpecCases
<1>4. ASSUME NEW n \in ParamNames, ~stray
      PROVE  /\ values[n] # None <=> usable(n)
             /\ usable(n) => values[n] = val(n)
             /\ ~bad(n) <=> (p.spec[n].req => usable(n)) /\ (p.spec[n].num /\ usable(n) => val(n) = "7")
  <2>1. given(n) => p.spec[n].decl
    BY <1>4
  <2>2. values[n] = IF p.spec[n].decl THEN Filled(p, n) ELSE None
    OBVIOUS
  <2> HIDE DEF values
  <2> QED
    BY <1>3, <2>1, <2>2 DEF Filled, CheckParamType
<1>5. DOMAIN out = DOMAIN p.src /\ \A i \in DOMAIN p.src :
        out[i] = IF p.src[i] \in ParamNames /\ values[p.src[i]] # None THEN values[p.src[i]] ELSE p.src[i]
  <2> DEFINE D == DOMAIN p.src
             e(i) == IF p.src[i] \in ParamNames /\ values[p.src[i]] # None THEN values[p.src[i]] ELSE p.src[i]
  <2>1. out = [i \in D |-> e(i)]
    BY Zenon DEF SpliceTokens
  <2> HIDE DEF values, out, D, e
  <2>2. DOMAIN out = D /\ \A i \in D : out[i] = e(i)
    BY <2>1
  <2> QED
    BY <2>2 DEF D, e
<1>6. \A i \in DOMAIN p.src : p.src[i] \in ParamNames \cup {"lit"}
  BY <1>1, SeqItems, Zenon
<1>7. \A n \in ParamNames : usable(n) => val(n) \in {"7", "x", "{{b}}"}
  BY <1>3
<1> DEFINE spliced == [i \in DOMAIN p.src |-> IF p.src[i] \in ParamNames THEN val(p.src[i]) ELSE p.src[i]]
<1> HIDE DEF values, out
<1>8. ASSUME ~stray, ~wrong
      PROVE  /\ left <=> \E i \in DOMAIN p.src : p.src[i] \in ParamNames /\ (usable(p.src[i]) => val(p.src[i]) = "{{b}}")
             /\ ~left => out = spliced
  <2>1. ASSUME NEW i \in DOMAIN p.src
        PROVE  Placeholder(out[i]) <=> p.src[i] \in ParamNames /\ (usable(p.src[i]) => val(p.src[i]) = "{{b}}")
    <3>1. CASE p.src[i] \notin ParamNames
      BY <1>5, <1>6, <3>1 DEF Placeholder
    <3>2. CASE p.src[i] \in ParamNames /\ usable(p.src[i])
      <4>1. out[i] = val(p.src[i]) /\ val(p.src[i]) \in {"7", "x", "{{b}}"}
        <5>1. PICK n \in ParamNames : n = p.src[i] /\ usable(n)
          BY <3>2
        <5>2. values[n] # None /\ values[n] = val(n)
          BY <1>4, <1>8, <5>1
        <5>3. out[i] = values[n]
          BY <1>5, <5>1, <5>2
        <5>4. val(n) \in {"7", "x", "{{b}}"}
          BY <1>7, <5>1
        <5> QED
          BY <5>1, <5>2, <5>3, <5>4
      <4> QED
        BY <3>2, <4>1 DEF Placeholder, ParamNames
    <3>3. CASE p.src[i] \in ParamNames /\ ~usable(p.src[i])
      BY <1>4, <1>5, <1>8, <3>3 DEF Placeholder
    <3> QED
      BY <3>1, <3>2, <3>3
  <2>2. ASSUME ~left PROVE out = spliced
    <3>1. ASSUME NEW i \in DOMAIN p.src PROVE out[i] = spliced[i]
      <4>1. ~Placeholder(out[i])
        BY <1>5, <2>2
      <4>2. CASE p.src[i] \notin ParamNames
        BY <1>5, <4>2
      <4>3. CASE p.src[i] \in ParamNames
        <5>1. usable(p.src[i])
          BY <2>1, <4>1, <4>3
        <5> QED
          BY <1>4, <1>5, <1>8, <4>3, <5>1
      <4> QED
        BY <4>2, <4>3
    <3>2. out = [i \in DOMAIN p.src |-> out[i]]
      BY <1>5 DEF out, SpliceTokens
    <3> QED
      BY <3>1, <3>2
  <2> QED
    BY <1>5, <2>1, <2>2
<1>9. fine <=> ~stray /\ ~wrong /\ ~left
  <2>1. ~stray <=> \A n \in ParamNames : given(n) => p.spec[n].decl
    OBVIOUS
  <2>2. ASSUME ~stray
        PROVE  ~wrong <=> /\ \A n \in ParamNames : p.spec[n].req => usable(n)
                          /\ \A n \in ParamNames : p.spec[n].num /\ usable(n) => val(n) = "7"
    BY <1>4, <2>2
  <2>3. ASSUME ~stray, ~wrong
        PROVE  ~left <=> \A i \in DOMAIN p.src : p.src[i] \in ParamNames =>
                           usable(p.src[i]) /\ val(p.src[i]) # "{{b}}"
    BY <1>8, <2>3
  <2> HIDE DEF stray, wrong, left, given, usable, val
  <2> QED
    BY <2>1, <2>2, <2>3
<1>10. IF ~fine THEN Substitute(p) \in SubstErrors ELSE Substitute(p) = spliced
  <2> HIDE DEF stray, wrong, left, fine, spliced
  <2> QED
    BY <1>2, <1>8, <1>9 DEF SubstErrors
<1> QED
  BY <1>10, Zenon DEF SubstituteExact

-----------------------------------------------------------------------------
LEMMA Quotient ==
  ASSUME NEW a \in Nat, NEW b \in Nat \ {0}
  PROVE  a \div b \in Nat /\ b * (a \div b) <= a /\ a < b * (a \div b) + b
OBVIOUS

LEMMA QuotientIs ==
  ASSUME NEW a \in Nat, NEW b \in Nat \ {0}, NEW q \in Nat, b * q <= a, a < b * q + b
  PROVE  a \div b = q
OBVIOUS

LEMMA Product == ASSUME NEW a \in Nat, NEW b \in Nat PROVE a * b \in Nat /\ a * b = b * a
OBVIOUS

LEMMA ProductGrows ==
  ASSUME NEW a \in Nat, NEW b \in Nat, NEW c \in Nat, b <= c
  PROVE  a * b <= a * c
OBVIOUS

LEMMA Covered ==
  ASSUME NEW s \in Nat \ {0}, NEW d \in 1..s
  PROVE  Cells(s, d) = 0..(d - 1)
<1>1. ASSUME NEW x \in 0..(s - 1) PROVE (x * d) \div s \in 0..(d - 1)
  <2>1. PICK a \in Nat : a = x * d
    BY Product
  <2>2. PICK q \in Nat : q = a \div s /\ s * q <= a
    BY Quotient
  <2>3. a <= d * s - d
    <3>1. d * x <= d * (s - 1) /\ d * x = x * d
      BY ProductGrows
    <3> QED
      BY <2>1, <3>1
  <2>4. q < d
    <3> SUFFICES ASSUME d <= q PROVE FALSE
      OBVIOUS
    <3>1. s * d <= s * q /\ s * d = d * s
      BY ProductGrows
    <3>2. PICK m \in Nat : m = d * s
      BY Product
    <3>3. PICK l \in Nat : l = s * q
      BY Product
    <3> QED
      BY <2>2, <2>3, <3>1, <3>2, <3>3
  <2> QED
    BY <2>1, <2>2, <2>4
<1>2. ASSUME NEW c \in 0..(d - 1) PROVE \E x \in 0..(s - 1) : (x * d) \div s = c
  <2>1. PICK m \in Nat : m = c * s /\ m = s * c
    BY Product
  <2>2. PICK x \in Nat : d * x <= m + d - 1 /\ m + d - 1 < d * x + d
    <3>1. PICK b \in Nat : b = m + d - 1
      OBVIOUS
    <3>2. b \div d \in Nat /\ d * (b \div d) <= b /\ b < d * (b \div d) + d
      BY Quotient
    <3> QED
      BY <3>1, <3>2
  <2>3. PICK a \in Nat : a = x * d /\ a = d * x
    BY Product
  <2>4. m <= a /\ a < m + s
    BY <2>2, <2>3
  <2>5. a \div s = c
    BY <2>1, <2>4, QuotientIs
  <2>6. x < s
    <3> SUFFICES ASSUME s <= x PROVE FALSE
      OBVIOUS
    <3>1. PICK l \in Nat : l = d * s /\ l <= a
      BY <2>3, Product, ProductGrows
    <3>2. s * c <= s * (d - 1) /\ s * (d - 1) = d * s - s
      BY ProductGrows
    <3> QED
      BY <2>1, <2>2, <2>3, <3>1, <3>2
  <2>7. x \in 0..(s - 1) /\ (x * d) \div s = c
    BY <2>3, <2>5, <2>6
  <2> QED
    BY <2>7, Zenon
<1>3. Cells(s, d) \subseteq 0..(d - 1)
  BY <1>1 DEF Cells
<1>4. 0..(d - 1) \subseteq Cells(s, d)
  BY <1>2 DEF Cells
<1> QED
  BY <1>3, <1>4

\* The shorter side, scaled with the longer one to dim.
Scale(short, long, dim) == AtLeast1((short * dim) \div long)

LEMMA Scaled ==
  ASSUME NEW short \in Nat, NEW long \in Nat \ {0}, NEW dim \in Nat \ {0}, short <= long, dim < long
  PROVE  Scale(short, long, dim) \in 1..dim /\ (short > 0 => Scale(short, long, dim) <= short)
<1>1. PICK a \in Nat : a = short * dim
  BY Product
<1>2. PICK q \in Nat : q = a \div long /\ long * q <= a
  BY Quotient
<1>3. a <= long * dim
  BY <1>1, Product, ProductGrows
<1>4. a <= long * short
  BY <1>1, Product, ProductGrows
<1>5. ASSUME NEW b \in Nat, a <= long * b PROVE q <= b
  <2> SUFFICES ASSUME b + 1 <= q PROVE FALSE
    OBVIOUS
  <2>1. long * (b + 1) <= long * q
    BY ProductGrows
  <2>2. long * (b + 1) = long * b + long
    OBVIOUS
  <2>3. PICK l \in Nat, m \in Nat : l = long * b /\ m = long * q
    BY Product
  <2> QED
    BY <1>2, <1>5, <2>1, <2>2, <2>3
<1>6. q <= dim /\ q <= short
  BY <1>3, <1>4, <1>5
<1> QED
  BY <1>1, <1>2, <1>6 DEF AtLeast1, Scale

LEMMA Thumbnails == probe \in ThumbInput => ThumbFits
<1> SUFFICES ASSUME probe \in ThumbInput PROVE ThumbFits
  OBVIOUS
<1>1. PICK sw \in Nat, sh \in Nat, dim \in Nat \ {0} : sw = probe.sw /\ sh = probe.sh /\ dim = probe.dim
  BY DEF ThumbInput
<1>2. PICK d : d = FitBox(probe)
  OBVIOUS
<1>3. /\ d[1] \in 1..dim /\ d[2] \in 1..dim
      /\ sw > 0 /\ sh > 0 => d[1] \in 1..sw /\ d[2] \in 1..sh
  <2>1. CASE sw <= dim /\ sh <= dim
    <3>1. d = <<AtLeast1(sw), AtLeast1(sh)>>
      BY <1>1, <1>2, <2>1 DEF FitBox
    <3> QED
      BY <2>1, <3>1 DEF AtLeast1
  <2>2. CASE ~(sw <= dim /\ sh <= dim) /\ sw >= sh
    <3>1. PICK v : v = Scale(sh, sw, dim)
      OBVIOUS
    <3>2. d = <<dim, v>>
      <4>1. ~(probe.sw <= probe.dim /\ probe.sh <= probe.dim) /\ probe.sw >= probe.sh
        BY <1>1, <2>2
      <4>2. FitBox(probe) = <<probe.dim, v>>
        BY <1>1, <3>1, <4>1, Zenon DEF FitBox, Scale
      <4> QED
        BY <1>1, <1>2, <4>2
    <3>3. v \in 1..dim /\ (sh > 0 => v <= sh)
      BY <2>2, <3>1, Scaled
    <3> QED
      BY <2>2, <3>2, <3>3
  <2>3. CASE ~(sw <= dim /\ sh <= dim) /\ sw < sh
    <3>1. PICK v : v = Scale(sw, sh, dim)
      OBVIOUS
    <3>2. d = <<v, dim>>
      <4>1. ~(probe.sw <= probe.dim /\ probe.sh <= probe.dim) /\ ~(probe.sw >= probe.sh)
        BY <1>1, <2>3
      <4>2. FitBox(probe) = <<v, probe.dim>>
        BY <1>1, <3>1, <4>1, Zenon DEF FitBox, Scale
      <4> QED
        BY <1>1, <1>2, <4>2
    <3>3. v \in 1..dim /\ (sw > 0 => v <= sw)
      BY <2>3, <3>1, Scaled
    <3> QED
      BY <2>3, <3>2, <3>3
  <2> QED
    BY <2>1, <2>2, <2>3
<1>4. sw > 0 /\ sh > 0 => /\ d[1] <= sw /\ Cells(sw, d[1]) = 0..(d[1] - 1)
                          /\ d[2] <= sh /\ Cells(sh, d[2]) = 0..(d[2] - 1)
  BY <1>3, Covered
<1> QED
  BY <1>1, <1>2, <1>3, <1>4 DEF ThumbFits

-----------------------------------------------------------------------------
\* R orders the finite set D, strictly and totally: R[j] is what comes before j, and its
\* cardinality the rank of j.
Orders(R, D) ==
  /\ \A i \in D : R[i] \subseteq D /\ i \notin R[i]
  /\ \A i, j, k \in D : i \in R[j] /\ j \in R[k] => i \in R[k]
  /\ \A i, j \in D : i = j \/ i \in R[j] \/ j \in R[i]
Rank(R, D, j) == Cardinality(R[j])

Ranked(R, D, n) ==
  /\ \A j \in D : Rank(R, D, j) \in 0..(n - 1)
  /\ \A i, j \in D : Rank(R, D, i) < Rank(R, D, j) <=> i \in R[j]
  /\ \A i, j \in D : Rank(R, D, i) = Rank(R, D, j) => i = j
  /\ \A k \in 0..(n - 1) : \E j \in D : Rank(R, D, j) = k

LEMMA RanksOrder ==
  ASSUME NEW n \in Nat, NEW D, IsFiniteSet(D), Cardinality(D) = n, NEW R, Orders(R, D)
  PROVE  Ranked(R, D, n)
<1> DEFINE Under(j) == R[j]
<1>1. ASSUME NEW j \in D
      PROVE  IsFiniteSet(Under(j)) /\ Cardinality(Under(j)) \in Nat /\ Cardinality(Under(j)) < n
  <2>1. Under(j) \subseteq D \ {j}
    BY DEF Orders
  <2>2. IsFiniteSet(D \ {j}) /\ Cardinality(D \ {j}) = n - 1
    BY FS_RemoveElement
  <2> HIDE DEF Under
  <2>3. IsFiniteSet(Under(j)) /\ Cardinality(Under(j)) <= n - 1
    BY <2>1, <2>2, FS_Subset
  <2>4. Cardinality(Under(j)) \in Nat
    BY <2>3, FS_CardinalityType
  <2> QED
    BY <2>3, <2>4
<1>2. ASSUME NEW i \in D, NEW j \in D, i \in R[j]
      PROVE  Cardinality(Under(i)) < Cardinality(Under(j))
  <2>1. Under(i) \cup {i} \subseteq Under(j) /\ i \notin Under(i)
    BY <1>2 DEF Orders
  <2> HIDE DEF Under
  <2>2. Cardinality(Under(i) \cup {i}) = Cardinality(Under(i)) + 1
    BY <1>1, <2>1, FS_AddElement
  <2>3. Cardinality(Under(i) \cup {i}) <= Cardinality(Under(j))
    BY <1>1, <2>1, FS_Subset
  <2> QED
    BY <1>1, <2>2, <2>3
<1>3. \A j \in D : Rank(R, D, j) = Cardinality(Under(j))
  BY Zenon DEF Rank
<1> HIDE DEF Under
<1>4. \A j \in D : Rank(R, D, j) \in 0..(n - 1)
  BY <1>1, <1>3
<1>5. \A i, j \in D : i \in R[j] => Rank(R, D, i) < Rank(R, D, j)
  BY <1>2, <1>3
<1>6. \A i, j \in D : Rank(R, D, i) < Rank(R, D, j) => i \in R[j]
  <2> SUFFICES ASSUME NEW i \in D, NEW j \in D, Rank(R, D, i) < Rank(R, D, j) PROVE i \in R[j]
    OBVIOUS
  <2>1. PICK a \in 0..(n - 1), b \in 0..(n - 1) : a = Rank(R, D, i) /\ b = Rank(R, D, j) /\ a < b
    BY <1>4
  <2>2. i # j
    BY <2>1
  <2>3. ~(j \in R[i])
    BY <1>5, <2>1
  <2> QED
    BY <2>2, <2>3 DEF Orders
<1>7. \A i, j \in D : Rank(R, D, i) = Rank(R, D, j) => i = j
  <2> SUFFICES ASSUME NEW i \in D, NEW j \in D, Rank(R, D, i) = Rank(R, D, j), i # j PROVE FALSE
    OBVIOUS
  <2>1. i \in R[j] \/ j \in R[i]
    BY DEF Orders
  <2>2. Rank(R, D, i) < Rank(R, D, j) \/ Rank(R, D, j) < Rank(R, D, i)
    BY <1>5, <2>1
  <2> QED
    BY <1>4, <2>2
<1> DEFINE f == [j \in D |-> Rank(R, D, j)]
<1>8. f \in Injection(D, 0..(n - 1))
  BY <1>4, <1>7 DEF Injection, IsInjective
<1>9. IsFiniteSet(0..(n - 1)) /\ Cardinality(0..(n - 1)) = n
  <2>1. PICK m \in Int : m = n - 1
    OBVIOUS
  <2>2. IsFiniteSet(0..m) /\ Cardinality(0..m) = IF 0 > m THEN 0 ELSE m - 0 + 1
    BY <2>1, FS_Interval
  <2> QED
    BY <2>1, <2>2
<1>10. f \in Surjection(D, 0..(n - 1))
  <2> HIDE DEF f
  <2> QED
    BY <1>8, <1>9, FS_Injection
<1>11. \A k \in 0..(n - 1) : \E j \in D : f[j] = k
  <2> HIDE DEF f
  <2> QED
    BY <1>10 DEF Surjection
<1> QED
  BY <1>4, <1>5, <1>6, <1>7, <1>11 DEF Ranked

\* Lists of items that have a key.
Listed(p, s) == s \in Seq(Nat) /\ Distinct(s) /\ \A i \in DOMAIN s : s[i] \in DOMAIN p.key /\ p.key[s[i]] \in Nat

Befores(p, s) == [j \in DOMAIN s |-> {i \in DOMAIN s : Before(p, s, i, j)}]

LEMMA BeforeOrders ==
  ASSUME NEW p, NEW s, Listed(p, s)
  PROVE  Orders(Befores(p, s), DOMAIN s)
<1> DEFINE D == DOMAIN s
           R == Befores(p, s)
<1>1. \A i, j \in D : R[j] \subseteq D /\ (i \in R[j] <=> Before(p, s, i, j))
  BY DEF Befores
<1>2. \A i \in D : s[i] \in Nat /\ p.key[s[i]] \in Nat
  BY DEF Listed
<1>3. \A i, j \in D : Before(p, s, i, j) <=> p.key[s[i]] < p.key[s[j]] \/ (p.key[s[i]] = p.key[s[j]] /\ s[i] < s[j])
  BY DEF Before, ShuffleKey
<1>4. \A i, j \in D : s[i] = s[j] => i = j
  BY DEF Listed, Distinct
<1> HIDE DEF R, D
<1>5. \A i \in D : ~Before(p, s, i, i)
  BY <1>2, <1>3
<1>6. \A i, j, k \in D : Before(p, s, i, j) /\ Before(p, s, j, k) => Before(p, s, i, k)
  BY <1>2, <1>3
<1>7. \A i, j \in D : i = j \/ Before(p, s, i, j) \/ Before(p, s, j, i)
  BY <1>2, <1>3, <1>4
<1>8. Orders(R, D)
  BY <1>1, <1>5, <1>6, <1>7 DEF Orders
<1> QED
  BY <1>8 DEF R, D

Mixes(p, s) == p.shuffle /\ Len(s) >= 2

Rotates(p, s, o) ==
  /\ o \in [DOMAIN s -> DOMAIN s]
  /\ \A j \in DOMAIN s : \E r \in DOMAIN s : o[r] = j
  /\ \A q, r \in DOMAIN s : o[q] = o[r] => q = r
  /\ \A q, r \in DOMAIN s : q < r <=> IF Mixes(p, s) THEN Before(p, s, o[q], o[r]) ELSE o[q] < o[r]

LEMMA Rotation ==
  ASSUME NEW p, NEW s, Listed(p, s), p.shuffle \in BOOLEAN
  PROVE  Rotates(p, s, RotationOrder(p, s))
<1> DEFINE D == DOMAIN s
           n == Len(s)
           o == RotationOrder(p, s)
           R == Befores(p, s)
<1>1. n \in Nat /\ D = 1..n
  BY DEF Listed
<1>2. CASE ~Mixes(p, s)
  <2>1. ~p.shuffle \/ Len(s) < 2
    BY <1>1, <1>2 DEF Mixes
  <2>2. o = [i \in D |-> i]
    BY <2>1, Zenon DEF RotationOrder
  <2> HIDE DEF o
  <2> QED
    BY <1>1, <1>2, <2>2 DEF o, Rotates
<1>3. CASE Mixes(p, s)
  <2>1. IsFiniteSet(D) /\ Cardinality(D) = n
    <3> HIDE DEF D, n
    <3> QED
      BY <1>1, FS_Interval
  <2>2. Orders(R, D)
    BY BeforeOrders
  <2>3. ASSUME NEW j \in D PROVE Rank(R, D, j) = Cardinality({i \in D : Before(p, s, i, j)})
    BY DEF Rank, Befores
  <2>4. \A i, j \in D : i \in R[j] <=> Before(p, s, i, j)
    BY DEF Befores
  <2>5. ~(~p.shuffle \/ Len(s) < 2)
    BY <1>1, <1>3 DEF Mixes
  <2>6. o = [r \in D |-> CHOOSE j \in D : Cardinality({i \in D : Before(p, s, i, j)}) = r - 1]
    BY <2>5, Zenon DEF RotationOrder
  <2> HIDE DEF R, D, n, o
  <2>7. /\ \A j \in D : Rank(R, D, j) \in 0..(n - 1)
        /\ \A i, j \in D : Rank(R, D, i) < Rank(R, D, j) <=> i \in R[j]
        /\ \A i, j \in D : Rank(R, D, i) = Rank(R, D, j) => i = j
        /\ \A k \in 0..(n - 1) : \E j \in D : Rank(R, D, j) = k
    <3>1. Ranked(R, D, n)
      BY <1>1, <2>1, <2>2, RanksOrder
    <3> QED
      BY <3>1 DEF Ranked
  <2>8. o \in [D -> D] /\ \A r \in D : Rank(R, D, o[r]) = r - 1
    <3>1. \A r \in D : \E j \in D : Cardinality({i \in D : Before(p, s, i, j)}) = r - 1
      <4> SUFFICES ASSUME NEW r \in D PROVE \E j \in D : Cardinality({i \in D : Before(p, s, i, j)}) = r - 1
        OBVIOUS
      <4>1. r - 1 \in 0..(n - 1)
        BY <1>1
      <4>2. PICK j \in D : Rank(R, D, j) = r - 1
        BY <2>7, <4>1
      <4> QED
        BY <2>3, <4>2
    <3> DEFINE Is(r, j) == Cardinality({i \in D : Before(p, s, i, j)}) = r - 1
    <3>2. o = [r \in D |-> CHOOSE j \in D : Is(r, j)] /\ \A r \in D : \E j \in D : Is(r, j)
      BY <2>6, <3>1
    <3> HIDE DEF Is
    <3>3. o \in [D -> D] /\ \A r \in D : Is(r, o[r])
      BY <3>2
    <3> QED
      BY <2>3, <3>3 DEF Is
  <2>9. \A r \in D : r \in Nat /\ r - 1 \in 0..(n - 1)
    BY <1>1
  <2>10. \A j \in D : \E r \in D : o[r] = j
    <3> SUFFICES ASSUME NEW j \in D PROVE \E r \in D : o[r] = j
      OBVIOUS
    <3>1. PICK r \in D : r - 1 = Rank(R, D, j)
      <4>1. PICK a \in 0..(n - 1) : a = Rank(R, D, j)
        BY <2>7
      <4>2. a + 1 \in D /\ (a + 1) - 1 = a
        BY <1>1
      <4> QED
        BY <4>1, <4>2
    <3> QED
      BY <2>7, <2>8, <3>1
  <2>11. \A q, r \in D : o[q] = o[r] => q = r
    BY <2>8, <2>9
  <2>12. \A q, r \in D : q < r <=> Before(p, s, o[q], o[r])
    <3> SUFFICES ASSUME NEW q \in D, NEW r \in D PROVE q < r <=> Before(p, s, o[q], o[r])
      OBVIOUS
    <3>1. q < r <=> Rank(R, D, o[q]) < Rank(R, D, o[r])
      BY <2>8, <2>9
    <3> QED
      BY <2>4, <2>7, <2>8, <3>1
  <2> QED
    BY <1>3, <2>8, <2>10, <2>11, <2>12 DEF o, D, Rotates
<1> QED
  BY <1>2, <1>3

\* Which of two items comes first in the rotation.
First(p, s, i, j) == IF Mixes(p, s) THEN Before(p, s, i, j) ELSE i < j

LEMMA ShownOrder ==
  ASSUME NEW p, NEW s, Listed(p, s), p.shuffle \in BOOLEAN, NEW i \in DOMAIN s, NEW j \in DOMAIN s
  PROVE  Precedes(Shown(p, s), s[i], s[j]) <=> First(p, s, i, j)
<1> DEFINE D == DOMAIN s
<1>1. PICK o : o = RotationOrder(p, s)
  OBVIOUS
<1>2. /\ o \in [D -> D]
      /\ \A k \in D : \E r \in D : o[r] = k
      /\ \A q, r \in D : o[q] = o[r] => q = r
      /\ \A q, r \in D : q < r <=> IF Mixes(p, s) THEN Before(p, s, o[q], o[r]) ELSE o[q] < o[r]
  BY <1>1, Rotation DEF Rotates
<1>3. \A q, r \in D : q < r <=> First(p, s, o[q], o[r])
  BY <1>2 DEF First
<1>4. \A q, r \in D : s[q] = s[r] => q = r
  BY DEF Listed, Distinct
<1>5. PICK z : z = Shown(p, s)
  OBVIOUS
<1>6. DOMAIN z = D /\ \A r \in D : z[r] = s[o[r]]
  <2>1. z = [r \in D |-> s[o[r]]]
    BY <1>1, <1>5, Zenon DEF Shown
  <2> QED
    BY <2>1
<1> HIDE DEF D
<1>7. PICK q \in D, r \in D : o[q] = i /\ o[r] = j
  BY <1>2 DEF D
<1>8. \A a \in D : (z[a] = s[i] => a = q) /\ (z[a] = s[j] => a = r)
  BY <1>2, <1>4, <1>6, <1>7
<1>9. z[q] = s[i] /\ z[r] = s[j]
  BY <1>6, <1>7
<1>10. Precedes(z, s[i], s[j]) <=> q < r
  BY <1>6, <1>8, <1>9 DEF Precedes
<1> QED
  BY <1>3, <1>5, <1>7, <1>10

Taken(p, s, k, w) ==
  /\ Listed(p, w) /\ Len(w) = Len(s) - 1 /\ Len(s) \in Nat
  /\ \A i \in DOMAIN s \ {k} : (IF i < k THEN i ELSE i - 1) \in DOMAIN w
                              /\ w[IF i < k THEN i ELSE i - 1] = s[i]

LEMMA TakenOut ==
  ASSUME NEW p, NEW s, Listed(p, s), NEW k \in DOMAIN s
  PROVE  Taken(p, s, k, Without(s, k))
<1> DEFINE w == Without(s, k)
           n == Len(s)
<1>1. n \in Nat /\ DOMAIN s = 1..n /\ k \in 1..n /\ s \in Seq(Nat)
  BY DEF Listed
<1>2. /\ w \in Seq(Nat) /\ Len(w) = n - 1 /\ DOMAIN w = 1..(n - 1)
      /\ \A i \in 1..(n - 1) : w[i] = IF i < k THEN s[i] ELSE s[i + 1]
  <2>1. w = [i \in 1..(n - 1) |-> IF i < k THEN s[i] ELSE s[i + 1]]
    BY Zenon DEF Without
  <2>2. \A i \in 1..(n - 1) : (IF i < k THEN s[i] ELSE s[i + 1]) \in Nat
    BY <1>1
  <2> HIDE DEF n
  <2>3. n - 1 \in Nat
    BY <1>1
  <2> HIDE DEF w
  <2> QED
    BY <2>1, <2>2, <2>3
<1>3. ASSUME NEW i \in DOMAIN w
      PROVE  i \in Nat /\ \E a \in DOMAIN s : a = (IF i < k THEN i ELSE i + 1) /\ w[i] = s[a]
  <2> HIDE DEF w, n
  <2>1. i \in 1..(n - 1) /\ k \in Nat
    BY <1>1, <1>2
  <2>2. PICK a : a = IF i < k THEN i ELSE i + 1
    OBVIOUS
  <2>3. a \in 1..n /\ i \in Nat
    BY <1>1, <2>1, <2>2
  <2>4. w[i] = s[a]
    BY <1>2, <2>1, <2>2
  <2> QED
    BY <1>1, <2>2, <2>3, <2>4
<1>4. Listed(p, w)
  <2>1. \A i \in DOMAIN w : w[i] \in DOMAIN p.key /\ p.key[w[i]] \in Nat
    <3> HIDE DEF w
    <3> QED
      BY <1>3 DEF Listed
  <2>2. \A i, j \in DOMAIN w : w[i] = w[j] => i = j
    <3> SUFFICES ASSUME NEW i \in DOMAIN w, NEW j \in DOMAIN w, w[i] = w[j] PROVE i = j
      OBVIOUS
    <3> HIDE DEF w, n
    <3>1. PICK a \in DOMAIN s : a = (IF i < k THEN i ELSE i + 1) /\ w[i] = s[a]
      BY <1>3
    <3>2. PICK b \in DOMAIN s : b = (IF j < k THEN j ELSE j + 1) /\ w[j] = s[b]
      BY <1>3
    <3>3. a = b
      BY <3>1, <3>2 DEF Listed, Distinct
    <3>4. i \in Nat /\ j \in Nat /\ k \in Nat
      BY <1>1, <1>3
    <3> QED
      BY <3>1, <3>2, <3>3, <3>4
  <2> HIDE DEF w
  <2> QED
    BY <1>2, <2>1, <2>2 DEF Listed, Distinct
<1>5. ASSUME NEW i \in DOMAIN s \ {k}
      PROVE  (IF i < k THEN i ELSE i - 1) \in DOMAIN w /\ w[IF i < k THEN i ELSE i - 1] = s[i]
  <2> DEFINE a == IF i < k THEN i ELSE i - 1
  <2>1. a \in 1..(n - 1) /\ (IF a < k THEN a ELSE a + 1) = i /\ (a < k <=> i < k)
    BY <1>1
  <2> HIDE DEF a, w, n
  <2>2. w[a] = IF a < k THEN s[a] ELSE s[a + 1]
    BY <1>2, <2>1
  <2>3. w[a] = s[i]
    BY <2>1, <2>2
  <2> QED
    BY <1>2, <2>1, <2>3 DEF a
<1> HIDE DEF w
<1> QED
  BY <1>1, <1>2, <1>4, <1>5 DEF w, Taken

LEMMA Rotations == probe \in OrderInput => OrderStable
<1> SUFFICES ASSUME probe \in OrderInput PROVE OrderStable
  OBVIOUS
<1>1. PICK p : p = probe
  OBVIOUS
<1>2. PICK s : s = p.ids
  OBVIOUS
<1>3. Listed(p, s) /\ p.shuffle \in BOOLEAN
  <2>1. /\ p \in [f : {"order"}, shuffle : BOOLEAN, key : UNION {[S -> Nat] : S \in SUBSET Nat}, ids : Seq(Nat)]
        /\ Distinct(p.ids) /\ \A i \in DOMAIN p.ids : p.ids[i] \in DOMAIN p.key
    BY <1>1 DEF OrderInput
  <2>2. PICK S \in SUBSET Nat : p.key \in [S -> Nat]
    BY <2>1
  <2> QED
    BY <1>2, <2>1, <2>2 DEF Listed
<1>4. {RotationOrder(p, s)[r] : r \in DOMAIN s} = DOMAIN s
  <2>1. PICK o : o = RotationOrder(p, s)
    OBVIOUS
  <2>2. o \in [DOMAIN s -> DOMAIN s] /\ \A j \in DOMAIN s : \E r \in DOMAIN s : o[r] = j
    BY <1>3, <2>1, Rotation DEF Rotates
  <2> QED
    BY <2>1, <2>2
<1>5. ASSUME NEW k \in DOMAIN s, NEW i \in DOMAIN s \ {k}, NEW j \in DOMAIN s \ {k}
      PROVE  Precedes(Shown(p, s), s[i], s[j]) <=> Precedes(Shown(p, Without(s, k)), s[i], s[j])
  <2>1. PICK w : w = Without(s, k)
    OBVIOUS
  <2>2. PICK a, b : a = (IF i < k THEN i ELSE i - 1) /\ b = (IF j < k THEN j ELSE j - 1)
    OBVIOUS
  <2>3. /\ Listed(p, w) /\ Len(w) = Len(s) - 1 /\ Len(s) \in Nat
        /\ a \in DOMAIN w /\ w[a] = s[i] /\ b \in DOMAIN w /\ w[b] = s[j]
    <3>1. Taken(p, s, k, w)
      BY <1>3, <2>1, TakenOut
    <3> QED
      BY <2>2, <3>1 DEF Taken
  <2>4. Precedes(Shown(p, s), s[i], s[j]) <=> First(p, s, i, j)
    BY <1>3, ShownOrder
  <2>5. Precedes(Shown(p, w), w[a], w[b]) <=> First(p, w, a, b)
    BY <1>3, <2>3, ShownOrder
  <2>6. i \in Nat /\ j \in Nat /\ k \in Nat /\ DOMAIN s = 1..Len(s)
    BY <1>3 DEF Listed
  <2>7. a < b <=> i < j
    BY <2>2, <2>6
  <2>8. Before(p, w, a, b) <=> Before(p, s, i, j)
    BY <2>3 DEF Before, ShuffleKey
  <2>9. First(p, w, a, b) <=> First(p, s, i, j)
    <3>1. CASE Mixes(p, w) <=> Mixes(p, s)
      BY <2>7, <2>8, <3>1 DEF First
    <3>2. CASE ~(Mixes(p, w) <=> Mixes(p, s))
      <4>1. Mixes(p, s) /\ ~Mixes(p, w) /\ Len(s) = 2
        BY <1>3, <2>3, <3>2 DEF Mixes
      <4>2. i = j
        BY <2>6, <4>1
      <4>3. a = b /\ ~(a < b)
        BY <2>2, <2>6, <4>2
      <4>4. ~Before(p, s, i, j)
        <5>1. s[i] \in Nat /\ p.key[s[i]] \in Nat
          BY <1>3 DEF Listed
        <5> QED
          BY <4>2, <5>1 DEF Before, ShuffleKey
      <4> QED
        BY <4>1, <4>3, <4>4 DEF First
    <3> QED
      BY <3>1, <3>2
  <2> QED
    BY <2>1, <2>3, <2>4, <2>5, <2>9
<1> QED
  BY <1>1, <1>2, <1>4, <1>5, Zenon DEF OrderStable

-----------------------------------------------------------------------------
LEMMA ShortSeqs == ASSUME NEW S, NEW n \in Nat, NEW s \in SeqsUpTo(S, n) PROVE s \in Seq(S)
<1>1. PICK k \in 0..n : s \in [1..k -> S]
  BY DEF SeqsUpTo
<1> QED
  BY <1>1

\* The cases TLC enumerates are among the inputs.
LEMMA ProbesAreInputs == PolInit => probe \in PolInput
<1>1. \A S : \A s \in SeqsUpTo(S, 2) : s \in Seq(S)
  BY ShortSeqs
<1>2. \A S : \A s \in SeqsUpTo(S, 3) : s \in Seq(S)
  BY ShortSeqs
<1>3. probe \in WakeProbe => probe \in WakeInput
  BY DEF WakeProbe, WakeInput, Hour
<1>4. probe \in VerdictProbe => probe \in VerdictInput
  BY DEF VerdictProbe, VerdictInput
<1>5. probe \in EgressProbe => probe \in EgressInput
  <2> SUFFICES ASSUME probe \in EgressProbe PROVE probe \in EgressInput
    OBVIOUS
  <2>1. probe.ips \in Seq({"public", "denied"})
    BY <1>1, Zenon DEF EgressProbe
  <2> QED
    BY <2>1 DEF EgressProbe, EgressInput
<1>6. probe \in SubstProbe => probe \in SubstInput
  <2> SUFFICES ASSUME probe \in SubstProbe PROVE probe \in SubstInput
    OBVIOUS
  <2> DEFINE L == ParamNames \cup {"lit"}
  <2>1. "a" \in L /\ "b" \in L /\ "lit" \in L
    BY DEF ParamNames
  <2>2. probe.src \in {<<"lit">>, <<"a">>, <<"a", "lit", "b">>}
    BY DEF SubstProbe
  <2> HIDE DEF L
  <2>3. <<"lit">> \in Seq(L) /\ <<"a">> \in Seq(L) /\ <<"a", "lit", "b">> \in Seq(L)
    BY <2>1
  <2>4. probe.src \in Seq(L)
    BY <2>2, <2>3, Zenon
  <2> QED
    BY <2>4 DEF SubstProbe, SubstInput, L
<1>7. probe \in OrderProbe => probe \in OrderInput
  <2> SUFFICES ASSUME probe \in OrderProbe PROVE probe \in OrderInput
    OBVIOUS
  <2>1. /\ probe.f = "order" /\ probe.shuffle \in BOOLEAN /\ probe.key \in [ItemId -> 0..2]
        /\ probe.ids \in Seq(ItemId) /\ Distinct(probe.ids)
        /\ probe = [f |-> probe.f, shuffle |-> probe.shuffle, key |-> probe.key, ids |-> probe.ids]
    <3> DEFINE I == {s \in SeqsUpTo(ItemId, 3) : Distinct(s)}
               K == [ItemId -> 0..2]
    <3>1. probe \in [f : {"order"}, shuffle : BOOLEAN, key : K, ids : I]
      BY DEF OrderProbe
    <3>2. \A s \in I : s \in Seq(ItemId) /\ Distinct(s)
      BY <1>2
    <3> HIDE DEF I, K
    <3>3. /\ probe.f = "order" /\ probe.shuffle \in BOOLEAN /\ probe.key \in K /\ probe.ids \in I
          /\ probe = [f |-> probe.f, shuffle |-> probe.shuffle, key |-> probe.key, ids |-> probe.ids]
      BY <3>1
    <3> QED
      BY <3>2, <3>3 DEF K
  <2>2. ItemId \in SUBSET Nat /\ probe.key \in [ItemId -> Nat] /\ probe.ids \in Seq(Nat)
    BY <2>1 DEF ItemId
  <2>3. \A i \in DOMAIN probe.ids : probe.ids[i] \in DOMAIN probe.key
    BY <2>1
  <2>4. probe.key \in UNION {[S -> Nat] : S \in SUBSET Nat}
    BY <2>2
  <2> QED
    BY <2>1, <2>2, <2>3, <2>4 DEF OrderInput
<1>8. probe \in ThumbProbe => probe \in ThumbInput
  BY DEF ThumbProbe, ThumbInput
<1> QED
  BY <1>3, <1>4, <1>5, <1>6, <1>7, <1>8 DEF PolInit, PolInput

(* Every policy agrees with its reference definition on every input it can *)
(* be given: wake times stay within the night and the interval, the health *)
(* verdict is the worst condition, the egress proxy dials a public address *)
(* or what the operator named, a template is filled in completely or       *)
(* refused, a rotation shows everything in an order that adding or removing*)
(* an item does not disturb, and thumbnails fit and have no empty cell.    *)
THEOREM PoliciesAreExact == PolSpec => []PoliciesExact
<1>1. ASSUME probe \in PolInput PROVE PoliciesExact
  <2>1. PICK f : f = probe.f
    OBVIOUS
  <2>2. CASE probe \in WakeInput
    <3>1. probe.f = "wake"
      BY <2>2 DEF WakeInput
    <3> QED
      BY <2>2, <3>1, WakeTimes DEF PoliciesExact, VerdictWorst, EgressPinned, SubstituteExact, OrderStable, ThumbFits
  <2>3. CASE probe \in VerdictInput
    <3>1. probe.f = "verdict"
      BY <2>3 DEF VerdictInput
    <3> QED
      BY <2>3, <3>1, VerdictIs DEF PoliciesExact, WakeInTime, EgressPinned, SubstituteExact, OrderStable, ThumbFits
  <2>4. CASE probe \in EgressInput
    <3>1. probe.f = "egress"
      BY <2>4 DEF EgressInput
    <3> QED
      BY <2>4, <3>1, Egress DEF PoliciesExact, WakeInTime, VerdictWorst, SubstituteExact, OrderStable, ThumbFits
  <2>5. CASE probe \in SubstInput
    <3>1. probe.f = "subst"
      BY <2>5 DEF SubstInput
    <3> QED
      BY <2>5, <3>1, Substitution DEF PoliciesExact, WakeInTime, VerdictWorst, EgressPinned, OrderStable, ThumbFits
  <2>6. CASE probe \in OrderInput
    <3>1. probe.f = "order"
      BY <2>6 DEF OrderInput
    <3> QED
      BY <2>6, <3>1, Rotations DEF PoliciesExact, WakeInTime, VerdictWorst, EgressPinned, SubstituteExact, ThumbFits
  <2>7. CASE probe \in ThumbInput
    <3>1. probe.f = "thumb"
      BY <2>7 DEF ThumbInput
    <3> QED
      BY <2>7, <3>1, Thumbnails DEF PoliciesExact, WakeInTime, VerdictWorst, EgressPinned, SubstituteExact, OrderStable
  <2> QED
    BY <1>1, <2>2, <2>3, <2>4, <2>5, <2>6, <2>7 DEF PolInput
<1>2. probe \in PolInput /\ [FALSE]_probe => (probe \in PolInput)'
  BY DEF PolInput, WakeInput, VerdictInput, EgressInput, SubstInput, OrderInput, ThumbInput
<1>3. probe \in PolInput => PoliciesExact
  BY <1>1
<1> QED
  BY <1>2, <1>3, PTL DEF PolSpec
=============================================================================
