------------------------------ MODULE Playlists ------------------------------
(***************************************************************************)
(* Playlists and what devices show: internal/playliststore, plrender and   *)
(* the binding half of faasstore, with the handlers of playlist_http.go,   *)
(* panel_http.go and faas_ui_http.go that check before they call them, and *)
(* the frame requests of faascore that read what they write.               *)
(* A transaction that takes the device's advisory lock is one step, as is  *)
(* a single statement; a handler's checks, a second statement and every    *)
(* read of a frame request are steps of their own.                         *)
(* Items are a sequence of images (ORDER BY position); names, fit, dither  *)
(* and the shuffle order of the indices are left out (RotationOrder is a   *)
(* permutation of them).  Time is counted in intervals of the playlist.    *)
(***************************************************************************)
EXTENDS Integers, Sequences, FiniteSets

CONSTANTS Device, Image, Fn,
          Op,        \* concurrent operator requests
          Req,       \* concurrent frame requests
          MaxPl,     \* bound on playlists ever created
          MaxItems,  \* bound on items of a playlist
          MaxCalls,  \* bound on operator requests
          MaxClock   \* bound on intervals that pass

Nothing == 0
Pl == 1..MaxPl
NoDev == "nobody"
NoCursor == [pl |-> Nothing, pos |-> 0, at |-> 0, born |-> 0, adv |-> 0, bind |-> 0]

ASSUME PlAssumption ==
  /\ MaxPl \in Nat /\ NoDev \notin Device /\ "range" \notin Image
  /\ Fn \cap (Pl \cup {Nothing}) = {}

VARIABLES
  devices, images,  \* serials and images that have a row
  pls,      \* Pl -> [live, owner, items]; owner is managed_serial
  pb, rb,   \* device_playlist_binding, device_render_binding
  cursor,   \* playlist_cursor
  call,     \* Op -> a handler past its checks
  req,      \* Req -> a frame request
  clock, calls, nextPl,
  binds,    \* history: binds of a device so far
  ghosts    \* history: devices bound by a handler whose check was stale

tables == <<devices, images, pls, pb, rb, cursor>>
plVars == <<tables, call, req, clock, calls, nextPl, binds, ghosts>>

IdleOp == [kind |-> "idle", dev |-> NoDev, arg |-> Nothing]
IdleReq == [pc |-> "idle", dev |-> NoDev, pl |-> Nothing, now |-> 0,
            items |-> <<>>, img |-> NoDev]

PlInit ==
  /\ devices = Device /\ images = Image
  /\ pls = [p \in Pl |-> [live |-> FALSE, owner |-> NoDev, items |-> <<>>]]
  /\ pb = [d \in Device |-> Nothing] /\ rb = [d \in Device |-> Nothing]
  /\ cursor = [d \in Device |-> NoCursor]
  /\ call = [o \in Op |-> IdleOp] /\ req = [r \in Req |-> IdleReq]
  /\ clock = 0 /\ calls = 0 /\ nextPl = 1
  /\ binds = [d \in Device |-> 0] /\ ghosts = {}

Live == {p \in Pl : pls[p].live}
Managed(d) == {p \in Live : pls[p].owner = d}
Has(p, i) == \E k \in DOMAIN pls[p].items : pls[p].items[k] = i
Gone(S) == [p \in Pl |-> IF p \in S THEN [live |-> FALSE, owner |-> NoDev, items |-> <<>>]
                         ELSE pls[p]]
Unbound(S) == [d \in Device |-> IF pb[d] \in S THEN Nothing ELSE pb[d]]

Counted == calls < MaxCalls /\ calls' = calls + 1
Idle(o) == call' = [call EXCEPT ![o] = IdleOp]

-----------------------------------------------------------------------------
(* Editing.  Every edit is one statement or one transaction.               *)

CreatePlaylist == pls' = [pls EXCEPT ![nextPl].live = TRUE] /\ nextPl' = nextPl + 1

Create ==
  /\ Counted /\ nextPl <= MaxPl /\ CreatePlaylist
  /\ UNCHANGED <<devices, images, pb, rb, cursor, call, req, clock, binds, ghosts>>

\* The foreign key to the image is checked by the insert itself.
AddItem(p, i) == i \in images /\ pls' = [pls EXCEPT ![p].items = Append(@, i)]

PostItem(p, i) ==
  /\ Counted /\ p \in Live /\ Len(pls[p].items) < MaxItems /\ AddItem(p, i)
  /\ UNCHANGED <<devices, images, pb, rb, cursor, call, req, clock, nextPl, binds, ghosts>>

RemoveItem(p, k) ==
  pls' = [pls EXCEPT ![p].items = SubSeq(@, 1, k - 1) \o SubSeq(@, k + 1, Len(@))]

DropItem(p, k) ==
  /\ Counted /\ p \in Live /\ k \in DOMAIN pls[p].items /\ RemoveItem(p, k)
  /\ UNCHANGED <<devices, images, pb, rb, cursor, call, req, clock, nextPl, binds, ghosts>>

(* Reorder: exactly the current items in another order, else it is rolled  *)
(* back and answered 422.                                                  *)
Reorder(p, f) ==
  /\ DOMAIN f = DOMAIN pls[p].items /\ \A j, k \in DOMAIN f : f[j] = f[k] => j = k
  /\ pls' = [pls EXCEPT ![p].items = [k \in DOMAIN f |-> pls[p].items[f[k]]]]

PatchItems(p) ==
  /\ Counted /\ p \in Live
  /\ \E f \in [DOMAIN pls[p].items -> DOMAIN pls[p].items] : Reorder(p, f)
  /\ UNCHANGED <<devices, images, pb, rb, cursor, call, req, clock, nextPl, binds, ghosts>>

(* Mutant: the cascade to managed playlists is forgotten. *)
DeleteImageAlone(i) ==
  /\ i \in images /\ \A p \in Live : pls[p].owner = NoDev => ~Has(p, i)
  /\ images' = images \ {i} /\ UNCHANGED <<pls, pb, cursor>>

(* DeleteImageManagedAware: refused while an operator's playlist shows the *)
(* image; managed playlists that do go with it, with binding and cursor.   *)
DeleteImageManagedAware(i) ==
  /\ i \in images /\ \A p \in Live : pls[p].owner = NoDev => ~Has(p, i)
  /\ LET dead == {p \in Live : Has(p, i)} IN
     /\ pls' = Gone(dead) /\ pb' = Unbound(dead)
     /\ cursor' = [d \in Device |-> IF \E p \in dead : pls[p].owner = d
                                    THEN NoCursor ELSE cursor[d]]
  /\ images' = images \ {i}

DeleteImage(i) ==
  /\ Counted /\ DeleteImageManagedAware(i)
  /\ UNCHANGED <<devices, rb, call, req, clock, nextPl, binds, ghosts>>

-----------------------------------------------------------------------------
(* Handlers that check first: the request is admitted here ...             *)
Admit(o, kind, d, a) ==
  /\ Counted /\ call[o] = IdleOp
  /\ call' = [call EXCEPT ![o] = [kind |-> kind, dev |-> d, arg |-> a]]
  /\ UNCHANGED <<tables, req, clock, nextPl, binds, ghosts>>

CheckBind(o, d, p) == d \in devices /\ p \in Live /\ Admit(o, "bind", d, p)
CheckImage(o, d, i) == d \in devices /\ i \in images /\ Admit(o, "image", d, i)
CheckFunction(o, d, f) == d \in devices /\ Admit(o, "fn", d, f)
(* delete: refused while CountBindings is positive. *)
CheckDelete(o, p) == p \in Live /\ (\A d \in Device : pb[d] # p) /\ Admit(o, "delete", NoDev, p)

(* ... and its transaction commits, or meets a row that is gone by now.    *)
Bound(d) == /\ binds' = [binds EXCEPT ![d] = @ + 1]
            /\ ghosts' = IF d \in devices THEN ghosts ELSE ghosts \cup {d}

(* Mutant of BindPlaylist: the cursor survives a rebind. *)
BindPlaylistKeepCursor(o) ==
  /\ call[o].kind = "bind" /\ call[o].arg \in Live
  /\ LET d == call[o].dev IN LET p == call[o].arg IN
     LET reap == Managed(d) \ {p} IN
     /\ rb' = [rb EXCEPT ![d] = Nothing]
     /\ pls' = Gone(reap) /\ pb' = [Unbound(reap) EXCEPT ![d] = p]
     /\ Bound(d)
  /\ Idle(o) /\ UNCHANGED <<devices, images, cursor, req, clock, calls, nextPl>>

(* BindPlaylist: the function's binding goes, the playlist's is upserted,  *)
(* the cursor is reset, another managed playlist of the device is reaped.  *)
BindPlaylist(o) ==
  /\ call[o].kind = "bind" /\ call[o].arg \in Live
  /\ LET d == call[o].dev IN LET p == call[o].arg IN
     LET reap == Managed(d) \ {p} IN
     /\ rb' = [rb EXCEPT ![d] = Nothing]
     /\ pls' = Gone(reap) /\ pb' = [Unbound(reap) EXCEPT ![d] = p]
     /\ cursor' = [cursor EXCEPT ![d] = NoCursor]
     /\ Bound(d)
  /\ Idle(o) /\ UNCHANGED <<devices, images, req, clock, calls, nextPl>>

(* SetManagedImage: upsert the device's managed playlist with this image   *)
(* as its only item, bind it, reset the cursor.                            *)
SetManagedImage(o) ==
  /\ call[o].kind = "image" /\ call[o].arg \in images
  /\ Managed(call[o].dev) # {} \/ nextPl <= MaxPl
  /\ LET d == call[o].dev IN
     LET p == IF Managed(d) # {} THEN CHOOSE x \in Managed(d) : TRUE ELSE nextPl IN
     /\ rb' = [rb EXCEPT ![d] = Nothing]
     /\ pls' = [pls EXCEPT ![p] = [live |-> TRUE, owner |-> d, items |-> <<call[o].arg>>]]
     /\ nextPl' = IF p = nextPl THEN nextPl + 1 ELSE nextPl
     /\ pb' = [pb EXCEPT ![d] = p]
     /\ cursor' = [cursor EXCEPT ![d] = NoCursor]
     /\ Bound(d)
  /\ Idle(o) /\ UNCHANGED <<devices, images, req, clock, calls>>

(* Mutant of BindDevice: the managed playlist is left behind. *)
BindDeviceNoReap(o) ==
  /\ call[o].kind = "fn"
  /\ LET d == call[o].dev IN
     /\ pb' = [pb EXCEPT ![d] = Nothing]
     /\ cursor' = [cursor EXCEPT ![d] = NoCursor]
     /\ rb' = [rb EXCEPT ![d] = call[o].arg]
     /\ Bound(d)
  /\ Idle(o) /\ UNCHANGED <<devices, images, pls, req, clock, calls, nextPl>>

(* Mutant of BindDevice: the playlist's binding is left in place. *)
BindDeviceBoth(o) ==
  /\ call[o].kind = "fn"
  /\ rb' = [rb EXCEPT ![call[o].dev] = call[o].arg]
  /\ Bound(call[o].dev)
  /\ Idle(o) /\ UNCHANGED <<devices, images, pls, pb, cursor, req, clock, calls, nextPl>>

(* Mutant of BindDevice: every device's playlist binding is deleted. *)
BindDeviceForAll(o) ==
  /\ call[o].kind = "fn"
  /\ LET d == call[o].dev IN
     /\ pls' = Gone(Managed(d))
     /\ pb' = [x \in Device |-> Nothing]
     /\ cursor' = [cursor EXCEPT ![d] = NoCursor]
     /\ rb' = [rb EXCEPT ![d] = call[o].arg]
     /\ Bound(d)
  /\ Idle(o) /\ UNCHANGED <<devices, images, req, clock, calls, nextPl>>

(* faasstore.BindDevice: the converse of BindPlaylist. *)
BindDevice(o) ==
  /\ call[o].kind = "fn"
  /\ LET d == call[o].dev IN
     /\ pls' = Gone(Managed(d))
     /\ pb' = [Unbound(Managed(d)) EXCEPT ![d] = Nothing]
     /\ cursor' = [cursor EXCEPT ![d] = NoCursor]
     /\ rb' = [rb EXCEPT ![d] = call[o].arg]
     /\ Bound(d)
  /\ Idle(o) /\ UNCHANGED <<devices, images, req, clock, calls, nextPl>>

(* DeletePlaylist: items and bindings cascade; the cursor stays.           *)
DeletePlaylist(o) ==
  /\ call[o].kind = "delete" /\ call[o].arg \in Live
  /\ pls' = Gone({call[o].arg}) /\ pb' = Unbound({call[o].arg})
  /\ Idle(o)
  /\ UNCHANGED <<devices, images, rb, cursor, req, clock, calls, nextPl, binds, ghosts>>

(* The row is gone: a foreign key refuses the insert, or nothing matches.  *)
Refused(o) ==
  /\ \/ call[o].kind \in {"bind", "delete"} /\ call[o].arg \notin Live
     \/ call[o].kind = "image" /\ call[o].arg \notin images
  /\ Idle(o)
  /\ UNCHANGED <<tables, req, clock, calls, nextPl, binds, ghosts>>

(* UnbindPlaylist without a lock: the binding ...                          *)
UnbindPlaylist(o, d) ==
  /\ Counted /\ call[o] = IdleOp
  /\ pb' = [pb EXCEPT ![d] = Nothing]
  /\ call' = [call EXCEPT ![o] = [kind |-> "unbind", dev |-> d, arg |-> Nothing]]
  /\ UNCHANGED <<devices, images, pls, rb, cursor, req, clock, nextPl, binds, ghosts>>

(* ... then the cursor. *)
UnbindCursor(o) ==
  /\ call[o].kind = "unbind"
  /\ cursor' = [cursor EXCEPT ![call[o].dev] = NoCursor]
  /\ Idle(o)
  /\ UNCHANGED <<devices, images, pls, pb, rb, req, clock, calls, nextPl, binds, ghosts>>

(* faasstore.Unbind and its handler. *)
Unbind(d) == rb' = [rb EXCEPT ![d] = Nothing]

UnbindFunction(d) ==
  /\ Counted /\ rb[d] # Nothing /\ Unbind(d)
  /\ UNCHANGED <<devices, images, pls, pb, cursor, call, req, clock, nextPl, binds, ghosts>>

(* Mutant of Delete: the bindings have no foreign key to the device and    *)
(* nothing deletes them.                                                   *)
DeleteAlone(d) == devices' = devices \ {d} /\ UNCHANGED <<pls, pb, rb, cursor>>

(* devicestore.Delete: both bindings, the cursor and the managed playlist  *)
(* go with the device, in one transaction but without the lock.            *)
Delete(d) ==
  /\ devices' = devices \ {d}
  /\ rb' = [rb EXCEPT ![d] = Nothing]
  /\ pls' = Gone(Managed(d))
  /\ pb' = [Unbound(Managed(d)) EXCEPT ![d] = Nothing]
  /\ cursor' = [cursor EXCEPT ![d] = NoCursor]

DeleteDevice(d) ==
  /\ Counted /\ d \in devices /\ Delete(d)
  /\ ghosts' = ghosts \ {d}
  /\ UNCHANGED <<images, call, req, clock, nextPl, binds>>

(* devicestore.Register of a serial that was deleted: what was left behind *)
(* for it is in effect again.                                              *)
Register(d) == devices' = devices \cup {d}

PostDevice(d) ==
  /\ Counted /\ d \in Device \ devices /\ Register(d)
  /\ UNCHANGED <<images, pls, pb, rb, cursor, call, req, clock, nextPl, binds, ghosts>>

-----------------------------------------------------------------------------
(* A frame request: Render, then buildPlaylistFrame. *)

(* ResolveBinding, and the time the request carries on with.               *)
Render(r, d) ==
  /\ req[r].pc = "idle" /\ pb[d] # Nothing
  /\ req' = [req EXCEPT ![r] = [IdleReq EXCEPT !.pc = "items", !.dev = d,
                                               !.pl = pb[d], !.now = clock]]
  /\ UNCHANGED <<tables, call, clock, calls, nextPl, binds, ghosts>>

(* GetPlaylist and RotationItems: a playlist that is gone or empty is an   *)
(* error frame, and the cursor is left alone.                              *)
RotationItems(r) ==
  /\ req[r].pc = "items"
  /\ req' = [req EXCEPT ![r] = IF pls[req[r].pl].items = <<>> THEN IdleReq
               ELSE [@ EXCEPT !.pc = "cursor", !.items = pls[req[r].pl].items]]
  /\ UNCHANGED <<tables, call, clock, calls, nextPl, binds, ghosts>>

(* Mutant of Resolve: a request moves the cursor on although its time is   *)
(* not up.                                                                 *)
ResolveAlways(c, r, n) ==
  IF c.pl # r.pl THEN [pl |-> r.pl, pos |-> 0, at |-> r.now, born |-> r.now, adv |-> 0,
                       bind |-> binds[r.dev]]
  ELSE [c EXCEPT !.pos = ((c.pos % n) + 1) % n, !.at = r.now, !.adv = @ + 1]

(* What ResolveCursor leaves behind: the first item on a cursor that is    *)
(* missing or of another playlist, the next one after a whole interval,    *)
(* else the same one, brought into the range of n items.                   *)
Resolve(c, r, n) ==
  IF c.pl # r.pl THEN [pl |-> r.pl, pos |-> 0, at |-> r.now, born |-> r.now, adv |-> 0,
                       bind |-> binds[r.dev]]
  ELSE IF r.now - c.at >= 1
    THEN [c EXCEPT !.pos = ((c.pos % n) + 1) % n, !.at = r.now, !.adv = @ + 1]
    ELSE [c EXCEPT !.pos = c.pos % n]

(* ResolveCursor, under the device's lock, with the item count the request *)
(* read before.                                                            *)
ResolveCursor(r) ==
  /\ req[r].pc = "cursor"
  /\ LET c == Resolve(cursor[req[r].dev], req[r], Len(req[r].items)) IN
     /\ cursor' = [cursor EXCEPT ![req[r].dev] = c]
     /\ req' = [req EXCEPT ![r] = [@ EXCEPT !.pc = "image",
                  !.img = IF c.pos < Len(req[r].items) THEN req[r].items[c.pos + 1] ELSE "range"]]
  /\ UNCHANGED <<devices, images, pls, pb, rb, call, clock, calls, nextPl, binds, ghosts>>

(* GetImage and packedVariant: the frame, or the error frame when the      *)
(* image is gone.                                                          *)
ServeItem(r) ==
  /\ req[r].pc = "image"
  /\ req' = [req EXCEPT ![r] = IdleReq]
  /\ UNCHANGED <<tables, call, clock, calls, nextPl, binds, ghosts>>

(* An interval passes. *)
Tick ==
  /\ clock < MaxClock /\ clock' = clock + 1
  /\ UNCHANGED <<tables, call, req, calls, nextPl, binds, ghosts>>

Edit == \/ Create
        \/ \E p \in Pl : \/ \E i \in Image : PostItem(p, i)
                         \/ \E k \in 1..MaxItems : DropItem(p, k)
                         \/ PatchItems(p)
        \/ \E i \in Image : DeleteImage(i)
Admission(o) ==
  \/ \E d \in Device : \/ \E p \in Pl : CheckBind(o, d, p)
                       \/ \E i \in Image : CheckImage(o, d, i)
                       \/ \E f \in Fn : CheckFunction(o, d, f)
                       \/ UnbindPlaylist(o, d)
  \/ \E p \in Pl : CheckDelete(o, p)
Commit(o) == BindPlaylist(o) \/ SetManagedImage(o) \/ BindDevice(o) \/ DeletePlaylist(o)
             \/ Refused(o) \/ UnbindCursor(o)

PlNext ==
  \/ Edit \/ Tick
  \/ \E o \in Op : Admission(o) \/ Commit(o)
  \/ \E d \in Device : UnbindFunction(d) \/ DeleteDevice(d) \/ PostDevice(d)
  \/ \E r \in Req : (\E d \in Device : Render(r, d)) \/ RotationItems(r)
                    \/ ResolveCursor(r) \/ ServeItem(r)

PlSpec == PlInit /\ [][PlNext]_plVars

-----------------------------------------------------------------------------
(* A device has one source of frames, whatever binds, unbinds, deletions   *)
(* and cascades overlap; and the tables together behave like one register  *)
(* per device (Panel).                                                     *)
OneSource == \A d \in Device : pb[d] = Nothing \/ rb[d] = Nothing

Shows(d) == IF pb[d] # Nothing THEN pb[d] ELSE rb[d]
P == INSTANCE Panel WITH shows <- [d \in Device |-> Shows(d)], made <- Live \cup Fn,
                         Content <- Pl \cup Fn
RefinesPanel == P!PanelSpec

(* A managed playlist belongs to the panel it was made for: one per        *)
(* device, one item unless an operator edited it, never left behind by     *)
(* what replaced it.                                                       *)
ManagedReaped ==
  \A d \in Device : /\ Cardinality(Managed(d)) <= 1
                    /\ \A p \in Managed(d) : pb[d] \in {p, Nothing} /\ rb[d] = Nothing

(* No item refers to a deleted image and no binding to a deleted playlist, *)
(* and the item chosen for a frame is one of the list the request read,    *)
(* although the list may have shrunk since the cursor was written.         *)
NothingDangles ==
  /\ \A p \in Live, i \in Image : Has(p, i) => i \in images
  /\ \A d \in Device : pb[d] \in Live \cup {Nothing}
  /\ \A r \in Req : req[r].img # "range"

(* However many requests overlap, and whenever they read the clock, a      *)
(* rotation advances at most once per interval.                            *)
AdvanceRate == \A d \in Device : cursor[d].adv <= clock - cursor[d].born

(* A bind starts the rotation over: the cursor a device follows was made   *)
(* under its present binding, although older requests still write it.      *)
CursorOfBinding ==
  \A d \in Device : pb[d] # Nothing /\ cursor[d].pl = pb[d] => cursor[d].bind = binds[d]

(* Only a handler whose check of the device was overtaken by its deletion  *)
(* leaves a binding for a serial that is not registered, to be inherited   *)
(* when the serial is registered again.                                    *)
NoOrphanBinding ==
  \A d \in Device : pb[d] # Nothing \/ rb[d] # Nothing => d \in devices \cup ghosts

\* Bindings, playlists, items and cursors agree with each other, and rotations
\* keep their pace.
TablesAgree ==
  /\ OneSource /\ ManagedReaped /\ NothingDangles /\ NoOrphanBinding
  /\ AdvanceRate /\ CursorOfBinding

-----------------------------------------------------------------------------
(* What the proofs of TablesAgree and RefinesPanel rest on.                *)

Playlist == [live : BOOLEAN, owner : Device \cup {NoDev}, items : Seq(Image)]
Cursor == [pl : Pl \cup {Nothing}, pos : Nat, at : Nat, born : Nat, adv : Nat, bind : Nat]

PlType ==
  /\ devices \subseteq Device /\ images \subseteq Image /\ ghosts \subseteq Device
  /\ pls \in [Pl -> Playlist]
  /\ pb \in [Device -> Pl \cup {Nothing}] /\ rb \in [Device -> Fn \cup {Nothing}]
  /\ cursor \in [Device -> Cursor]
  /\ clock \in Nat /\ nextPl \in Nat \ {0} /\ binds \in [Device -> Nat]

(* What a handler past its checks and a frame request carry. *)
Handler(c) ==
  \/ c.kind = "idle"
  \/ c.kind = "bind" /\ c.dev \in Device /\ c.arg \in Pl
  \/ c.kind = "image" /\ c.dev \in Device /\ c.arg \in Image
  \/ c.kind = "fn" /\ c.dev \in Device /\ c.arg \in Fn
  \/ c.kind = "delete" /\ c.arg \in Pl
  \/ c.kind = "unbind" /\ c.dev \in Device

Request ==
  [pc : {"idle", "items", "cursor", "image"}, dev : Device \cup {NoDev}, pl : Pl \cup {Nothing},
   now : Nat, items : Seq(Image), img : Image \cup {NoDev}]

RequestsInv ==
  /\ DOMAIN call = Op /\ \A o \in Op : Handler(call[o])
  /\ req \in [Req -> Request]
  /\ \A r \in Req : /\ req[r].now <= clock
                    /\ req[r].pc \in {"items", "cursor"} => req[r].dev \in Device /\ req[r].pl \in Pl
                    /\ req[r].pc = "cursor" => req[r].items # <<>>

(* A playlist that is gone owns nothing and is empty; a managed one is its *)
(* device's only one, and the device shows it or nothing.                  *)
RowsInv ==
  /\ \A p \in Pl : ~pls[p].live => pls[p].owner = NoDev /\ pls[p].items = <<>>
  /\ \A p \in Pl : pls[p].live => p < nextPl
  /\ \A p, q \in Pl : pls[p].owner # NoDev /\ pls[p].owner = pls[q].owner => p = q
  /\ \A p \in Pl : pls[p].owner # NoDev =>
        pb[pls[p].owner] \in {p, Nothing} /\ rb[pls[p].owner] = Nothing
  /\ \A p \in Pl : \A k \in DOMAIN pls[p].items : pls[p].items[k] \in images
  /\ \A d \in Device : pb[d] # Nothing => pls[pb[d]].live
  /\ OneSource /\ NoOrphanBinding

(* A rotation has advanced at most once per interval up to its last        *)
(* advance, and its cursor is of the device's latest bind.                 *)
RotationInv ==
  \A d \in Device : /\ cursor[d].adv <= cursor[d].at - cursor[d].born /\ cursor[d].at <= clock
                    /\ cursor[d].pl # Nothing => cursor[d].bind = binds[d]

PlInv == PlType /\ RequestsInv /\ RowsInv /\ RotationInv
=============================================================================
