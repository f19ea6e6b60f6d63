------------------------------- MODULE Browse -------------------------------
(***************************************************************************)
(* Walking a list page by page while it changes: the keyset lists of       *)
(* playlists, their items, images and templates (playliststore, imgstore,  *)
(* templatestore and the handlers that return next_cursor).                *)
(* A row is [id, pos, hidden]: ids grow, pos is the position of an item    *)
(* and hidden marks a managed playlist.  A page is one statement.          *)
(***************************************************************************)
EXTENDS Integers, Sequences, FiniteSets

CONSTANTS PageMax,        \* the largest page the handlers allow
          MaxRows, MaxEdits  \* bounds on rows ever inserted and on edits

ASSUME BrAssumption == PageMax \in Nat \ {0}

Lists == {"playlists", "items", "images", "templates"}

VARIABLES
  list,      \* which list this is
  rows,
  ids, edits,
  walk,      \* [pc, after, limit]: the client's request for the next page
  seen,      \* ids in the order they were returned
  stayed,    \* history: ids present since the walk began
  moved      \* history: positions were rewritten during the walk

browseVars == <<list, rows, ids, edits, walk, seen, stayed, moved>>

BrInit ==
  /\ list \in Lists /\ rows = {} /\ ids = 0 /\ edits = 0
  /\ walk = [pc |-> "idle", after |-> -1, limit |-> 1] /\ seen = <<>> /\ stayed = {} /\ moved = FALSE

Edited == edits < MaxEdits /\ edits' = edits + 1
At(r) == IF list = "items" THEN r.pos ELSE r.id
Largest(S) == CHOOSE x \in S \cup {-1} : \A y \in S : x >= y

(* AddItem appends (max + 1); the other inserts are ordered by their id. *)
InsertRow(hidden) ==
  /\ Edited /\ ids < MaxRows /\ (hidden => list = "playlists")
  /\ ids' = ids + 1
  /\ rows' = rows \cup {[id |-> ids + 1, pos |-> Largest({r.pos : r \in rows}) + 1, hidden |-> hidden]}
  /\ UNCHANGED <<list, walk, seen, stayed, moved>>

DeleteRow(r) ==
  /\ Edited /\ rows' = rows \ {r} /\ stayed' = stayed \ {r.id}
  /\ UNCHANGED <<list, ids, walk, seen, moved>>

(* Reorder rewrites the positions to 0..n-1 in the order given. *)
ReorderRows(o) ==
  /\ Edited /\ list = "items"
  /\ rows' = {[r EXCEPT !.pos = o[r.id]] : r \in rows} /\ moved' = TRUE
  /\ UNCHANGED <<list, ids, walk, seen, stayed>>

-----------------------------------------------------------------------------
(* clampPlaylistLimit, clampImageLimit; a missing limit is the default. *)
ClampLimit(n) == IF n > PageMax THEN PageMax ELSE n

(* parsePlaylistCursor, parseImageCursor; items start before position 0. *)
FirstCursor == IF list = "items" THEN -1 ELSE 0

(* The WHERE of each list. *)
ListPlaylists(after) == {r \in rows : r.id > after /\ ~r.hidden}
ListImages(after) == {r \in rows : r.id > after}
ListTemplates(after) == {r \in rows : r.id > after}
(* Mutant of ListItems: the id where the position is meant. *)
ListItemsById(after) == {r \in rows : r.id > after + 1}
ListItems(after) == {r \in rows : r.pos > after}
Matches(after) == CASE list = "playlists" -> ListPlaylists(after) [] list = "images" -> ListImages(after)
                    [] list = "templates" -> ListTemplates(after) [] list = "items" -> ListItems(after)

(* ORDER BY ... LIMIT n *)
Page(S, n) == {r \in S : Cardinality({q \in S : At(q) < At(r)}) < n}

(* Mutant of NextCursor: a full page is taken for the last one. *)
NextCursorMore(page, n) == IF Cardinality(page) > n THEN Largest({At(r) : r \in page}) ELSE -2
(* next_cursor: the last row's key when the page is full, else null (-2). *)
NextCursor(page, n) == IF Cardinality(page) = n THEN Largest({At(r) : r \in page}) ELSE -2

InOrder(page) == CHOOSE s \in [1..Cardinality(page) -> page] :
                   \A i, j \in 1..Cardinality(page) : i < j => At(s[i]) < At(s[j])

Start(n) ==
  /\ walk.pc = "idle" /\ seen = <<>>
  /\ walk' = [pc |-> "next", after |-> FirstCursor, limit |-> ClampLimit(n)]
  /\ stayed' = {r.id : r \in {q \in rows : ~q.hidden}} /\ moved' = FALSE
  /\ UNCHANGED <<list, rows, ids, edits, seen>>

(* The handler, once per page. *)
ListPage ==
  /\ walk.pc = "next"
  /\ LET page == Page(Matches(walk.after), walk.limit)
         next == NextCursor(page, walk.limit)
         sorted == InOrder(page) IN
     /\ seen' = seen \o [i \in DOMAIN sorted |-> sorted[i].id]
     /\ walk' = IF next = -2 THEN [walk EXCEPT !.pc = "done"] ELSE [walk EXCEPT !.after = next]
  /\ UNCHANGED <<list, rows, ids, edits, stayed, moved>>

BrNext ==
  \/ \E h \in BOOLEAN : InsertRow(h)
  \/ \E r \in rows : DeleteRow(r)
  \/ \E o \in [{r.id : r \in rows} -> 0..(Cardinality(rows) - 1)] :
       {o[r.id] : r \in rows} = 0..(Cardinality(rows) - 1) /\ ReorderRows(o)
  \/ \E n \in 1..(PageMax + 1) : Start(n)
  \/ ListPage

BrSpec == BrInit /\ [][BrNext]_browseVars

-----------------------------------------------------------------------------
(* Nothing is shown twice in a walk, and what was there all the while is   *)
(* not skipped, whatever is inserted and deleted between two pages; only a *)
(* reordering of the items during the walk can upset it.                   *)
WalkComplete ==
  ~moved => /\ \A i, j \in DOMAIN seen : seen[i] = seen[j] => i = j
            /\ walk.pc = "done" => \A x \in stayed : \E i \in DOMAIN seen : seen[i] = x

-----------------------------------------------------------------------------
(* The inductive invariant.                                                *)
BrType ==
  /\ list \in Lists /\ ids \in Nat /\ IsFiniteSet(rows)
  /\ rows \subseteq [id : 1..ids, pos : Nat, hidden : BOOLEAN]
  /\ walk \in [pc : {"idle", "next", "done"}, after : Int, limit : Nat \ {0}]
  /\ seen \in Seq(1..ids) /\ moved \in BOOLEAN

\* No two rows have one id, and no two items one position.
Keyed ==
  /\ \A r, q \in rows : r.id = q.id => r = q
  /\ list = "items" => \A r, q \in rows : r.pos = q.pos => r = q

\* What was shown is not above the cursor, and what stayed and was not is.
CursorApart ==
  ~moved /\ walk.pc = "next" =>
    /\ \A i \in DOMAIN seen : \A r \in rows : r.id = seen[i] => At(r) <= walk.after
    /\ \A x \in stayed : \/ \E i \in DOMAIN seen : seen[i] = x
                         \/ \E r \in rows : r.id = x /\ ~r.hidden /\ At(r) > walk.after

BrInv == BrType /\ Keyed /\ CursorApart /\ (walk.pc = "idle" => seen = <<>>) /\ WalkComplete
=============================================================================
