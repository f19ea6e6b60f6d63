------------------------------ MODULE Templates ------------------------------
(***************************************************************************)
(* Templates: internal/templatestore (store, catalog, preview) and the     *)
(* handlers of template_http.go, template_preview_http.go and              *)
(* template_apply_http.go, with the functions and commands an apply makes. *)
(* Two templates: a built-in one, owned by the catalogue of the running    *)
(* release, and one of the operator's.  A source is a number; a picture is *)
(* the source it was rendered from (curated fixtures, constants of a       *)
(* release, are left out).  Every statement is a step.  Substitute is in   *)
(* Policies; the parameters of an apply are the value its keys are made of.*)
(***************************************************************************)
EXTENDS Integers, FiniteSets

CONSTANTS Panels,    \* serials
          Viewer,    \* preview requests and the warm-up
          Editor,    \* update, delete and apply requests
          Param,
          MaxSrc,    \* bound on sources ever written
          MaxFn,     \* bound on functions created
          MaxJobs,   \* bound on requests
          MaxAttempts

\* 0 stands for no parameters, in a function that was never made.
ASSUME TplAssumption == MaxFn \in Nat /\ 0 \notin Param

Tpl == {"builtin", "own"}
FnId == 1..MaxFn
NoTpl == [live |-> FALSE, src |-> 0, ver |-> 0]
NoFunction == [live |-> FALSE, base |-> 0, num |-> 0, on |-> FALSE]
Watching == [pc |-> "idle", t |-> "own", src |-> 0, ver |-> 0]
Resting == [pc |-> "idle", kind |-> "none", t |-> "own", src |-> 0, p |-> 0, num |-> 0,
            id |-> 0, todo |-> {}]

VARIABLES
  tmpl,      \* Tpl -> row
  catalog,   \* source of the built-in one in the running release
  sources,   \* sources ever written
  preview,   \* template_preview: <<t, ver, src>>
  viewer, sem,
  editor,
  faas,      \* FnId -> function made by an apply: base name, suffix, enabled
  toPanel,   \* Panels -> bound function (0: none)
  queue,     \* pending commands <<serial, template, params, seq>>
  seqs, jobs,
  served,    \* history: <<t, ver, src>> sent with the ETag of t and ver
  released   \* history: sources a release shipped

tplVars == <<tmpl, catalog, sources, preview, viewer, sem, editor, faas, toPanel, queue,
             seqs, jobs, served, released>>
viewVars == <<preview, viewer, sem, served>>
madeVars == <<faas, toPanel, queue, seqs>>

TplInit ==
  /\ tmpl = [t \in Tpl |-> NoTpl] /\ catalog = 1 /\ sources = 1 /\ released = {1}
  /\ preview = {} /\ viewer = [v \in Viewer |-> Watching] /\ sem = 0 /\ served = {}
  /\ editor = [e \in Editor |-> Resting]
  /\ faas = [f \in FnId |-> NoFunction] /\ toPanel = [d \in Panels |-> 0]
  /\ queue = {} /\ seqs = 0 /\ jobs = 0

NewJob == jobs < MaxJobs /\ jobs' = jobs + 1
Rest(e) == editor' = [editor EXCEPT ![e] = Resting]

-----------------------------------------------------------------------------
(* The rows. *)

(* A release with a changed built-in; it seeds when it starts. *)
Release ==
  /\ sources < MaxSrc /\ NewJob
  /\ catalog' = sources + 1 /\ sources' = sources + 1 /\ released' = released \cup {sources + 1}
  /\ UNCHANGED <<tmpl, viewVars, editor, madeVars>>

(* SeedBuiltins: one transaction under an advisory lock; a row that is     *)
(* equal already keeps its version.                                        *)
SeedBuiltins ==
  /\ tmpl["builtin"].src # catalog
  /\ tmpl' = [tmpl EXCEPT !["builtin"] = [live |-> TRUE, src |-> catalog, ver |-> @.ver + 1]]
  /\ UNCHANGED <<catalog, sources, released, viewVars, editor, madeVars, jobs>>

(* create: the reserved namespace is refused, a name is taken once. *)
CreateTemplate == ~tmpl["own"].live /\ tmpl["own"].ver = 0
                  /\ tmpl' = [tmpl EXCEPT !["own"] = [live |-> TRUE, src |-> sources + 1, ver |-> 1]]
PostTemplate ==
  /\ NewJob /\ sources < MaxSrc /\ CreateTemplate /\ sources' = sources + 1
  /\ UNCHANGED <<catalog, released, viewVars, editor, madeVars>>

(* Mutant of LoadMutable: built-in templates pass. *)
LoadMutableAny(e, t, kind) ==
  /\ NewJob /\ editor[e].pc = "idle" /\ tmpl[t].live
  /\ editor' = [editor EXCEPT ![e] = [Resting EXCEPT !.pc = kind, !.t = t]]
  /\ UNCHANGED <<tmpl, catalog, sources, released, viewVars, madeVars>>

(* loadMutable: 404, 409 for a built-in one, or on to the statement. *)
LoadMutable(e, t, kind) ==
  /\ NewJob /\ editor[e].pc = "idle" /\ tmpl[t].live /\ t # "builtin"
  /\ editor' = [editor EXCEPT ![e] = [Resting EXCEPT !.pc = kind, !.t = t]]
  /\ UNCHANGED <<tmpl, catalog, sources, released, viewVars, madeVars>>

(* Mutant of Update: the version stays. *)
UpdateSameVersion(t) ==
  tmpl' = [tmpl EXCEPT ![t].src = IF tmpl[t].live THEN sources + 1 ELSE @]

(* templatestore.Update: by id, so it finds no row after a delete. *)
Update(t) ==
  tmpl' = [tmpl EXCEPT ![t].src = IF tmpl[t].live THEN sources + 1 ELSE @,
                       ![t].ver = IF tmpl[t].live THEN @ + 1 ELSE @]
PutTemplate(e) ==
  /\ editor[e].pc = "update" /\ sources < MaxSrc
  /\ Update(editor[e].t) /\ sources' = sources + 1 /\ Rest(e)
  /\ UNCHANGED <<catalog, released, viewVars, madeVars, jobs>>

(* templatestore.Delete; the previews go with the row. *)
DeleteTemplate(t) == /\ tmpl' = [tmpl EXCEPT ![t].live = FALSE]
                     /\ preview' = {x \in preview : x[1] # t}
DropTemplate(e) ==
  /\ editor[e].pc = "delete" /\ DeleteTemplate(editor[e].t) /\ Rest(e)
  /\ UNCHANGED <<catalog, sources, released, viewer, sem, served, madeVars, jobs>>

-----------------------------------------------------------------------------
(* Previews: the row is read once; its version names the picture.          *)

(* preview, and warmup for the built-in ones. *)
LoadTemplate(v, t) ==
  /\ NewJob /\ viewer[v].pc = "idle" /\ tmpl[t].live
  /\ viewer' = [viewer EXCEPT ![v] = [pc |-> "cache", t |-> t, src |-> tmpl[t].src, ver |-> tmpl[t].ver]]
  /\ UNCHANGED <<tmpl, catalog, sources, released, preview, sem, served, editor, madeVars>>

(* LoadPreview: a hit is sent as it is. *)
LoadPreview(v) ==
  /\ viewer[v].pc = "cache"
  /\ LET hit == {x \in preview : x[1] = viewer[v].t /\ x[2] = viewer[v].ver} IN
     IF hit # {} THEN served' = served \cup hit /\ viewer' = [viewer EXCEPT ![v] = Watching]
                 ELSE UNCHANGED served /\ viewer' = [viewer EXCEPT ![v].pc = "slot"]
  /\ UNCHANGED <<tmpl, catalog, sources, released, preview, sem, editor, madeVars, jobs>>

(* produce: one render at a time. *)
Produce(v) ==
  /\ viewer[v].pc = "slot" /\ sem = 0 /\ sem' = 1
  /\ viewer' = [viewer EXCEPT ![v].pc = "render"]
  /\ UNCHANGED <<tmpl, catalog, sources, released, preview, served, editor, madeVars, jobs>>

(* Mutant of Rendered: an error returns before the slot is given back. *)
RenderedLeaks(v, ok) ==
  /\ viewer[v].pc = "render" /\ sem' = IF ok THEN 0 ELSE 1
  /\ viewer' = [viewer EXCEPT ![v] = IF ok THEN [@ EXCEPT !.pc = "store"] ELSE Watching]
  /\ UNCHANGED <<tmpl, catalog, sources, released, preview, served, editor, madeVars, jobs>>

(* The deferred release; an error is 404 or 502. *)
Rendered(v, ok) ==
  /\ viewer[v].pc = "render" /\ sem' = 0
  /\ viewer' = [viewer EXCEPT ![v] = IF ok THEN [@ EXCEPT !.pc = "store"] ELSE Watching]
  /\ UNCHANGED <<tmpl, catalog, sources, released, preview, served, editor, madeVars, jobs>>

(* StorePreview, its failure only logged (a deleted template's is one);    *)
(* the picture is sent either way.                                         *)
StorePreview(v, ok) ==
  /\ viewer[v].pc = "store" /\ (ok => tmpl[viewer[v].t].live)
  /\ LET pic == <<viewer[v].t, viewer[v].ver, viewer[v].src>> IN
     /\ preview' = IF ok THEN {x \in preview : x[1] # pic[1] \/ x[2] # pic[2]} \cup {pic}
                   ELSE preview
     /\ served' = served \cup {pic}
  /\ viewer' = [viewer EXCEPT ![v] = Watching]
  /\ UNCHANGED <<tmpl, catalog, sources, released, sem, editor, madeVars, jobs>>

-----------------------------------------------------------------------------
(* Applying a template. *)

(* apply: Load, Substitute and the checks. *)
Apply(e, t, kind, p, T) ==
  /\ NewJob /\ editor[e].pc = "idle" /\ tmpl[t].live /\ (kind = "berry" => T # {})
  /\ editor' = [editor EXCEPT ![e] =
       [Resting EXCEPT !.pc = IF kind = "berry" THEN "enqueue" ELSE "create", !.kind = kind,
                       !.t = t, !.src = tmpl[t].src, !.p = p, !.num = 1, !.todo = T]]
  /\ UNCHANGED <<tmpl, catalog, sources, released, viewVars, madeVars>>

Taken(p, n) == \E f \in FnId : faas[f].live /\ faas[f].base = p /\ faas[f].num = n
(* createRenderFn: a derived name tries the next suffix, an explicit one   *)
(* and the last attempt are 409.                                           *)
CreateRenderFn(e, explicit) ==
  /\ editor[e].pc = "create"
  /\ LET n == editor[e].num
         p == editor[e].p
         free == {f \in FnId : ~faas[f].live /\ faas[f].base = 0} IN
     IF ~Taken(p, n)
     THEN \E f \in free :
             /\ \A h \in free : f <= h
             /\ faas' = [faas EXCEPT ![f] = [live |-> TRUE, base |-> p, num |-> n, on |-> FALSE]]
             /\ editor' = [editor EXCEPT ![e].pc = "bind", ![e].id = f]
     ELSE /\ UNCHANGED faas
          /\ editor' = [editor EXCEPT ![e] = IF explicit \/ n >= MaxAttempts THEN Resting
                                             ELSE [@ EXCEPT !.num = n + 1]]
  /\ UNCHANGED <<tmpl, catalog, sources, released, viewVars, toPanel, queue, seqs, jobs>>

(* The binds of applyRenderFn, one by one; 500 at the first that fails, as *)
(* all do once the function is deleted.                                    *)
BindEach(e, d, fails) ==
  /\ editor[e].pc = "bind" /\ d \in editor[e].todo
  /\ (~faas[editor[e].id].live => fails)
  /\ toPanel' = IF fails THEN toPanel ELSE [toPanel EXCEPT ![d] = editor[e].id]
  /\ editor' = [editor EXCEPT ![e] = IF fails THEN Resting
                                     ELSE [@ EXCEPT !.todo = editor[e].todo \ {d}]]
  /\ UNCHANGED <<tmpl, catalog, sources, released, viewVars, faas, queue, seqs, jobs>>

(* Mutant of ApplyEnable: the function is enabled before it is bound. *)
ApplyEnableEarly(e, enable) ==
  /\ editor[e].pc = "bind"
  /\ faas' = [faas EXCEPT ![editor[e].id].on = enable /\ faas[editor[e].id].live]
  /\ (IF editor[e].todo = {} THEN Rest(e) ELSE UNCHANGED editor)
  /\ UNCHANGED <<tmpl, catalog, sources, released, viewVars, toPanel, queue, seqs, jobs>>

(* Last, SetEnabled, if asked for; 200. *)
ApplyEnable(e, enable) ==
  /\ editor[e].pc = "bind" /\ editor[e].todo = {}
  /\ faas' = [faas EXCEPT ![editor[e].id].on = enable /\ faas[editor[e].id].live]
  /\ Rest(e)
  /\ UNCHANGED <<tmpl, catalog, sources, released, viewVars, toPanel, queue, seqs, jobs>>

DropFunction(f) ==
  /\ NewJob /\ faas[f].live
  /\ faas' = [faas EXCEPT ![f].live = FALSE, ![f].on = FALSE]
  /\ toPanel' = [d \in Panels |-> IF toPanel[d] = f THEN 0 ELSE toPanel[d]]
  /\ UNCHANGED <<tmpl, catalog, sources, released, viewVars, editor, queue, seqs>>

(* Mutant of DeriveIdempotencyKey: the request makes the key its own. *)
DeriveIdempotencyKeyPerCall(e) == <<editor[e].t, e>>

(* deriveIdempotencyKey: the template's id and its parameters. *)
DeriveIdempotencyKey(e) == <<editor[e].t, editor[e].p>>

(* applyBerry: Enqueue per serial - a pending row with the key stands for  *)
(* the new one - and 422 or 500 at the first that fails.                   *)
ApplyBerry(e, d, fails) ==
  /\ editor[e].pc = "enqueue" /\ d \in editor[e].todo
  /\ LET k == DeriveIdempotencyKey(e)
         dup == \E q \in queue : q.serial = d /\ q.key = k IN
     IF fails \/ dup THEN UNCHANGED <<queue, seqs>>
     ELSE /\ queue' = queue \cup {[serial |-> d, key |-> k, tp |-> editor[e].t, p |-> editor[e].p,
                                   seq |-> seqs + 1]}
          /\ seqs' = seqs + 1
  /\ editor' = [editor EXCEPT ![e] = IF fails \/ editor[e].todo = {d} THEN Resting
                                     ELSE [@ EXCEPT !.todo = editor[e].todo \ {d}]]
  /\ UNCHANGED <<tmpl, catalog, sources, released, viewVars, faas, toPanel, jobs>>

Acked(q) ==
  /\ q \in queue /\ queue' = queue \ {q}
  /\ UNCHANGED <<tmpl, catalog, sources, released, viewVars, editor, faas, toPanel, seqs, jobs>>

EditorStep(e) ==
  \/ PutTemplate(e) \/ DropTemplate(e)
  \/ \E x \in BOOLEAN : CreateRenderFn(e, x) \/ ApplyEnable(e, x)
  \/ \E d \in Panels, x \in BOOLEAN : BindEach(e, d, x) \/ ApplyBerry(e, d, x)

TplNext ==
  \/ Release \/ SeedBuiltins \/ PostTemplate
  \/ \E e \in Editor, t \in Tpl :
       \/ \E k \in {"update", "delete"} : LoadMutable(e, t, k)
       \/ \E k \in {"berry", "render"}, p \in Param, T \in SUBSET Panels : Apply(e, t, k, p, T)
  \/ \E v \in Viewer : \/ \E t \in Tpl : LoadTemplate(v, t)
                       \/ LoadPreview(v) \/ Produce(v)
                       \/ \E ok \in BOOLEAN : Rendered(v, ok) \/ StorePreview(v, ok)
  \/ \E e \in Editor : EditorStep(e)
  \/ \E f \in FnId : DropFunction(f)
  \/ \E q \in queue : Acked(q)

TplSpec == TplInit /\ [][TplNext]_tplVars

-----------------------------------------------------------------------------
(* A preview is sent as immutable under an ETag of id and version: no two  *)
(* pictures are ever sent under one, however renders, edits and failed     *)
(* cache writes interleave.                                                *)
PreviewImmutable == \A a, b \in served : a[1] = b[1] /\ a[2] = b[2] => a[3] = b[3]

(* The one preview slot is held exactly while a render runs: no path leaks *)
(* it, and previews never take a second worker slot.                       *)
OneSlot == sem = Cardinality({v \in Viewer : viewer[v].pc = "render"})

(* A built-in template only ever holds what a release shipped, whatever    *)
(* updates were under way.                                                 *)
BuiltinIsShipped == tmpl["builtin"].live => tmpl["builtin"].src \in released

(* An apply that is not finished, or failed on the way, leaves no enabled  *)
(* function: a half-bound one renders nothing.                             *)
EnabledLast ==
  \A f \in FnId : faas[f].on => \A e \in Editor : editor[e].pc = "bind" => editor[e].id # f

(* However often the same apply is sent, a serial has one pending command  *)
(* for it.                                                                 *)
OnePending ==
  \A a, b \in queue : a.serial = b.serial /\ a.tp = b.tp /\ a.p = b.p => a = b

\* Previews are what their ETag says, built-ins what was shipped, and an apply,
\* repeated or failed half-way, leaves one complete effect or none.
TemplatesSound ==
  /\ PreviewImmutable /\ OneSlot /\ BuiltinIsShipped /\ EnabledLast
  /\ OnePending

-----------------------------------------------------------------------------
(* The inductive invariant. *)

Picture == Tpl \X Nat \X Nat
Seen == [pc : {"idle", "cache", "slot", "render", "store"}, t : Tpl, src : Nat, ver : Nat]
EditState == [pc : {"idle", "update", "delete", "enqueue", "create", "bind"},
              kind : {"none", "berry", "render"}, t : Tpl, src : Nat, p : Param \cup {0}, num : Nat,
              id : 0..MaxFn, todo : SUBSET Panels]

TplType ==
  /\ tmpl \in [Tpl -> [live : BOOLEAN, src : Nat, ver : Nat]]
  /\ catalog \in Nat /\ sources \in Nat /\ seqs \in Nat
  /\ preview \in SUBSET Picture /\ served \in SUBSET Picture
  /\ viewer \in [Viewer -> Seen] /\ sem \in {0, 1}
  /\ editor \in [Editor -> EditState]
  /\ faas \in [FnId -> [live : BOOLEAN, base : Param \cup {0}, num : Nat, on : BOOLEAN]]
  /\ queue \in SUBSET [serial : Panels, key : Tpl \X (Param \cup {0}), tp : Tpl,
                       p : Param \cup {0}, seq : Nat]

(* What is stored, was sent or is being made. *)
InHandOf(v) == <<viewer[v].t, viewer[v].ver, viewer[v].src>>
Shots == preview \cup served \cup {InHandOf(v) : v \in {w \in Viewer : viewer[w].pc # "idle"}}

(* A version has one source, and the row's version is the latest. *)
VersionIsSource ==
  /\ \A a, b \in Shots : a[1] = b[1] /\ a[2] = b[2] => a[3] = b[3]
  /\ \A a \in Shots : /\ a[2] <= tmpl[a[1]].ver
                      /\ a[2] = tmpl[a[1]].ver => a[3] = tmpl[a[1]].src

SlotHeld ==
  /\ \A v, w \in Viewer : viewer[v].pc = "render" /\ viewer[w].pc = "render" => v = w
  /\ sem = 1 <=> \E v \in Viewer : viewer[v].pc = "render"

(* An edit under way is of a template that may be edited. *)
EditsOwn == \A e \in Editor : editor[e].pc \in {"update", "delete"} => editor[e].t # "builtin"

(* Two applies never work on one function, and a function once made is     *)
(* never made again.                                                       *)
BoundApart ==
  \A e \in Editor : editor[e].pc = "bind" =>
    /\ editor[e].id \in FnId /\ faas[editor[e].id].base # 0
    /\ \A g \in Editor \ {e} : editor[g].pc = "bind" => editor[g].id # editor[e].id

KeyTells == \A q \in queue : q.key = <<q.tp, q.p>>

AppliesInParam == \A e \in Editor : editor[e].pc = "create" => editor[e].p # 0

TplInv ==
  /\ TplType /\ VersionIsSource /\ SlotHeld /\ catalog \in released /\ BuiltinIsShipped
  /\ EditsOwn /\ AppliesInParam /\ BoundApart /\ EnabledLast /\ KeyTells /\ OnePending
=============================================================================
