----------------------------- MODULE LayerOrder -----------------------------
(***************************************************************************)
(* What Scheduler.tla takes for granted about one iteration of the workers *)
(* (InferDone): layer by layer, the KV fetched from the host is on the GPU *)
(* before the layer's attention runs, the attention has run before its KV  *)
(* is written through to the host, and all of it has happened when the     *)
(* iteration is over.  LayerSync.tla is shown to implement this.           *)
(***************************************************************************)
EXTENDS Naturals

CONSTANTS
    NumLayers,  \* num_layers of the model
    NumMaps     \* block mappings per direction, one per sequence

Layers == 1..NumLayers
Maps == 1..NumMaps

VARIABLES
    running,            \* is an iteration running?
    fetching, saving,   \* does it fetch from, and write through to, the host?
    fetched,            \* <<l, k>>: mapping k of layer l is on the GPU
    attended,           \* the layers whose attention has run
    saved               \* <<l, k>>: mapping k of layer l is on the host

vars == <<running, fetching, saving, fetched, attended, saved>>

Init ==
    /\ running = FALSE
    /\ fetching = FALSE /\ saving = FALSE
    /\ fetched = {} /\ attended = {} /\ saved = {}

Begin(f, s) ==
    /\ ~running
    /\ running' = TRUE
    /\ fetching' = f /\ saving' = s
    /\ fetched' = {} /\ attended' = {} /\ saved' = {}

Fetch(l, k) ==
    /\ running /\ fetching
    /\ fetched' = fetched \union {<<l, k>>}
    /\ UNCHANGED <<running, fetching, saving, attended, saved>>

Attend(l) ==
    /\ running
    /\ attended = 1..(l - 1)
    /\ fetching => \A k \in Maps : <<l, k>> \in fetched
    /\ attended' = attended \union {l}
    /\ UNCHANGED <<running, fetching, saving, fetched, saved>>

Save(l, k) ==
    /\ running /\ saving
    /\ l \in attended
    /\ saved' = saved \union {<<l, k>>}
    /\ UNCHANGED <<running, fetching, saving, fetched, attended>>

End ==
    /\ running
    /\ attended = Layers
    /\ fetching => fetched = Layers \X Maps
    /\ saving => saved = Layers \X Maps
    /\ running' = FALSE
    /\ UNCHANGED <<fetching, saving, fetched, attended, saved>>

Next ==
    \/ \E f, s \in BOOLEAN : Begin(f, s)
    \/ \E l \in Layers, k \in Maps : Fetch(l, k) \/ Save(l, k)
    \/ \E l \in Layers : Attend(l)
    \/ End

Spec == Init /\ [][Next]_vars
=============================================================================
