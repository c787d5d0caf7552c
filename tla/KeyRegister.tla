----------------------------- MODULE KeyRegister -----------------------------
(***************************************************************************)
(* What registering a client promises to the mesh: a write-once register   *)
(* of keys.  A client is registered with one key, for good, a key belongs  *)
(* to one client, and the nodes only ever load what is registered, and     *)
(* never something else in its place.                                      *)
(***************************************************************************)
CONSTANTS Clients, Keys

VARIABLES
    registered,   \* pairs of a client and the key that a browser was told it has
    loaded        \* those the running nodes know

vars == <<registered, loaded>>

Init == registered = {} /\ loaded = {}

Register(c, k) ==
    /\ \A r \in registered : r[1] # c /\ r[2] # k
    /\ registered' = registered \cup {<<c, k>>}
    /\ UNCHANGED loaded

\* A restart of the nodes, which may find many new keys at once.
Load ==
    /\ \E new \in SUBSET registered : loaded' = loaded \cup new
    /\ UNCHANGED registered

Next == (\E c \in Clients, k \in Keys : Register(c, k)) \/ Load

Spec == Init /\ [][Next]_vars
=============================================================================
