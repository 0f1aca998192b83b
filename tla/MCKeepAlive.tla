---------------------------- MODULE MCKeepAlive ----------------------------
(***************************************************************************)
(* TLC instances of KeepAlive: see the cfg files.  A history variable       *)
(* counts the restarts of every registration apart from the watcher's own   *)
(* list of crashes, which it is to be compared with.                        *)
(***************************************************************************)
EXTENDS KeepAlive, TLC

VARIABLE begun   \* history: the restarts a registration has begun in the last 60 s

Symmetry ==
    Permutations(Pids) \cup Permutations(Clients)
        \cup Permutations(Monitors) \cup Permutations(Entries)

\* The monitors of e that go from a confirmed crash to service.start.
Restarters(e) ==
    {m \in Monitors : mon[m].entry = e /\ mon[m].pc = "confirm" /\ mon'[m].pc = "starting"}

HInit == KInit /\ begun = [e \in Entries |-> 0]
HNext ==
    /\ KNext
    /\ begun' = [e \in Entries |->
                   IF WindowSlides /\ window'[e] # window[e] /\ Head(window[e]) = "restart"
                   THEN begun[e] - 1
                   ELSE IF entry' = e /\ entry # e THEN 0
                   ELSE begun[e] + Cardinality(Restarters(e))]

HSpec == HInit /\ [][HNext]_<<allVars, begun>>
HFairSpec == HSpec /\ KFairness

\* Within 60 s a registration restarts its instance fewer than Limit times,
\* however many monitors run for it and however often it is registered again
\* meanwhile: all of them count into one list (no restart storm).
NoStorm == \A e \in Entries : begun[e] < Limit
=============================================================================
