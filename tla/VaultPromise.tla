---------------------------- MODULE VaultPromise ----------------------------
(***************************************************************************)
(* What the session vault of an environment promises, whatever interrupts   *)
(* its writes: one current identity that changes in one step, generations   *)
(* that only rise between two resets, and behind the current one the newest *)
(* generations that were current before it, for a rollback.                 *)
(***************************************************************************)
EXTENDS Naturals, FiniteSets

CONSTANTS
    Identities,  \* cookie sets
    None,        \* no vault file
    Keep         \* generations kept for a rollback

VARIABLES
    now,   \* the current vault
    past   \* the generations one can go back to

vars == <<now, past>>

Newer(r, s) == {x \in s : x.gen > r.gen}

Init == now = None /\ past = {}

\* A new current identity; the old one joins the past.  Generations start
\* again at 1 only when nothing of an earlier life is left.
Save ==
    \E who \in Identities :
        \/ /\ now = None
           /\ past = {}
           /\ now' = [gen |-> 1, who |-> who]
           /\ UNCHANGED past
        \/ /\ now # None
           /\ now' = [gen |-> now.gen + 1, who |-> who]
           /\ past' = past \cup {now}

\* Old generations may go; with the current one, the newest Keep stay.
Forget ==
    /\ now # None
    /\ past' \subseteq past
    /\ \A r \in past : Cardinality(Newer(r, past)) + 1 < Keep => r \in past'
    /\ UNCHANGED now

\* A reset: the identity goes first, its past at once or later.
Wipe ==
    /\ now' = None
    /\ past' \subseteq IF now = None THEN past ELSE past \cup {now}

Next == Save \/ Forget \/ Wipe

Spec == Init /\ [][Next]_vars
=============================================================================
