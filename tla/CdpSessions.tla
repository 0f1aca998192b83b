----------------------------- MODULE CdpSessions -----------------------------
(***************************************************************************)
(* CDP sessions: keys of one instance each, issued over the API, checked by  *)
(* the proxy on every request, ended by their time, by a rotation of the     *)
(* access token or with the process.  The table has one lock, taken anew for *)
(* every look; requests, the sweeper and a rotation meet between two of them.*)
(*                                                                           *)
(* Code: application/cdp_session.rs, api/cdp_proxy.rs, api/instances.rs      *)
(* (create_cdp_session), api/remote_access.rs (rotate_token).                *)
(***************************************************************************)
EXTENDS Naturals, FiniteSets

CONSTANTS
    Instances,
    Sids,      \* session keys: never drawn twice
    Callers,   \* concurrent requests
    None

VARIABLES
    running,   \* the instances that run, by their rows
    session,   \* per key its instance and whether it is in the table, and in time
    request,   \* the requests in flight
    sweep,     \* the round of the sweeper
    audited    \* keys whose end is in the activity log (history)

vars == <<running, session, request, sweep, audited>>

Request == [pc : {"idle", "issue", "validate", "audit", "port", "bridge"},
            ins : Instances \cup {None}, sid : Sids \cup {None}]

TypeOK ==
    /\ running \subseteq Instances
    /\ session \in [Sids -> [ins : Instances \cup {None},
                             life : {"unborn", "valid", "expired", "swept", "cleared"}]]
    /\ request \in [Callers -> Request]
    /\ sweep \in [pc : {"wait", "remove", "audit"}, found : SUBSET Sids]
    /\ audited \subseteq Sids

NoRequest == [pc |-> "idle", ins |-> None, sid |-> None]

Init ==
    /\ running = Instances
    /\ session = [s \in Sids |-> [ins |-> None, life |-> "unborn"]]
    /\ request = [c \in Callers |-> NoRequest]
    /\ sweep = [pc |-> "wait", found |-> {}]
    /\ audited = {}

Expired == {s \in Sids : session[s].life = "expired"}
InTable == {s \in Sids : session[s].life = "valid"} \cup Expired

Goto(c, pc) == request' = [request EXCEPT ![c].pc = pc]
Done(c) == request' = [request EXCEPT ![c] = NoRequest]
Leaves(S, how) ==
    [s \in Sids |-> IF s \in S /\ s \in InTable THEN [session[s] EXCEPT !.life = how] ELSE session[s]]

-----------------------------------------------------------------------------
(* Requests.                                                                 *)

\* create_cdp_session: the instance runs,
BeginIssue(c, i) ==
    /\ request[c].pc = "idle"
    /\ i \in running
    /\ request' = [request EXCEPT ![c] = [pc |-> "issue", ins |-> i, sid |-> None]]
    /\ UNCHANGED <<running, session, sweep, audited>>

\* and, whatever has become of it since, a new key for it.
Issue(c, s) ==
    /\ request[c].pc = "issue"
    /\ session[s].life = "unborn"
    /\ session' = [session EXCEPT ![s] = [ins |-> request[c].ins, life |-> "valid"]]
    /\ Done(c)
    /\ UNCHANGED <<running, sweep, audited>>

BeginProxy(c, i, s) ==
    /\ request[c].pc = "idle"
    /\ request' = [request EXCEPT ![c] = [pc |-> "validate", ins |-> i, sid |-> s]]
    /\ UNCHANGED <<running, session, sweep, audited>>

\* seeded fault: a key that is out of time is dropped and forgotten.
Outdated_Silent(c) == Done(c)
\* What is out of time leaves the table here, and is audited after the lock.
Outdated(c) == Goto(c, "audit")

\* validate: in the table, of this instance, in time.
Validate(c) ==
    LET r == request[c]
        known == r.sid \in InTable /\ session[r.sid].ins = r.ins
    IN
    /\ r.pc = "validate"
    /\ \/ ~known /\ Done(c) /\ UNCHANGED session
       \/ known /\ r.sid \notin Expired /\ Goto(c, "port") /\ UNCHANGED session
       \/ known /\ r.sid \in Expired /\ Outdated(c) /\ session' = Leaves({r.sid}, "swept")
    /\ UNCHANGED <<running, sweep, audited>>

AuditOutdated(c) ==
    /\ request[c].pc = "audit"
    /\ audited' = audited \cup {request[c].sid}
    /\ Done(c)
    /\ UNCHANGED <<running, session, sweep>>

\* require_cdp_port: the instance must run at this moment too.
CheckPort(c) ==
    /\ request[c].pc = "port"
    /\ IF request[c].ins \in running THEN Goto(c, "bridge") ELSE Done(c)
    /\ UNCHANGED <<running, session, sweep, audited>>

\* The response, or the bridge until one of its sides closes; the end of its
\* session does not end it.
BridgeEnds(c) ==
    /\ request[c].pc = "bridge"
    /\ Done(c)
    /\ UNCHANGED <<running, session, sweep, audited>>

\* rotate_token: clear_all.
Rotate ==
    /\ InTable # {}
    /\ session' = Leaves(InTable, "cleared")
    /\ UNCHANGED <<running, request, sweep, audited>>

-----------------------------------------------------------------------------
(* The sweeper: three looks, two of them with the lock.                      *)

SweepFind ==
    /\ sweep.pc = "wait"
    /\ Expired # {}
    /\ sweep' = [pc |-> "remove", found |-> Expired]
    /\ UNCHANGED <<running, session, request, audited>>

SweepRemove ==
    /\ sweep.pc = "remove"
    /\ session' = Leaves(sweep.found, "swept")
    /\ sweep' = [sweep EXCEPT !.pc = "audit"]
    /\ UNCHANGED <<running, request, audited>>

\* It audits all it found, also what others have removed in between.
SweepAudit ==
    /\ sweep.pc = "audit"
    /\ audited' = audited \cup sweep.found
    /\ sweep' = [pc |-> "wait", found |-> {}]
    /\ UNCHANGED <<running, session, request>>

-----------------------------------------------------------------------------
(* Time, and the instances.                                                  *)

Expire(s) ==
    /\ session[s].life = "valid"
    /\ session' = [session EXCEPT ![s].life = "expired"]
    /\ UNCHANGED <<running, request, sweep, audited>>

StopOrStart(i) ==
    /\ running' = IF i \in running THEN running \ {i} ELSE running \cup {i}
    /\ UNCHANGED <<session, request, sweep, audited>>

Next ==
    \/ \E c \in Callers :
          \/ Validate(c) \/ AuditOutdated(c) \/ CheckPort(c) \/ BridgeEnds(c)
          \/ \E i \in Instances : BeginIssue(c, i) \/ \E s \in Sids : BeginProxy(c, i, s)
          \/ \E s \in Sids : Issue(c, s)
    \/ Rotate
    \/ SweepFind \/ SweepRemove \/ SweepAudit
    \/ \E s \in Sids : Expire(s)
    \/ \E i \in Instances : StopOrStart(i)

Spec == Init /\ [][Next]_vars

-----------------------------------------------------------------------------
(* Properties.                                                               *)

\* An expired session that left the table is in the activity log, or in the
\* hands of whoever took it out, the sweeper or the request that ran into it
\* (cdp_session.rs, sweep_once, validate), however the two and a rotation meet;
\* only the rotation may take it silently.
ExpiryIsAudited ==
    \A s \in Sids : session[s].life = "swept" =>
        \/ s \in audited
        \/ sweep.pc = "audit" /\ s \in sweep.found
        \/ \E c \in Callers : request[c].pc = "audit" /\ request[c].sid = s
=============================================================================
