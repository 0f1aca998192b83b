--------------------------- MODULE Services_proofs ---------------------------
(***************************************************************************)
(* What lies around the browsers, for every value of the constants: the     *)
(* tunnel is one, what meta.json vouches for is whole, and the commands of  *)
(* the command line tell the truth.  A theorem about MCSpec is about the    *)
(* behaviours MCServices checks, in which each module moves as by itself or *)
(* rests.                                                                   *)
(***************************************************************************)
EXTENDS MCServices, FiniteSetTheorems, TLAPS

-----------------------------------------------------------------------------
(* The tunnel.                                                              *)

\* Clean is the only way to a spawn, and leaves alive only what it missed, which is
\* neither registered nor the child; while another one is alive nothing else comes into
\* being.
OneAlive ==
    /\ \A p, q \in Alive : ~procs[p].missed /\ ~procs[q].missed => p = q
    /\ \A p \in Alive : procs[p].missed => p # pipe /\ p # sup.child
    /\ sup.pc = "spawn" => \A p \in Alive : procs[p].missed

TunnelInv == TypeOK /\ OneAlive

LEMMA InitTunnel == Init => TunnelInv
<1> SUFFICES ASSUME Init PROVE TunnelInv
  OBVIOUS
<1>1. TypeOK
  BY TunnelAssumption
  DEF Init, TypeOK, Config, Put, NoPut, Sup, SupPc, NoSup, NoExit, Untold, Proc, NoProc
<1>2. Alive = {} BY DEF Init, Alive, NoProc
<1> QED BY <1>1, <1>2 DEF TunnelInv, OneAlive

\* Whoever dies leaves fewer alive.
LEMMA KillingKeepsType ==
    ASSUME TypeOK, NEW P
    PROVE  /\ Killed(P) \in [Procs -> Proc]
           /\ {p \in Procs : Killed(P)[p].life = "alive"} = Alive \ P
           /\ \A p \in Alive \ P : Killed(P)[p] = procs[p]
  BY DEF TypeOK, Killed, Alive, Proc, NoProc

\* What spawns and clears nothing away keeps it.
LEMMA NobodyBornKeeps ==
    ASSUME TypeOK, OneAlive,
           Alive' \subseteq Alive, \A p \in Alive' : procs'[p].missed = procs[p].missed,
           pipe' \in {pipe, None, sup.child}, sup'.child \in {sup.child, None},
           sup'.pc = "spawn" => sup.pc = "spawn"
    PROVE  OneAlive'
<1>1. \A p \in Alive : p # None BY TunnelAssumption DEF Alive, Procs
<1> QED BY <1>1 DEF OneAlive

\* A request as it is asked.
LEMMA FieldsAreSet ==
    ASSUME NEW SA, NEW SB, NEW SC, NEW SD,
           NEW r \in [pc : SA, enabled : SB, target : SC, view : SD],
           NEW a \in SA, NEW b \in SB, NEW c \in SC
    PROVE  [r EXCEPT !.pc = a, !.enabled = b, !.target = c] \in
               [pc : SA, enabled : SB, target : SC, view : SD]
  OBVIOUS

LEMMA AskingKeepsPuts ==
    ASSUME TypeOK, NEW c \in Callers, NEW e \in BOOLEAN \cup {None},
           NEW t \in Targets \cup {None, "empty"}, PutCheck(c, e, t)
    PROVE  put' \in [Callers -> Put]
<1> DEFINE r == [put[c] EXCEPT !.pc = "target", !.enabled = e, !.target = t]
<1>1. put \in [Callers -> Put] BY DEF TypeOK
<1>2. put[c] \in Put BY <1>1
<1>3. "target" \in {"idle", "target", "enabled", "view", "viewTarget", "apply", "notify"} OBVIOUS
<1>4. r \in Put
  <2> HIDE DEF r
  <2>1. \A q : q \in Put => [q EXCEPT !.pc = "target", !.enabled = e, !.target = t] \in Put
    BY <1>3, FieldsAreSet DEF Put
  <2> QED BY <1>2, <2>1 DEF r
<1>5. put' = [put EXCEPT ![c] = r] BY DEF PutCheck
<1> QED BY <1>1, <1>4, <1>5

LEMMA PutsKeep ==
    ASSUME TunnelInv, NEW c \in Callers,
           \/ \E e \in BOOLEAN \cup {None}, t \in Targets \cup {None, "empty"} : PutCheck(c, e, t)
           \/ PutStep(c) \/ PutFails(c)
    PROVE  TunnelInv'
<1> USE DEF TunnelInv
<1>1. TypeOK'
  <2> USE TunnelAssumption DEF TypeOK, Put, Config
  <2>1. ASSUME NEW e \in BOOLEAN \cup {None}, NEW t \in Targets \cup {None, "empty"}, PutCheck(c, e, t)
        PROVE  TypeOK'
    <3>3. put' \in [Callers -> Put] BY <2>1, AskingKeepsPuts
    <3>4. budget' \in Nat
      <4>1. budget \in Nat /\ budget > 0 /\ budget' = budget - 1 BY <2>1 DEF PutCheck
      <4> QED BY <4>1
    <3> QED BY <2>1, <3>3, <3>4 DEF PutCheck, supervisor
  <2>2. CASE PutTarget(c)
    <3> DEFINE r == [put[c] EXCEPT !.pc = "enabled", !.target = None]
    <3>0. r \in Put /\ put' = [put EXCEPT ![c] = r] BY <2>2 DEF PutTarget
    <3>1. put' \in [Callers -> Put] BY <3>0
    <3> HIDE DEF r
    <3> QED BY <2>2, <3>1 DEF PutTarget, supervisor, world
  <2>3. CASE PutEnabled(c)
    <3> DEFINE r == [put[c] EXCEPT !.pc = "view", !.enabled = None]
    <3>0. r \in Put /\ put' = [put EXCEPT ![c] = r] BY <2>3 DEF PutEnabled
    <3>1. put' \in [Callers -> Put] BY <3>0
    <3> HIDE DEF r
    <3> QED BY <2>3, <3>1 DEF PutEnabled, supervisor, world
  <2>4. CASE PutView(c)
    <3> DEFINE r == [put[c] EXCEPT !.pc = "viewTarget", !.view.enabled = saved.enabled]
    <3>0. r \in Put /\ put' = [put EXCEPT ![c] = r] BY <2>4 DEF PutView
    <3>1. put' \in [Callers -> Put] BY <3>0
    <3> HIDE DEF r
    <3> QED BY <2>4, <3>1 DEF PutView, supervisor, world
  <2>7. CASE PutViewTarget(c)
    <3> DEFINE r == [put[c] EXCEPT !.pc = "apply", !.view.target = saved.target]
    <3>0. r \in Put /\ put' = [put EXCEPT ![c] = r] BY <2>7 DEF PutViewTarget
    <3>1. put' \in [Callers -> Put] BY <3>0
    <3> HIDE DEF r
    <3> QED BY <2>7, <3>1 DEF PutViewTarget, supervisor, world
  <2>8. CASE PutFails(c)
    <3>1. put' \in [Callers -> Put] BY <2>8 DEF PutFails, NoPut
    <3> QED BY <2>8, <3>1 DEF PutFails, supervisor
  <2>5. CASE PutApply(c)
    <3>1. put[c].view \in Config BY <2>5
    <3>2. put' \in [Callers -> Put] BY <2>5 DEF PutApply, NoPut
    <3>3. sup' \in Sup BY <2>5 DEF PutApply, Launched, NoSup, Sup, SupPc
    <3>4. desired' \in [enabled : BOOLEAN, target : Targets \cup {None}, gen : Nat]
      BY <2>5, <3>1 DEF PutApply, Told
    <3>5. begun' \in BOOLEAN BY <2>5, <3>1 DEF PutApply
    <3> QED BY <2>5, <3>2, <3>3, <3>4, <3>5 DEF PutApply, world
  <2>6. CASE PutNotify(c)
    BY <2>6 DEF PutNotify, NoPut, supervisor, world
  <2> QED BY <2>1, <2>2, <2>3, <2>4, <2>5, <2>6, <2>7, <2>8 DEF PutStep
<1>2. procs' = procs /\ pipe' = pipe /\ (sup' = sup \/ sup' = [NoSup EXCEPT !.pc = "top"])
  BY DEF PutCheck, PutStep, PutFails, PutTarget, PutEnabled, PutView, PutViewTarget, PutApply,
         PutNotify, Launched, supervisor, world
<1>3. OneAlive' BY <1>2, NobodyBornKeeps DEF Alive, NoSup
<1> QED BY <1>1, <1>3

\* The steps of the supervisor that neither end nor begin a process.
LEMMA QuietStepsKeep ==
    ASSUME TunnelInv,
           \/ Top \/ Unpark \/ Register \/ Connecting \/ TickWoken \/ TickConnected \/ TickExited
           \/ TickUnknown \/ Failed \/ Selfhealed \/ Backoff
    PROVE  TunnelInv'
<1> USE DEF TunnelInv
<1>1. TypeOK'
  <2>1. sup' \in Sup
    <3>1. \A pc \in SupPc : [sup EXCEPT !.pc = pc] \in Sup
      BY DEF TypeOK, Sup
    <3>2. CASE Top \/ Unpark \/ TickWoken \/ TickConnected \/ Failed \/ Selfhealed
      BY <3>1, <3>2 DEF Top, Unpark, TickWoken, TickConnected, Failed, Selfhealed, SupGoto, SupPc
    <3>3. CASE Register \/ Connecting \/ TickExited \/ TickUnknown \/ Backoff
      <4> USE DEF TypeOK, Sup, SupPc
      <4>1. CASE Register BY <4>1 DEF Register
      <4>2. CASE Connecting BY <4>2 DEF Connecting
      <4>3. CASE TickExited \/ TickUnknown BY <4>3 DEF TickExited, TickUnknown, ChildIsLost
      <4>4. CASE Backoff BY <4>4 DEF Backoff
      <4> QED BY <3>3, <4>1, <4>2, <4>3, <4>4
    <3> QED BY <3>2, <3>3
  <2>2. {group', pipe'} \subseteq Procs \cup {None}
    <3>1. sup.child \in Procs \cup {None} BY DEF TypeOK, Sup
    <3>2. UNCHANGED <<group, pipe>> \/ Unregister \/ (group' = sup.child /\ pipe' = sup.child)
      BY DEF Top, Unpark, Register, Connecting, TickWoken, TickConnected, TickExited, TickUnknown,
             ChildIsLost, Failed, Selfhealed, Backoff
    <3> QED BY <3>1, <3>2 DEF Unregister, TypeOK
  <2>3. /\ {permit', begun', stop'} \subseteq BOOLEAN
        /\ state' \in {"disabled", "connecting", "connected", "reconnecting"}
    BY DEF Top, Unpark, Register, Connecting, TickWoken, TickConnected, TickExited, TickUnknown,
           ChildIsLost, Failed, Selfhealed, Backoff, TypeOK
  <2>4. UNCHANGED <<saved, put, desired, exit, app, procs, alone, budget>>
    BY DEF Top, Unpark, Register, Connecting, TickWoken, TickConnected, TickExited, TickUnknown,
           ChildIsLost, Failed, Selfhealed, Backoff, world
  <2> QED BY <2>1, <2>2, <2>3, <2>4 DEF TypeOK
<1>2. procs' = procs /\ pipe' \in {pipe, None, sup.child}
  BY DEF Top, Unpark, Register, Connecting, TickWoken, TickConnected, TickExited, TickUnknown,
         ChildIsLost, Failed, Selfhealed, Backoff, Unregister, world
<1>3. sup'.pc # "spawn" /\ sup'.child \in {sup.child, None}
  BY DEF Top, Unpark, Register, Connecting, TickWoken, TickConnected, TickExited, TickUnknown,
         ChildIsLost, Failed, Selfhealed, Backoff, SupGoto, TypeOK, Sup
<1>4. OneAlive' BY <1>2, <1>3, NobodyBornKeeps DEF Alive
<1> QED BY <1>1, <1>4

\* Those that may end one.
LEMMA EndingStepsKeep ==
    ASSUME TunnelInv, Evaluate \/ SupEnds
    PROVE  TunnelInv'
<1> USE DEF TunnelInv
<1>1. \E P : procs' = procs \/ procs' = Killed(P)
  BY DEF Evaluate, SupEnds, Terminate
<1>2. /\ procs' \in [Procs -> Proc]
      /\ Alive' \subseteq Alive /\ \A p \in Alive' : procs'[p] = procs[p]
  BY <1>1, KillingKeepsType DEF TypeOK, Alive
<1>3. TypeOK'
  <2>1. sup' \in Sup
    <3> USE DEF TypeOK, Sup, SupPc, Config
    <3>1. CASE Evaluate /\ desired.enabled
      <4> DEFINE w == [enabled |-> TRUE, target |-> desired.target]
      <4>1. w \in Config OBVIOUS
      <4>2. \A pc \in {"clean", "tick"} :
               [sup EXCEPT !.want = w, !.gen = desired.gen, !.pc = pc] \in Sup
        BY <4>1
      <4>3. \E pc \in {"clean", "tick"} :
               sup' = [sup EXCEPT !.want = w, !.gen = desired.gen, !.pc = pc]
        BY <3>1 DEF Evaluate
      <4> QED BY <4>2, <4>3
    <3>2. CASE Evaluate /\ ~desired.enabled
      <4> DEFINE w == [enabled |-> FALSE, target |-> desired.target]
      <4>1. w \in Config OBVIOUS
      <4>2. [sup EXCEPT !.pc = "parked", !.child = None, !.gen = desired.gen, !.want = w] \in Sup
        BY <4>1
      <4> QED BY <3>2, <4>2 DEF Evaluate
    <3>3. CASE SupEnds BY <3>3 DEF SupEnds, NoSup
    <3> QED BY <3>1, <3>2, <3>3
  <2>2. {group', pipe'} \subseteq Procs \cup {None}
    BY DEF Evaluate, SupEnds, Terminate, Unregister, TypeOK
  <2>3. /\ state' \in {"disabled", "connecting", "connected", "reconnecting"}
        /\ UNCHANGED <<saved, put, desired, permit, begun, stop, exit, app, alone, budget>>
    BY DEF Evaluate, SupEnds, TypeOK
  <2> QED BY <1>2, <2>1, <2>2, <2>3 DEF TypeOK
<1>4. sup'.pc # "spawn" /\ sup'.child \in {sup.child, None} /\ pipe' \in {pipe, None}
  <2>1. ASSUME Evaluate PROVE sup'.pc \in {"clean", "tick", "parked"}
    BY <2>1 DEF Evaluate, TypeOK, Sup
  <2>2. ASSUME SupEnds PROVE sup'.pc = "none"
    BY <2>2 DEF SupEnds, NoSup
  <2>3. pipe' \in {pipe, None}
    BY DEF Evaluate, SupEnds, Terminate, Unregister
  <2>4. ASSUME Evaluate PROVE sup'.child \in {sup.child, None}
    BY <2>4 DEF Evaluate, TypeOK, Sup
  <2>5. ASSUME SupEnds PROVE sup'.child \in {sup.child, None}
    BY <2>5 DEF SupEnds, NoSup
  <2> QED BY <2>1, <2>2, <2>3, <2>4, <2>5
<1>5. OneAlive' BY <1>2, <1>4, NobodyBornKeeps
<1> QED BY <1>3, <1>5

\* What is left alive was missed, and nothing is registered any more.
LEMMA CleanKeeps ==
    ASSUME TunnelInv, Clean
    PROVE  TunnelInv'
<1> USE DEF TunnelInv
<1>1. PICK m \in SUBSET (Alive \ Own) :
        procs' = [p \in Procs |-> IF p \in m THEN [Killed(Own \cup Strays(m))[p] EXCEPT !.missed = TRUE]
                                  ELSE Killed(Own \cup Strays(m))[p]]
  BY DEF Clean
<1> DEFINE left == Killed(Own \cup Strays(m))
<1>2. /\ left \in [Procs -> Proc]
      /\ {p \in Procs : left[p].life = "alive"} = Alive \ (Own \cup Strays(m))
  BY KillingKeepsType
<1>3. \A p \in Procs : left[p].life = "alive" => p \in m
  BY <1>2 DEF Strays
<1> HIDE DEF left
<1>4. procs' = [p \in Procs |-> IF p \in m THEN [left[p] EXCEPT !.missed = TRUE] ELSE left[p]]
  BY <1>1 DEF left
<1>5. procs' \in [Procs -> Proc] /\ \A p \in Alive' : procs'[p].missed
  BY <1>2, <1>3, <1>4 DEF Alive, Proc
<1>6. sup' \in Sup /\ sup'.child = None /\ pipe' = None /\ group' = None
  BY DEF Clean, Unregister, TypeOK, Sup, SupPc
<1>7. TypeOK' BY <1>5, <1>6 DEF Clean, TypeOK
<1>8. OneAlive'
  <2>1. \A p \in Alive' : p # None BY TunnelAssumption DEF Alive, Procs
  <2> QED BY <1>5, <1>6, <2>1 DEF OneAlive
<1> QED BY <1>7, <1>8

\* One is born where there are only missed ones.
LEMMA SpawnKeeps ==
    ASSUME TunnelInv, Spawn
    PROVE  TunnelInv'
<1> USE DEF TunnelInv
<1>1. (\A p \in Alive : procs[p].missed) /\ sup \in Sup /\ sup.want \in Config
  BY DEF OneAlive, Spawn, Running, TypeOK, Sup
<1>2. ASSUME NEW p \in Unborn,
             procs' = [procs EXCEPT ![p] = [NoProc("alive") EXCEPT !.target = sup.want.target]],
             sup' = [sup EXCEPT !.pc = "register", !.child = p]
      PROVE  TunnelInv'
  <2>1. p \in Procs /\ p \notin Alive BY <1>2 DEF Unborn, Alive
  <2>2. TypeOK'
    <3> DEFINE r == [NoProc("alive") EXCEPT !.target = sup.want.target]
    <3>1. sup.want.target \in Targets \cup {None} BY <1>1 DEF Config
    <3>2. r \in Proc BY <3>1 DEF Proc, NoProc
    <3> HIDE DEF r
    <3>3. procs' = [procs EXCEPT ![p] = r] BY <1>2 DEF r
    <3>4. procs' \in [Procs -> Proc] BY <3>2, <3>3, <2>1 DEF TypeOK
    <3>5. sup' \in Sup BY <1>1, <1>2, <2>1 DEF Sup, SupPc
    <3> QED BY <3>4, <3>5 DEF Spawn, TypeOK
  <2>3. /\ Alive' \subseteq Alive \cup {p} /\ ~procs'[p].missed
        /\ \A q \in Alive : q # p /\ procs'[q] = procs[q]
    BY <1>1, <1>2, <2>1 DEF Alive, TypeOK, NoProc
  <2>4. sup'.pc # "spawn" /\ sup'.child = p /\ pipe' = pipe BY <1>1, <1>2 DEF Sup, Spawn
  <2>5. \A q \in Alive : q # pipe BY <1>1 DEF OneAlive
  <2>6. \A q \in Alive' : procs'[q].missed => q \in Alive BY <2>3
  <2> QED BY <1>1, <2>2, <2>3, <2>4, <2>5, <2>6 DEF OneAlive
<1>3. CASE SupGoto("failed") /\ UNCHANGED procs
  <2>1. TypeOK' BY <1>1, <1>3 DEF Spawn, SupGoto, TypeOK, Sup, SupPc, Config
  <2>2. Alive' = Alive /\ sup'.child = sup.child /\ sup'.pc = "failed" /\ pipe' = pipe
    BY <1>1, <1>3 DEF Alive, SupGoto, Spawn, Sup
  <2> QED BY <1>3, <2>1, <2>2, NobodyBornKeeps
<1> QED BY <1>2, <1>3 DEF Spawn

\* An ssh dies; the application is shut down, dies, starts.
LEMMA OutsideKeeps ==
    ASSUME TunnelInv,
           \/ \E p \in Procs : Eof(p) \/ SshDies(p)
           \/ Shutdown \/ ShutdownRead \/ ShutdownKill \/ ShutdownClose \/ AppEnds \/ AppStart
    PROVE  TunnelInv'
<1> USE DEF TunnelInv
<1>1. \E P : procs' = procs \/ procs' = Killed(P)
  BY DEF Eof, SshDies, Shutdown, ShutdownRead, ShutdownKill, ShutdownClose, AppEnds, AppStart
<1>2. /\ procs' \in [Procs -> Proc]
      /\ Alive' \subseteq Alive /\ \A p \in Alive' : procs'[p] = procs[p]
  BY <1>1, KillingKeepsType DEF TypeOK, Alive
<1>3. TypeOK'
  <2> USE <1>2, TunnelAssumption DEF TypeOK
  <2>1. CASE \E p \in Procs : Eof(p) \/ SshDies(p) BY <2>1 DEF Eof, SshDies, supervisor
  <2>2. CASE Shutdown BY <2>2 DEF Shutdown, supervisor
  <2>6. CASE ShutdownRead BY <2>6 DEF ShutdownRead, supervisor
  <2>5. CASE ShutdownKill \/ ShutdownClose BY <2>5 DEF ShutdownKill, ShutdownClose, supervisor
  <2>3. CASE AppEnds
    BY <2>3 DEF AppEnds, Unregister, NoPut, NoSup, NoExit, Untold, Put, Sup, SupPc, Config
  <2>4. CASE AppStart
    <3>1. sup' \in Sup BY <2>4 DEF AppStart, Launched, NoSup, Sup, SupPc, Config
    <3>2. desired' \in [enabled : BOOLEAN, target : Targets \cup {None}, gen : Nat]
      BY <2>4 DEF AppStart, Told, Config
    <3>3. {permit', begun'} \subseteq BOOLEAN BY <2>4 DEF AppStart, Same, Config
    <3> QED BY <2>4, <3>1, <3>2, <3>3 DEF AppStart
  <2> QED BY <2>1, <2>2, <2>3, <2>4, <2>5, <2>6
<1>4. /\ sup' = sup \/ sup' = NoSup \/ sup' = [NoSup EXCEPT !.pc = "top"]
      /\ pipe' \in {pipe, None}
  BY DEF Eof, SshDies, Shutdown, ShutdownRead, ShutdownKill, ShutdownClose, AppEnds, AppStart,
         Launched, Unregister, supervisor
<1>5. (sup'.pc = "spawn" => sup.pc = "spawn") /\ sup'.child \in {sup.child, None}
  BY <1>4 DEF NoSup
<1>6. OneAlive' BY <1>2, <1>4, <1>5, NobodyBornKeeps
<1> QED BY <1>3, <1>6

LEMMA NextTunnel == TunnelInv /\ [Next]_vars => TunnelInv'
<1> SUFFICES ASSUME TunnelInv, [Next]_vars PROVE TunnelInv'
  OBVIOUS
<1>1. CASE UNCHANGED vars
  <2>1. TypeOK' BY <1>1 DEF TunnelInv, TypeOK, vars
  <2>2. OneAlive' BY <1>1 DEF TunnelInv, OneAlive, Alive, vars
  <2> QED BY <2>1, <2>2 DEF TunnelInv
<1>2. CASE SupStep \/ TickUnknown \/ Selfhealed
  BY <1>2, QuietStepsKeep, EndingStepsKeep, CleanKeeps, SpawnKeeps DEF SupStep
<1> QED BY <1>1, <1>2, PutsKeep, OutsideKeeps DEF Next, ExitStep

\* Every variable of the tunnel keeps its type.
THEOREM TunnelTypeCorrect == Spec => []TypeOK
<1>1. TunnelInv => TypeOK BY DEF TunnelInv
<1> QED BY <1>1, InitTunnel, NextTunnel, PTL DEF Spec

LEMMA OneAliveIsOne == TunnelInv => OneTunnel
<1> SUFFICES ASSUME TunnelInv PROVE OneTunnel
  OBVIOUS
<1> DEFINE Kept == {p \in Alive : ~procs[p].missed}
<1>1. Cardinality(Kept) <= 1
  <2>1. CASE Kept = {} BY <2>1, FS_EmptySet
  <2>2. CASE Kept # {}
    <3>1. PICK p : p \in Kept BY <2>2
    <3>2. Kept = {p} BY <3>1 DEF TunnelInv, OneAlive
    <3>3. Cardinality(Kept) = 1 BY <3>2, FS_Singleton
    <3> QED BY <3>3
  <2> QED BY <2>1, <2>2
<1>2. \A p \in Alive : procs[p].missed => Orphaned(p) BY DEF TunnelInv, OneAlive, Orphaned
<1> QED BY <1>1, <1>2 DEF OneTunnel

\* However many requests, spawns, crashes and restarts there are: at most one ssh is
\* alive that the last clean-up did not miss, and what it missed is about to be killed
\* by its own shell (tunnel.rs, reconcile_orphans before every spawn_wrapped).
THEOREM OneTunnelAtATime == Spec => []OneTunnel
<1> QED BY InitTunnel, NextTunnel, OneAliveIsOne, PTL DEF Spec

-----------------------------------------------------------------------------
(* The kernel.                                                              *)

Working == K!Pcs \ {"idle", "wait"}

\* Between the look under the lock and the writing of meta.json.
Attempting == {"channel", "flag", "download", "clear", "unpack", "verify", "vouch", "meta"}

InstallTypes ==
    /\ meta \in K!Versions \cup {None}
    /\ parts \in [K!Versions -> SUBSET Parts]
    /\ slot \in Tasks \cup {None}
    /\ task \in [Tasks -> [pc : K!Pcs, kind : {"launch", "background"}, cancelled : BOOLEAN]]
    /\ vanished \in BOOLEAN

\* Who is past the lock holds it.
SlotInv == \A t \in Tasks : task[t].pc \in Working => slot = t

\* A task that may change the files found that nothing vouches for them, or that
\* the binary was gone; it vouches again only for what it has verified.
AttemptInv == \A t \in Tasks :
    /\ task[t].pc \in Attempting /\ meta = Pinned => vanished
    /\ task[t].pc \in {"vouch", "meta"} => parts[Pinned] = Parts

Vouched == meta = Pinned /\ ~vanished => parts[Pinned] = Parts

InstallInv == InstallTypes /\ SlotInv /\ AttemptInv /\ Vouched

-----------------------------------------------------------------------------
LEMMA InitInstall == K!InstallAssumption /\ K!Init => InstallInv
<1> SUFFICES ASSUME K!InstallAssumption, K!Init PROVE InstallInv
  OBVIOUS
<1> USE DEF K!Init, K!Idle
<1>1. parts \in [K!Versions -> SUBSET Parts] /\ meta # Pinned
  BY DEF K!InstallAssumption, K!Versions
<1>2. InstallTypes BY <1>1 DEF InstallTypes, K!Versions, K!Pcs
<1>3. SlotInv BY DEF SlotInv, Working
<1>4. AttemptInv BY DEF AttemptInv, Attempting
<1>5. Vouched BY <1>1 DEF Vouched
<1> QED BY <1>2, <1>3, <1>4, <1>5 DEF InstallInv

LEMMA InstallInvImplies == InstallInv => K!VouchedIsWhole
  BY DEF InstallInv, Vouched, K!VouchedIsWhole, K!Installed

\* A task that moves on without a file: the lock is its own, and it attempts only
\* what it attempted before.
LEMMA MovingKeeps ==
    ASSUME InstallInv, NEW t \in Tasks, NEW pc \in K!Pcs, K!Goto(t, pc),
           UNCHANGED <<meta, parts, vanished, slot>>,
           pc \in Working => slot = t,
           pc \in Attempting => task[t].pc \in Attempting,
           pc \in {"vouch", "meta"} => parts[Pinned] = Parts
    PROVE  InstallInv'
<1> USE DEF InstallInv, K!Goto
<1>1. InstallTypes' BY DEF InstallTypes
<1>2. SlotInv' BY DEF InstallTypes, SlotInv
<1>3. AttemptInv' BY DEF InstallTypes, AttemptInv
<1>4. Vouched' BY DEF Vouched
<1> QED BY <1>1, <1>2, <1>3, <1>4

\* A task that ends, with or without the lock.
LEMMA EndingKeeps ==
    ASSUME K!InstallAssumption, InstallInv, NEW t \in Tasks, K!Ends(t),
           UNCHANGED <<meta, parts, vanished>>,
           slot' = (IF slot = t THEN None ELSE slot)
    PROVE  InstallInv'
<1> USE DEF InstallInv, K!Ends, K!Idle
<1>1. InstallTypes' BY DEF InstallTypes, K!Pcs
<1>2. SlotInv' BY DEF InstallTypes, SlotInv, Working
<1>3. AttemptInv' BY DEF InstallTypes, AttemptInv, Attempting
<1>4. Vouched' BY DEF Vouched
<1> QED BY <1>1, <1>2, <1>3, <1>4

LEMMA BeginKeeps ==
    ASSUME InstallInv, NEW t \in Tasks, K!EnsureReady(t) \/ K!StartDownload(t)
    PROVE  InstallInv'
<1> USE DEF InstallInv, K!EnsureReady, K!StartDownload, K!Idle, K!files
<1>1. InstallTypes' BY DEF InstallTypes, K!Pcs
<1>2. SlotInv' BY DEF InstallTypes, SlotInv, Working
<1>3. AttemptInv' BY DEF InstallTypes, AttemptInv, Attempting
<1>4. Vouched' BY DEF Vouched
<1> QED BY <1>1, <1>2, <1>3, <1>4

LEMMA TakeSlotKeeps ==
    ASSUME K!InstallAssumption, InstallInv, NEW t \in Tasks, K!TakeSlot(t)
    PROVE  InstallInv'
<1> USE DEF InstallInv, K!TakeSlot, K!SlotIsFree, K!Goto, K!files
<1>1. InstallTypes' BY DEF InstallTypes, K!Pcs
<1>2. SlotInv' BY DEF K!InstallAssumption, InstallTypes, SlotInv, Working
<1>3. AttemptInv' BY DEF InstallTypes, AttemptInv, Attempting
<1>4. Vouched' BY DEF Vouched
<1> QED BY <1>1, <1>2, <1>3, <1>4

\* The look under the lock: past it, nothing is there, or somebody took the binary.
LEMMA LookAgainKeeps ==
    ASSUME K!InstallAssumption, InstallInv, NEW t \in Tasks, K!LookAgain(t)
    PROVE  InstallInv'
<1>1. slot = t
  BY DEF InstallInv, SlotInv, K!LookAgain, K!At, Working, K!Pcs
<1>2. CASE K!Installed
  BY <1>1, <1>2, EndingKeeps DEF K!LookAgain
<1>3. CASE ~K!Installed
  <2> USE <1>3 DEF InstallInv, K!LookAgain, K!Goto
  <2>1. meta = Pinned => vanished
    BY DEF K!InstallAssumption, Vouched, K!Installed
  <2>2. InstallTypes' BY DEF InstallTypes, K!Pcs
  <2>3. SlotInv' BY <1>1 DEF InstallTypes, SlotInv
  <2>4. AttemptInv' BY <2>1 DEF InstallTypes, AttemptInv
  <2>5. Vouched' BY DEF Vouched
  <2> QED BY <2>2, <2>3, <2>4, <2>5
<1> QED BY <1>2, <1>3

\* While a task changes the pinned version nothing vouches for it, and no other
\* task has verified anything.
LEMMA UnpackingKeeps ==
    ASSUME K!InstallAssumption, InstallInv, NEW t \in Tasks, NEW pc \in {"unpack", "unflag"},
           task[t].pc \in {"clear", "unpack"}, task' = task \/ K!Goto(t, pc),
           NEW rest \in SUBSET Parts, parts' = [parts EXCEPT ![Pinned] = rest],
           UNCHANGED <<meta, vanished, slot>>
    PROVE  InstallInv'
<1> USE DEF InstallInv, K!Goto
<1>1. slot = t /\ (meta = Pinned => vanished)
  BY DEF SlotInv, AttemptInv, Working, K!Pcs, Attempting
<1>2. \A u \in Tasks : u # t => task[u].pc \notin Working
  BY <1>1 DEF SlotInv
<1>3. InstallTypes' BY DEF InstallTypes, K!Versions, K!Pcs
<1>4. SlotInv' BY <1>1 DEF InstallTypes, SlotInv
<1>5. AttemptInv'
  <2>1. \A u \in Tasks : task'[u].pc \notin {"vouch", "meta"}
    BY <1>2 DEF InstallTypes, Working, K!Pcs
  <2> QED BY <1>1, <2>1 DEF AttemptInv
<1>6. Vouched' BY <1>1 DEF Vouched
<1> QED BY <1>3, <1>4, <1>5, <1>6

LEMMA ClearVersionKeeps ==
    ASSUME K!InstallAssumption, InstallInv, NEW t \in Tasks, K!ClearVersion(t)
    PROVE  InstallInv'
<1>1. parts[Pinned] \in SUBSET Parts
  BY DEF InstallInv, InstallTypes, K!Versions
<1>2. ASSUME NEW rest \in SUBSET Parts, NEW pc \in {"unpack", "unflag"},
             parts' = [parts EXCEPT ![Pinned] = rest], K!Goto(t, pc)
      PROVE  InstallInv'
  BY <1>2, UnpackingKeeps DEF K!ClearVersion, K!At
<1>3. CASE parts' = [parts EXCEPT ![Pinned] = {}] /\ K!Goto(t, "unpack")
  BY <1>2, <1>3
<1>4. ASSUME NEW rest \in SUBSET parts[Pinned],
             parts' = [parts EXCEPT ![Pinned] = rest] /\ K!Goto(t, "unflag")
      PROVE  InstallInv'
  BY <1>1, <1>2, <1>4
<1> QED BY <1>3, <1>4 DEF K!ClearVersion

LEMMA UnpackKeeps ==
    ASSUME K!InstallAssumption, InstallInv, NEW t \in Tasks, K!Unpack(t)
    PROVE  InstallInv'
<1>1. parts \in [K!Versions -> SUBSET Parts] /\ Pinned \in K!Versions
  BY DEF InstallInv, InstallTypes, K!Versions
<1>2. slot = t
  BY DEF InstallInv, SlotInv, K!Unpack, K!At, Working, K!Pcs
<1>3. ASSUME NEW pc \in {"verify", "unflag"}, K!Goto(t, pc), UNCHANGED parts
      PROVE  InstallInv'
  BY <1>2, <1>3, MovingKeeps DEF K!Unpack, K!At, K!Pcs, Attempting
<1>4. ASSUME NEW e \in Parts, parts' = [parts EXCEPT ![Pinned] = @ \cup {e}], UNCHANGED task
      PROVE  InstallInv'
  <2>1. parts[Pinned] \cup {e} \in SUBSET Parts BY <1>1
  <2>2. parts' = [parts EXCEPT ![Pinned] = parts[Pinned] \cup {e}] BY <1>4
  <2> QED BY <1>4, <2>1, <2>2, UnpackingKeeps DEF K!Unpack, K!At
<1> QED BY <1>3, <1>4 DEF K!Unpack

LEMMA VerifyKeeps ==
    ASSUME InstallInv, NEW t \in Tasks, K!Verify(t)
    PROVE  InstallInv'
<1>1. slot = t /\ task[t].pc \in Attempting
  BY DEF InstallInv, SlotInv, K!Verify, K!At, Working, K!Pcs, Attempting
<1>2. CASE parts[Pinned] = Parts /\ K!Goto(t, "vouch")
  BY <1>1, <1>2, MovingKeeps DEF K!Verify, K!files, K!Pcs
<1>3. CASE K!Goto(t, "unflag")
  BY <1>1, <1>3, MovingKeeps DEF K!Verify, K!files, K!Pcs, Attempting
<1> QED BY <1>2, <1>3 DEF K!Verify

LEMMA OpenMetaKeeps ==
    ASSUME K!InstallAssumption, InstallInv, NEW t \in Tasks, K!OpenMeta(t)
    PROVE  InstallInv'
<1> USE DEF InstallInv, K!OpenMeta, K!At, K!Goto
<1>1. InstallTypes' BY DEF InstallTypes, K!Pcs
<1>2. SlotInv' BY DEF InstallTypes, SlotInv, Working, K!Pcs
<1>3. AttemptInv' BY DEF K!InstallAssumption, InstallTypes, AttemptInv
<1>4. Vouched' BY DEF K!InstallAssumption, Vouched
<1> QED BY <1>1, <1>2, <1>3, <1>4

\* What it vouches for is what it verified.
LEMMA WriteMetaKeeps ==
    ASSUME K!InstallAssumption, InstallInv, NEW t \in Tasks, K!WriteMeta(t)
    PROVE  InstallInv'
<1> USE DEF InstallInv, K!WriteMeta, K!At, K!Goto
<1>1. slot = t /\ parts[Pinned] = Parts /\ \A u \in Tasks : u # t => task[u].pc \notin Working
  BY DEF SlotInv, AttemptInv, Working, K!Pcs
<1>2. InstallTypes' BY DEF InstallTypes, K!Pcs, K!Versions
<1>3. SlotInv' BY <1>1 DEF InstallTypes, SlotInv, Working, K!Pcs
<1>4. AttemptInv'
  <2>1. \A u \in Tasks : task'[u].pc \notin Attempting
    BY <1>1 DEF InstallTypes, Working, Attempting, K!Pcs
  <2> QED BY <2>1 DEF AttemptInv, Attempting
<1>5. Vouched' BY <1>1 DEF Vouched
<1> QED BY <1>2, <1>3, <1>4, <1>5

LEMMA SweepOldKeeps ==
    ASSUME K!InstallAssumption, InstallInv, NEW t \in Tasks, K!SweepOld(t)
    PROVE  InstallInv'
<1> USE DEF InstallInv, K!SweepOld, K!At, K!Goto
<1>1. PICK rest \in {{}, parts[Old]} : parts' = [parts EXCEPT ![Old] = rest]
  OBVIOUS
<1>2. parts'[Pinned] = parts[Pinned] /\ parts' \in [K!Versions -> SUBSET Parts]
  BY <1>1 DEF K!InstallAssumption, InstallTypes, K!Versions
<1>3. InstallTypes' BY <1>2 DEF InstallTypes, K!Pcs
<1>4. SlotInv' BY DEF InstallTypes, SlotInv, Working, K!Pcs
<1>5. AttemptInv' BY <1>2 DEF InstallTypes, AttemptInv, Attempting
<1>6. Vouched' BY <1>2 DEF Vouched
<1> QED BY <1>3, <1>4, <1>5, <1>6

\* The steps that touch neither the version nor meta.json.
LEMMA OtherStepsKeep ==
    ASSUME InstallInv, NEW t \in Tasks,
           K!TieChannel(t) \/ K!RaiseFlag(t) \/ K!Download(t) \/ K!LowerFlag(t)
    PROVE  InstallInv'
<1>1. slot = t
  BY DEF InstallInv, SlotInv, K!TieChannel, K!RaiseFlag, K!Download, K!LowerFlag, K!At, Working, K!Pcs
<1>2. CASE K!TieChannel(t)
  BY <1>1, <1>2, MovingKeeps DEF K!TieChannel, K!At, K!files, K!Pcs, Attempting
<1>3. CASE K!RaiseFlag(t)
  BY <1>1, <1>3, MovingKeeps DEF K!RaiseFlag, K!At, K!files, K!Pcs, Attempting
<1>4. CASE K!Download(t)
  BY <1>1, <1>4, MovingKeeps DEF K!Download, K!At, K!Pcs, Attempting
<1>5. CASE K!LowerFlag(t)
  BY <1>1, <1>5, MovingKeeps DEF K!LowerFlag, K!At, K!files, K!Pcs, Attempting
<1> QED BY <1>2, <1>3, <1>4, <1>5

LEMMA CancelSendKeeps ==
    ASSUME InstallInv, K!CancelSend
    PROVE  InstallInv'
<1> USE DEF InstallInv, K!CancelSend, K!files
<1>1. \A t \in Tasks : task'[t].pc = task[t].pc
  BY DEF InstallTypes
<1>2. InstallTypes' BY DEF InstallTypes
<1>3. SlotInv' BY <1>1 DEF SlotInv
<1>4. AttemptInv' BY <1>1 DEF AttemptInv
<1>5. Vouched' BY DEF Vouched
<1> QED BY <1>2, <1>3, <1>4, <1>5

LEMMA VanishKeeps ==
    ASSUME K!InstallAssumption, InstallInv, K!Vanish
    PROVE  InstallInv'
<1> USE DEF InstallInv, K!Vanish, K!At
<1>1. InstallTypes' BY DEF InstallTypes, K!Versions
<1>2. SlotInv' BY DEF SlotInv
<1>3. AttemptInv' BY DEF AttemptInv, Attempting
<1>4. Vouched' BY DEF Vouched
<1> QED BY <1>1, <1>2, <1>3, <1>4

LEMMA CrashKeeps ==
    ASSUME InstallInv, K!AppCrash
    PROVE  InstallInv'
<1> USE DEF InstallInv, K!AppCrash, K!Idle
<1>1. InstallTypes' BY DEF InstallTypes, K!Pcs
<1>2. SlotInv' BY DEF SlotInv, Working
<1>3. AttemptInv' BY DEF AttemptInv, Attempting
<1>4. Vouched' BY DEF Vouched
<1> QED BY <1>1, <1>2, <1>3, <1>4

LEMMA AdvanceKeeps ==
    ASSUME K!InstallAssumption, InstallInv, NEW t \in Tasks, K!Advance(t) \/ K!Await(t)
    PROVE  InstallInv'
<1>1. CASE K!Untie(t) BY <1>1, EndingKeeps DEF K!Untie
<1> QED
  BY <1>1, TakeSlotKeeps, LookAgainKeeps, OtherStepsKeep, ClearVersionKeeps, UnpackKeeps, VerifyKeeps,
     OpenMetaKeeps, WriteMetaKeeps, SweepOldKeeps
  DEF K!Advance, K!Await

LEMMA StepKeepsInstall == K!InstallAssumption /\ InstallInv /\ [K!Next]_(K!vars) => InstallInv'
<1> SUFFICES ASSUME K!InstallAssumption, InstallInv, [K!Next]_(K!vars) PROVE InstallInv'
  OBVIOUS
<1>1. ASSUME NEW t \in Tasks, K!EnsureReady(t) \/ K!StartDownload(t) \/ K!Advance(t) \/ K!Await(t)
      PROVE  InstallInv'
  BY <1>1, BeginKeeps, AdvanceKeeps
<1>2. ASSUME NEW t \in Tasks, K!Drop(t) PROVE InstallInv'
  BY <1>2, EndingKeeps DEF K!Drop, K!Released, K!files
<1>3. CASE K!CancelCheck
  BY <1>3 DEF K!CancelCheck, K!files, InstallInv, InstallTypes, SlotInv, AttemptInv, Vouched
<1>4. CASE K!CancelSend \/ K!Vanish \/ K!AppCrash
  BY <1>4, CancelSendKeeps, VanishKeeps, CrashKeeps
<1>5. CASE UNCHANGED K!vars
  BY <1>5 DEF K!vars, InstallInv, InstallTypes, SlotInv, AttemptInv, Vouched
<1> QED BY <1>1, <1>2, <1>3, <1>4, <1>5 DEF K!Next

\* A launch that finds the kernel installed finds all of it, however many installations
\* were cancelled, failed, were dropped or crashed before (manager.rs,
\* installed_binary_path), unless somebody else deleted the binary.
THEOREM KernelIsWhole == K!InstallAssumption => (K!Spec => []K!VouchedIsWhole)
<1> SUFFICES ASSUME K!InstallAssumption PROVE K!Spec => []K!VouchedIsWhole
  OBVIOUS
<1>1. K!Init => InstallInv BY InitInstall
<1>2. InstallInv /\ [K!Next]_(K!vars) => InstallInv' BY StepKeepsInstall
<1>3. K!Spec => []InstallInv BY <1>1, <1>2, PTL DEF K!Spec
<1> QED BY <1>3, InstallInvImplies, PTL

-----------------------------------------------------------------------------
(* The commands of the command line.                                        *)

Statuses == {"stopped", "running", "gone"}
World == [status : [Instances -> Statuses], envs : SUBSET Envs, login : [Envs -> Nat]]

\* Where a command can be.
Places(verb) ==
    CASE verb = "delete"     -> {"ask", "resolve", "delete", "ask stop", "stop", "delete again"}
      [] verb = "env delete" -> {"ask", "env delete", "ask stop", "stop", "delete again"}
      [] verb = "capture"    -> {"view", "ask capture", "capture"}
      [] verb = "reset"      -> {"ask", "reset"}
      [] verb = "install"    -> {"installed?", "install", "look", "judge"}
      [] verb = "cancel"     -> {"ask", "cancel"}
      [] OTHER               -> {"resolve", verb}

FlowTypes ==
    /\ cmd \in C!Commands
    /\ home \in [Instances -> Envs] /\ named \in [Instances -> {Name, None}]
    /\ server \in World
    /\ kernel \in [installed : BOOLEAN, flag : BOOLEAN, asked : Nat]
    /\ at \in Places(cmd.verb) \cup {"done"}
    /\ code \in 0..9 \cup {None}
    /\ at = "done" <=> code # None

\* The instance is the one that is named, and nobody else bears its name.
Named(i) ==
    /\ i \in Instances
    /\ i = cmd.ref \/ named[i] = cmd.ref
    /\ cmd.ref = Name => \A j \in Instances \ {i} : named[j] = Name => server.status[j] = "gone"

Acting == {"delete", "start", "stop", "restart", "ask stop", "delete again"}
IdInv == cmd.verb \in C!OnInstance /\ at \in Acting => Named(id)

\* Nothing is changed before the first request that may change something; a stop on
\* the way was agreed to.
DeedInv ==
    /\ at \notin {"delete again", "done"} => did = {}
    /\ at \in {"stop", "delete again"} =>
          cmd.verb = "stop" \/ cmd.asked = "yes" \/ "stop" \in agreed

\* What an installation has read of the kernel.
ReadInv ==
    at \in {"look", "judge"} =>
        /\ seen \in [installed : BOOLEAN, before : BOOLEAN]
        /\ seen.before => ended \/ kernel.flag
        /\ at = "judge" /\ seen.installed => kernel.installed

CommandInv == FlowTypes /\ IdInv /\ DeedInv /\ ReadInv /\ C!CommandsTellTheTruth

-----------------------------------------------------------------------------
(* What the services do to the world: who is gone stays gone.               *)

Later(w) ==
    /\ w \in World
    /\ \A j \in Instances : server.status[j] = "gone" => w.status[j] = "gone"

LEMMA TurnedIsLater ==
    ASSUME server \in World, NEW i \in Instances, server.status[i] # "gone", NEW s \in Statuses
    PROVE  Later(C!Turned(i, s)) /\ C!Turned(i, s).status[i] = s
  BY DEF C!Turned, World, Later

LEMMA SameIsLater == server \in World => Later(server)
  BY DEF Later

LEMMA StopServes ==
    ASSUME server \in World, NEW i \in Instances, NEW r \in C!Stop(i)
    PROVE  /\ Later(r.world) /\ r.deeds \subseteq {<<"stopped", i>>}
           /\ r.answer \in {"ok", "404", "409"} /\ (r.answer # "ok" => r.deeds = {})
  BY TurnedIsLater, SameIsLater DEF C!Stop, C!Served, C!Refuses, C!Alive, Statuses

LEMMA StartServes ==
    ASSUME server \in World, NEW i \in Instances, NEW r \in C!Start(i)
    PROVE  /\ Later(r.world) /\ r.deeds \subseteq {<<"started", i>>}
           /\ r.answer \in {"ok", "404", "409", "500"}
  BY TurnedIsLater, SameIsLater DEF C!Start, C!Served, C!Refuses, C!Alive, Statuses

LEMMA RestartServes ==
    ASSUME server \in World, NEW i \in Instances, NEW r \in C!Restart(i)
    PROVE  /\ Later(r.world) /\ r.deeds \subseteq {<<"stopped", i>>, <<"started", i>>}
           /\ r.answer \in {"ok", "404", "409", "500"}
  BY TurnedIsLater, SameIsLater DEF C!Restart, C!Served, C!Refuses, C!Alive, Statuses

LEMMA DeleteServes ==
    ASSUME server \in World, NEW i \in Instances, NEW r \in C!Delete(i)
    PROVE  /\ Later(r.world) /\ r.deeds \subseteq {<<"deleted", i>>}
           /\ r.answer \in {"ok", "404", "409"} /\ (r.answer # "ok" => r.deeds = {})
           /\ r.answer = "ok" => r.world.status[i] = "gone"
  BY TurnedIsLater, SameIsLater DEF C!Delete, C!Served, C!Refuses, C!Alive, Statuses

LEMMA StopAllServes ==
    ASSUME server \in World, NEW e \in Envs, NEW r \in C!StopAll(e)
    PROVE  /\ Later(r.world) /\ r.deeds \subseteq {<<"stopped", i>> : i \in C!Living(e)}
           /\ r.answer = "ok"
  BY DEF C!StopAll, C!Served, C!Living, C!Alive, Statuses, Later, World

LEMMA DeleteEnvServes ==
    ASSUME server \in World, NEW e \in Envs, NEW r \in C!DeleteEnv(e)
    PROVE  /\ Later(r.world) /\ r.deeds \subseteq {<<"deleted", e>>}
           /\ r.answer \in {"ok", "404", "409"} /\ (r.answer # "ok" => r.deeds = {})
           /\ r.answer = "ok" => e \notin r.world.envs
<1>1. CASE e \notin server.envs \/ C!Living(e) # {}
  <2>1. r \in C!Refuses("404") \cup C!Refuses("409") BY <1>1 DEF C!DeleteEnv
  <2> QED BY <2>1, SameIsLater DEF C!Refuses, C!Served
<1>2. CASE ~(e \notin server.envs \/ C!Living(e) # {})
  <2> DEFINE w == [server EXCEPT !.envs = @ \ {e},
                      !.status = [i \in Instances |-> IF home[i] = e THEN "gone" ELSE @[i]]]
  <2>1. r = [answer |-> "ok", world |-> w, deeds |-> {<<"deleted", e>>}]
    BY <1>2 DEF C!DeleteEnv, C!Served
  <2>2. Later(w) /\ e \notin w.envs BY DEF World, Later, Statuses
  <2> QED BY <2>1, <2>2
<1> QED BY <1>1, <1>2

LEMMA LoginServes ==
    ASSUME server \in World, NEW e \in Envs, NEW r \in C!Capture(e) \cup C!Reset(e)
    PROVE  /\ Later(r.world) /\ r.deeds \subseteq {<<"captured", e>>, <<"reset", e>>}
           /\ r.answer \in {"ok", "404", "409"}
  BY SameIsLater DEF C!Capture, C!Reset, C!Served, C!Refuses, World, Later

-----------------------------------------------------------------------------
(* The steps of a command.                                                  *)

\* Somebody may have been stopped.
Agreed == cmd.verb \in {"stop", "restart"} \/ cmd.asked = "yes" \/ "stop" \in agreed

\* The deed is one on what the command names.
Meant(d) ==
    /\ d[2] \in Instances => \/ d[2] = cmd.ref \/ named[d[2]] = cmd.ref
                             \/ cmd.verb = "env delete" /\ home[d[2]] = cmd.ref
    /\ cmd.ref = Name => \A j \in Instances \ {d[2]} : named[j] = Name => server.status[j] = "gone"

LEMMA DeedsKeep ==
    ASSUME FlowTypes, C!CommandsTellTheTruth, UNCHANGED <<home, named, cmd>>, Later(server'),
           agreed \subseteq agreed', NEW deeds, did' \subseteq did \cup deeds,
           \A d \in deeds : Meant(d) /\ (d[1] = "stopped" => Agreed)
    PROVE  C!StopsAreAgreed' /\ C!OnlyTheMeant'
<1>1. \A d \in did : Meant(d) /\ (d[1] = "stopped" => Agreed)
  BY DEF C!CommandsTellTheTruth, C!StopsAreAgreed, C!OnlyTheMeant, Meant, Agreed
<1>2. \A d \in did' : Meant(d) /\ (d[1] = "stopped" => Agreed) BY <1>1
<1>3. C!StopsAreAgreed' BY <1>2 DEF C!StopsAreAgreed, Agreed
<1>4. C!OnlyTheMeant' BY <1>2 DEF C!OnlyTheMeant, Meant, Later, FlowTypes
<1> QED BY <1>3, <1>4

LEMMA NamedStays ==
    ASSUME FlowTypes, UNCHANGED <<home, named, cmd>>, Later(server'), NEW i, Named(i)
    PROVE  Named(i)'
  BY DEF Named, Later, FlowTypes

LEMMA VerbsAre ==
    ASSUME FlowTypes
    PROVE  cmd.verb \in {"delete", "start", "stop", "restart", "env delete", "capture", "reset",
                        "install", "cancel"}
  BY DEF FlowTypes, C!Commands, C!OnInstance, C!OnLogin, C!OnKernel

\* No exit code is none.
LEMMA CodesAre ==
    C!FlowsAssumption => None \notin {0, 1, 2, 3, 5, 8, 9} /\ None \notin 0..9
  BY DEF C!FlowsAssumption

\* CliFlows counts with the same operators.
LEMMA SameCounts ==
    \A set : /\ C!Cardinality(set) = Cardinality(set)
             /\ C!IsFiniteSet(set) <=> IsFiniteSet(set)
  BY DEF C!Cardinality, Cardinality, C!IsFiniteSet, IsFiniteSet

\* What a request leaves alone, and what it may end with.
Requests(r) ==
    /\ server' = r.world /\ did' = did \cup r.deeds
    /\ UNCHANGED <<home, named, cmd, kernel, id, seen, agreed, ended>>

\* A request of a command that is not about the kernel.
LEMMA RequestKeeps ==
    ASSUME C!FlowsAssumption, CommandInv, cmd.verb \notin C!OnKernel, at # "done", NEW r, Requests(r), Later(r.world),
           \A d \in r.deeds : Meant(d) /\ (d[1] = "stopped" => Agreed),
           at' \in Places(cmd.verb) \cup {"done"}, code' \in (0..9 \ {2}) \cup {None},
           at' = "done" <=> code' # None,
           at' \notin {"delete again", "done"} => did = {} /\ r.deeds = {},
           at' \in {"stop", "delete again"} => cmd.verb = "stop" \/ cmd.asked = "yes" \/ "stop" \in agreed,
           cmd.verb \in C!OnInstance /\ at' \in Acting => at \in Acting,
           code' = 0 /\ cmd.verb = "delete" => r.world.status[id] = "gone",
           code' = 0 /\ cmd.verb = "env delete" => cmd.ref \notin r.world.envs
    PROVE  CommandInv'
<1> USE DEF CommandInv, Requests
<1>1. Later(server') OBVIOUS
<1>2. FlowTypes' BY DEF FlowTypes, Later
<1>3. IdInv' BY <1>1, NamedStays DEF IdInv
<1>4. DeedInv' BY DEF DeedInv
<1>5. at' \notin {"look", "judge"}
  BY VerbsAre DEF Places, C!OnKernel
<1>6. ReadInv' BY <1>5 DEF ReadInv
<1>7. C!StopsAreAgreed' /\ C!OnlyTheMeant' BY <1>1, DeedsKeep
<1>8. C!RefusedIsUntouched' /\ C!DoneIsDone' /\ C!StalledHasEnded'
  BY CodesAre DEF C!RefusedIsUntouched, C!DoneIsDone, C!StalledHasEnded, C!OnKernel
<1> QED BY <1>2, <1>3, <1>4, <1>6, <1>7, <1>8 DEF C!CommandsTellTheTruth

\* A step that changes nothing of the services'.
LEMMA ThoughtKeeps ==
    ASSUME C!FlowsAssumption, CommandInv, at # "done", UNCHANGED <<home, named, cmd, server, kernel, did, ended>>,
           agreed \subseteq agreed', at' \in Places(cmd.verb) \cup {"done"}, code' \in 0..9 \cup {None},
           at' = "done" <=> code' # None,
           at' # "done" => did = {},
           code' = 2 => did = {},
           at' \in {"stop", "delete again"} =>
               cmd.verb = "stop" \/ cmd.asked = "yes" \/ "stop" \in agreed',
           cmd.verb \in C!OnInstance /\ at' \in Acting => Named(id'),
           ReadInv',
           code' = 0 => cmd.verb \in C!OnKernel /\ (cmd.verb = "install" => kernel.installed),
           cmd.verb = "install" /\ code' = 5 => ended
    PROVE  CommandInv'
<1> USE DEF CommandInv
<1>1. Later(server') BY DEF FlowTypes, Later
<1>2. FlowTypes' BY DEF FlowTypes
<1>3. IdInv' BY DEF IdInv, Named
<1>4. DeedInv' BY DEF DeedInv
<1>5. C!StopsAreAgreed' /\ C!OnlyTheMeant'
  <2> DEFINE none == {}
  <2>1. did' \subseteq did \cup none /\ \A d \in none : Meant(d) /\ (d[1] = "stopped" => Agreed) OBVIOUS
  <2> HIDE DEF none
  <2> QED BY <1>1, <2>1, DeedsKeep
<1>6. C!RefusedIsUntouched' /\ C!DoneIsDone' /\ C!StalledHasEnded'
  BY CodesAre DEF C!RefusedIsUntouched, C!DoneIsDone, C!StalledHasEnded, C!OnKernel
<1> QED BY <1>2, <1>3, <1>4, <1>5, <1>6 DEF C!CommandsTellTheTruth

LEMMA InitCommand == C!FlowsAssumption /\ C!Init => CommandInv
<1> SUFFICES ASSUME C!FlowsAssumption, C!Init PROVE CommandInv
  OBVIOUS
<1> USE DEF C!Init
<1>1. server \in World
  <2>1. PICK s \in [Instances -> Statuses] :
           server = [status |-> s, envs |-> Envs, login |-> [e \in Envs |-> 0]]
    BY DEF Statuses
  <2> QED BY <2>1 DEF World
<1>2. at \in Places(cmd.verb)
  BY DEF C!Begins, Places, C!Commands, C!OnInstance, C!OnLogin, C!OnKernel
<1>3. at # "done" /\ at \notin Acting \cup {"look", "judge"}
  BY DEF C!Begins, Acting, C!Commands, C!OnInstance, C!OnLogin, C!OnKernel
<1>4. FlowTypes BY <1>1, <1>2, <1>3 DEF FlowTypes
<1>5. IdInv /\ DeedInv /\ ReadInv BY <1>3 DEF IdInv, DeedInv, ReadInv, Acting
<1>6. C!CommandsTellTheTruth
  BY CodesAre DEF C!CommandsTellTheTruth, C!RefusedIsUntouched, C!StopsAreAgreed, C!OnlyTheMeant, C!DoneIsDone,
         C!StalledHasEnded, C!FlowsAssumption
<1> QED BY <1>4, <1>5, <1>6 DEF CommandInv

LEMMA AskKeeps == ASSUME C!FlowsAssumption, CommandInv, C!Ask PROVE CommandInv'
<1> USE DEF CommandInv, C!Ask, C!Asks, C!Goes, C!Ends
<1>1. cmd.verb \in {"delete", "env delete", "reset", "cancel"}
  BY VerbsAre DEF FlowTypes, Places
<1>2. at' \in (Places(cmd.verb) \ (Acting \cup {"look", "judge"})) \cup {"env delete", "done"}
  BY <1>1 DEF Places, Acting
<1>3. did = {} BY DEF DeedInv
<1>4. at # "done" /\ code = None BY DEF FlowTypes
<1>8. (at' # "done" /\ code' = None) \/ (at' = "done" /\ code' = 2)
  BY <1>1, <1>4
<1>9. agreed \subseteq agreed' /\ UNCHANGED <<home, named, cmd, server, kernel, did, ended>>
  BY DEF C!fixed, C!mind
<1>5. ReadInv' BY <1>2 DEF ReadInv
<1>6. at' \in Places(cmd.verb) \cup {"done"} BY <1>1 DEF Places
<1>7. /\ at' = "done" <=> code' # None
      /\ code' \in 0..9 \cup {None} /\ code' # 0 /\ code' # 5
  BY <1>8, CodesAre
<1>10. at' \notin Acting \cup {"look", "judge"} BY <1>2 DEF Acting
<1> HIDE DEF CommandInv, C!Ask, C!Asks, C!Goes, C!Ends
<1> QED BY <1>3, <1>4, <1>5, <1>6, <1>7, <1>9, <1>10, ThoughtKeeps DEF Acting

LEMMA ResolveKeeps == ASSUME C!FlowsAssumption, CommandInv, C!Resolve PROVE CommandInv'
<1> USE DEF CommandInv, C!Resolve, C!Goes, C!Ends
<1> DEFINE matched == {i \in Instances : named[i] = Name /\ server.status[i] # "gone"}
<1>1. cmd.verb \in C!OnInstance /\ cmd.verb # "done"
  BY VerbsAre DEF FlowTypes, Places, C!OnInstance
<1>2. did = {} /\ code = None BY DEF DeedInv, FlowTypes
<1>3. \/ at' = cmd.verb /\ code' = None /\ id' = cmd.ref /\ cmd.ref \in Instances
      \/ at' = cmd.verb /\ code' = None /\ cmd.ref = Name /\ id' \in matched /\ Cardinality(matched) = 1
      \/ at' = "done" /\ code' \in {3, 2, 8, 1}
  BY <1>2, SameCounts DEF C!Chosen
<1>4. at' = cmd.verb => Named(id')
  <2>1. CASE id' = cmd.ref /\ cmd.ref \in Instances
    BY <2>1 DEF Named, C!FlowsAssumption
  <2>2. CASE cmd.ref = Name /\ id' \in matched /\ Cardinality(matched) = 1
    <3>1. IsFiniteSet(matched) BY FS_Subset, SameCounts DEF C!FlowsAssumption
    <3>2. PICK x : matched = {x} BY <2>2, <3>1, FS_Singleton
    <3> QED BY <2>2, <3>2 DEF Named
  <2> QED BY <1>1, <1>3, <2>1, <2>2
<1> HIDE DEF matched
<1>5. ReadInv' BY <1>1, <1>3 DEF ReadInv, C!OnInstance
<1>6. at' \in Places(cmd.verb) \cup {"done"} BY <1>1, <1>3 DEF Places, C!OnInstance
<1>7. /\ at' = "done" <=> code' # None
      /\ code' \in 0..9 \cup {None} /\ code' # 0 /\ code' # 5
  BY <1>1, <1>3, CodesAre
<1>8. at' # "delete again" /\ (at' = "stop" => cmd.verb = "stop")
  BY <1>1, <1>3 DEF C!OnInstance
<1>9. /\ agreed \subseteq agreed' /\ UNCHANGED <<home, named, cmd, server, kernel, did, ended>>
      /\ at # "done"
  BY DEF C!fixed, C!mind
<1>10. at' \in Acting => Named(id') BY <1>3, <1>4 DEF Acting
<1> HIDE DEF CommandInv, C!Resolve, C!Goes, C!Ends
<1> QED BY <1>2, <1>5, <1>6, <1>7, <1>8, <1>9, <1>10, ThoughtKeeps

\* The request of an instance: what it may change is a deed on the one that is meant.
LEMMA DeedsOnNamed ==
    ASSUME Named(id), NEW deeds \in SUBSET {<<"stopped", id>>, <<"started", id>>, <<"deleted", id>>}
    PROVE  \A d \in deeds : Meant(d)
<1>1. \A d \in deeds : d[2] = id OBVIOUS
<1> QED BY <1>1 DEF Named, Meant

LEMMA ActKeeps == ASSUME C!FlowsAssumption, CommandInv, C!Act PROVE CommandInv'
<1>1. at \in {"start", "restart", "stop"} /\ cmd.verb = at /\ server \in World
  BY VerbsAre DEF CommandInv, FlowTypes, Places, C!Act
<1>2. did = {} /\ code = None /\ Named(id)
  BY <1>1 DEF CommandInv, DeedInv, FlowTypes, IdInv, Acting, C!OnInstance
<1>3. PICK r : /\ Later(r.world) /\ r.deeds \subseteq {<<"stopped", id>>, <<"started", id>>}
               /\ r.answer \in {"ok", "404", "409", "500"}
               /\ at = "start" => r.deeds \subseteq {<<"started", id>>}
               /\ Requests(r)
               /\ at' = "done" /\ code' \in {0, 3, 5, 8, 1}
  <2> DEFINE none == [world |-> server, deeds |-> {}, answer |-> "ok"]
  <2>1. Later(none.world) /\ none.deeds = {} BY <1>1, SameIsLater
  <2>2. id \in Instances BY <1>2 DEF Named
  <2> USE DEF C!Request, C!Closes, C!Ends, C!CodeOf, Requests, C!fixed, C!mind
  <2>3. CASE UNCHANGED <<server, did>> /\ at' = "done" /\ code' \in {8, 1}
    BY <2>1, <2>3 DEF C!Act
  <2>4. CASE \E r \in C!Start(id) :
               /\ server' = r.world /\ did' = did \cup r.deeds
               /\ (C!Closes(r.answer) \/ C!Ends(8)) /\ at = "start"
    BY <2>2, <2>4, <1>1, StartServes DEF C!Act
  <2>5. CASE \E r \in C!Restart(id) :
               /\ server' = r.world /\ did' = did \cup r.deeds
               /\ (C!Closes(r.answer) \/ C!Ends(8)) /\ at = "restart"
    BY <2>2, <2>5, <1>1, RestartServes DEF C!Act
  <2>6. CASE \E r \in C!Stop(id) :
               /\ server' = r.world /\ did' = did \cup r.deeds
               /\ (C!Closes(r.answer) \/ C!Ends(8)) /\ at = "stop"
    BY <2>2, <2>6, <1>1, StopServes DEF C!Act
  <2> QED BY <1>1, <2>3, <2>4, <2>5, <2>6 DEF C!Act
<1>4. \A d \in r.deeds : Meant(d) /\ (d[1] = "stopped" => Agreed)
  BY <1>1, <1>2, <1>3, DeedsOnNamed DEF Agreed
<1>5. code' \in (0..9 \ {2}) \cup {None} /\ code' # None BY <1>3, CodesAre
<1> QED BY <1>1, <1>3, <1>4, <1>5, RequestKeeps DEF Acting, C!OnKernel

LEMMA DeleteInstanceKeeps ==
    ASSUME C!FlowsAssumption, CommandInv, C!DeleteInstance
    PROVE  CommandInv'
<1>1. /\ cmd.verb = "delete" /\ at \in {"delete", "ask stop", "stop", "delete again"} /\ at # "done"
      /\ code = None /\ server \in World /\ Named(id) /\ id \in Instances
      /\ at # "delete again" => did = {}
      /\ at \in {"stop", "delete again"} => cmd.asked = "yes" \/ "stop" \in agreed
  BY DEF CommandInv, FlowTypes, IdInv, DeedInv, Acting, C!OnInstance, C!DeleteInstance, Named
<1>2. CASE at = "ask stop"
  <2> USE DEF C!DeleteInstance, C!Asks, C!Goes, C!Ends
  <2>1. (at' = "stop" /\ code' = None) \/ (at' = "done" /\ code' = 2)
    BY <1>1, <1>2
  <2>2. /\ agreed \subseteq agreed' /\ UNCHANGED <<home, named, cmd, server, kernel, id, did, ended>>
        /\ at' = "stop" => cmd.asked = "yes" \/ "stop" \in agreed'
    BY <1>1, <1>2 DEF C!fixed
  <2> HIDE DEF C!DeleteInstance, C!Asks, C!Goes, C!Ends
  <2>3. /\ at' = "done" <=> code' # None
        /\ code' \in 0..9 \cup {None} /\ code' # 0 /\ code' # 5
    BY <2>1, CodesAre
  <2>4. at' \in Places(cmd.verb) \cup {"done"} /\ at' # "delete again"
    BY <1>1, <2>1 DEF Places
  <2>5. ReadInv' BY <2>1 DEF ReadInv
  <2> QED BY <1>1, <1>2, <2>2, <2>3, <2>4, <2>5, ThoughtKeeps
<1>3. CASE at # "ask stop"
  <2>1. PICK r : /\ Later(r.world) /\ r.deeds \subseteq {<<"stopped", id>>, <<"deleted", id>>}
                 /\ Requests(r)
                 /\ at # "stop" => r.deeds \subseteq {<<"deleted", id>>}
                 /\ \/ at' = "done" /\ code' \in {3, 5, 8, 1}
                    \/ at' = "done" /\ code' = 0 /\ r.world.status[id] = "gone"
                    \/ at = "delete" /\ at' = "ask stop" /\ r.deeds = {} /\ code' = code
                    \/ at = "stop" /\ at' = "delete again" /\ code' = code
    <3> DEFINE none == [world |-> server, deeds |-> {}, answer |-> "ok"]
    <3>1. Later(none.world) /\ none.deeds = {} BY <1>1, SameIsLater
    <3> USE DEF C!Request, C!Closes, C!Ends, C!Goes, C!CodeOf, Requests, C!fixed, C!mind
    <3>2. CASE UNCHANGED <<server, did>> /\ at' = "done" /\ code' \in {8, 1}
      BY <3>1, <3>2, <1>3 DEF C!DeleteInstance
    <3>3. CASE \E r \in C!Delete(id) :
                 /\ server' = r.world /\ did' = did \cup r.deeds
                 /\ (C!StopFirst(r.answer) \/ C!Ends(8)) /\ at = "delete"
      BY <3>3, <1>1, DeleteServes DEF C!DeleteInstance, C!StopFirst
    <3>4. CASE \E r \in C!Stop(id) :
                 /\ server' = r.world /\ did' = did \cup r.deeds
                 /\ (C!Stopped("delete again", r.answer) \/ C!Ends(8)) /\ at = "stop"
      BY <3>4, <1>1, StopServes DEF C!DeleteInstance, C!Stopped
    <3>5. CASE \E r \in C!Delete(id) :
                 /\ server' = r.world /\ did' = did \cup r.deeds
                 /\ (C!Closes(r.answer) \/ C!Ends(8)) /\ at = "delete again"
      BY <3>5, <1>1, DeleteServes DEF C!DeleteInstance
    <3> QED BY <1>1, <1>3, <3>2, <3>3, <3>4, <3>5 DEF C!DeleteInstance
  <2>2. \A d \in r.deeds : Meant(d) /\ (d[1] = "stopped" => Agreed)
    <3>1. \A d \in r.deeds : Meant(d) BY <1>1, <2>1, DeedsOnNamed
    <3>2. at # "stop" => \A d \in r.deeds : d[1] # "stopped"
      <4>1. at # "stop" => \A d \in r.deeds : d = <<"deleted", id>> BY <2>1
      <4>2. \A d : d = <<"deleted", id>> => d[1] = "deleted" OBVIOUS
      <4> QED BY <4>1, <4>2
    <3>3. at = "stop" => Agreed BY <1>1 DEF Agreed
    <3> QED BY <3>1, <3>2, <3>3
  <2>8. (at' # "done" /\ code' = None) \/ (at' = "done" /\ code' \in {0, 1, 3, 5, 8})
    BY <1>1, <2>1
  <2>3. code' \in (0..9 \ {2}) \cup {None} /\ (at' = "done" <=> code' # None)
    BY <2>8, CodesAre
  <2>4. at' \in Places(cmd.verb) \cup {"done"} BY <1>1, <2>1 DEF Places
  <2>5. code' = 0 => r.world.status[id] = "gone"
    <3>1. None # 0 BY CodesAre
    <3>2. code # 0 BY <1>1, <3>1
    <3>3. code' = 0 => code' # code /\ code' \notin {3, 5, 8, 1} BY <3>2
    <3> QED BY <2>1, <3>3
  <2>6. at' \notin {"delete again", "done"} => did = {} /\ r.deeds = {} BY <1>1, <2>1
  <2>7. at' \in {"stop", "delete again"} => cmd.asked = "yes" \/ "stop" \in agreed BY <1>1, <2>1
  <2> QED BY <1>1, <2>1, <2>2, <2>3, <2>4, <2>5, <2>6, <2>7, RequestKeeps DEF Acting, C!OnKernel, C!OnInstance
<1> QED BY <1>2, <1>3

LEMMA DeleteEnvironmentKeeps ==
    ASSUME C!FlowsAssumption, CommandInv, C!DeleteEnvironment
    PROVE  CommandInv'
<1> DEFINE e == cmd.ref
<1>1. /\ cmd.verb = "env delete" /\ at \in {"env delete", "ask stop", "stop", "delete again"}
      /\ at # "done" /\ code = None /\ server \in World /\ e \in Envs
      /\ at # "delete again" => did = {}
      /\ at \in {"stop", "delete again"} => cmd.asked = "yes" \/ "stop" \in agreed
  BY DEF CommandInv, FlowTypes, DeedInv, C!Commands, C!OnInstance, C!OnLogin, C!OnKernel, C!DeleteEnvironment
<1>2. CASE at = "ask stop"
  <2> USE DEF C!DeleteEnvironment, C!Asks, C!Goes, C!Ends
  <2>1. (at' = "stop" /\ code' = None) \/ (at' = "done" /\ code' = 2)
    BY <1>1, <1>2
  <2>2. /\ agreed \subseteq agreed' /\ UNCHANGED <<home, named, cmd, server, kernel, id, did, ended>>
        /\ at' = "stop" => cmd.asked = "yes" \/ "stop" \in agreed'
    BY <1>1, <1>2 DEF C!fixed
  <2> HIDE DEF C!DeleteEnvironment, C!Asks, C!Goes, C!Ends
  <2>3. /\ at' = "done" <=> code' # None
        /\ code' \in 0..9 \cup {None} /\ code' # 0 /\ code' # 5
    BY <2>1, CodesAre
  <2>4. at' \in Places(cmd.verb) \cup {"done"} /\ at' # "delete again"
    BY <1>1, <2>1 DEF Places
  <2>5. ReadInv' BY <2>1 DEF ReadInv
  <2> QED BY <1>1, <1>2, <2>2, <2>3, <2>4, <2>5, ThoughtKeeps DEF C!OnInstance
<1>3. CASE at # "ask stop"
  <2>1. PICK r : /\ Later(r.world)
                 /\ r.deeds \subseteq {<<"stopped", i>> : i \in C!Living(e)} \cup {<<"deleted", e>>}
                 /\ Requests(r)
                 /\ at # "stop" => r.deeds \subseteq {<<"deleted", e>>}
                 /\ \/ at' = "done" /\ code' \in {3, 5, 8, 1}
                    \/ at' = "done" /\ code' = 0 /\ e \notin r.world.envs
                    \/ at = "env delete" /\ at' = "ask stop" /\ r.deeds = {} /\ code' = code
                    \/ at = "stop" /\ at' = "delete again" /\ code' = code
    <3> DEFINE none == [world |-> server, deeds |-> {}, answer |-> "ok"]
    <3>1. Later(none.world) /\ none.deeds = {} BY <1>1, SameIsLater
    <3> USE DEF C!Request, C!Closes, C!Ends, C!Goes, C!CodeOf, Requests, C!fixed, C!mind
    <3>2. CASE UNCHANGED <<server, did>> /\ at' = "done" /\ code' \in {8, 1}
      BY <3>1, <3>2, <1>3 DEF C!DeleteEnvironment
    <3>3. CASE \E r \in C!DeleteEnv(e) :
                 /\ server' = r.world /\ did' = did \cup r.deeds
                 /\ (C!StopFirst(r.answer) \/ C!Ends(8)) /\ at = "env delete"
      BY <3>3, <1>1, DeleteEnvServes DEF C!DeleteEnvironment, C!StopFirst
    <3>4. CASE \E r \in C!StopAll(e) :
                 /\ server' = r.world /\ did' = did \cup r.deeds
                 /\ (C!Stopped("delete again", r.answer) \/ C!Ends(8)) /\ at = "stop"
      BY <3>4, <1>1, StopAllServes DEF C!DeleteEnvironment, C!Stopped
    <3>5. CASE \E r \in C!DeleteEnv(e) :
                 /\ server' = r.world /\ did' = did \cup r.deeds
                 /\ (C!Closes(r.answer) \/ C!Ends(8)) /\ at = "delete again"
      BY <3>5, <1>1, DeleteEnvServes DEF C!DeleteEnvironment
    <3> QED BY <1>1, <1>3, <3>2, <3>3, <3>4, <3>5 DEF C!DeleteEnvironment
  <2>2. \A d \in r.deeds : Meant(d) /\ (d[1] = "stopped" => Agreed)
    <3>1. ASSUME NEW d \in r.deeds
          PROVE  (d[2] \in Instances => home[d[2]] = e) /\ (d[1] = "stopped" => at = "stop")
      <4>1. CASE d = <<"deleted", e>> BY <1>1, <4>1 DEF C!FlowsAssumption
      <4>2. CASE \E i \in C!Living(e) : d = <<"stopped", i>>
        <5>1. PICK i \in C!Living(e) : d = <<"stopped", i>> BY <4>2
        <5>2. d[2] = i /\ home[i] = e BY <5>1 DEF C!Living
        <5>3. at # "stop" => d = <<"deleted", e>> BY <2>1
        <5>4. <<"stopped", i>> # <<"deleted", e>> OBVIOUS
        <5> QED BY <5>1, <5>2, <5>3, <5>4
      <4> QED BY <2>1, <4>1, <4>2
    <3>2. e # Name BY <1>1 DEF C!FlowsAssumption
    <3> QED BY <1>1, <3>1, <3>2 DEF Meant, Agreed
  <2>8. (at' # "done" /\ code' = None) \/ (at' = "done" /\ code' \in {0, 1, 3, 5, 8})
    BY <1>1, <2>1
  <2>3. code' \in (0..9 \ {2}) \cup {None} /\ (at' = "done" <=> code' # None)
    BY <2>8, CodesAre
  <2>4. at' \in Places(cmd.verb) \cup {"done"} BY <1>1, <2>1 DEF Places
  <2>5. code' = 0 => e \notin r.world.envs
    <3>1. None # 0 BY CodesAre
    <3>2. code # 0 BY <1>1, <3>1
    <3>3. code' = 0 => code' # code /\ code' \notin {3, 5, 8, 1} BY <3>2
    <3> QED BY <2>1, <3>3
  <2>6. at' \notin {"delete again", "done"} => did = {} /\ r.deeds = {} BY <1>1, <2>1
  <2>7. at' \in {"stop", "delete again"} => cmd.asked = "yes" \/ "stop" \in agreed BY <1>1, <2>1
  <2> QED BY <1>1, <2>1, <2>2, <2>3, <2>4, <2>5, <2>6, <2>7, RequestKeeps DEF C!OnKernel, C!OnInstance
<1> QED BY <1>2, <1>3

LEMMA LoginKeeps == ASSUME C!FlowsAssumption, CommandInv, C!Login PROVE CommandInv'
<1> DEFINE e == cmd.ref
<1>1. /\ at \in {"view", "ask capture", "capture", "reset"} /\ at # "done" /\ code = None /\ did = {}
      /\ at = "reset" => cmd.verb = "reset"
      /\ at # "reset" => cmd.verb = "capture"
      /\ server \in World /\ e \in Envs
  <2>1. /\ at \in {"view", "ask capture", "capture", "reset"}
        /\ at = "reset" => cmd.verb = "reset"
        /\ at # "reset" => cmd.verb = "capture"
    BY VerbsAre DEF C!Login, C!View, CommandInv, FlowTypes, Places
  <2>2. e \in Envs
    BY <2>1 DEF CommandInv, FlowTypes, C!Commands, C!OnInstance, C!OnLogin, C!OnKernel
  <2> QED BY <2>1, <2>2 DEF CommandInv, FlowTypes, DeedInv
<1>2. /\ cmd.verb \notin C!OnInstance /\ cmd.verb \notin C!OnKernel
      /\ cmd.verb \notin {"delete", "env delete", "stop", "install"}
      /\ {"ask capture", "capture"} \subseteq Places("capture") /\ Places("capture") \cap Acting = {}
  BY <1>1 DEF C!OnInstance, C!OnKernel, Places, Acting
<1>3. CASE at \in {"view", "ask capture"}
  <2> USE DEF C!Login, C!View, C!Asks, C!Goes, C!Ends
  <2>1. \/ at' \in {"ask capture", "capture"} /\ code' = None
        \/ at' = "done" /\ code' \in {3, 8, 1, 2}
    BY <1>1, <1>3
  <2>2. agreed \subseteq agreed' /\ UNCHANGED <<home, named, cmd, server, kernel, id, did, ended>>
    BY <1>3 DEF C!fixed
  <2> HIDE DEF C!Login, C!View, C!Asks, C!Goes, C!Ends
  <2>3. /\ at' = "done" <=> code' # None
        /\ code' \in 0..9 \cup {None} /\ code' # 0 /\ code' # 5
    <3>1. CASE at' \in {"ask capture", "capture"} /\ code' = None BY <3>1, CodesAre
    <3>2. CASE at' = "done" /\ code' \in {3, 8, 1, 2} BY <3>2, CodesAre
    <3> QED BY <2>1, <3>1, <3>2
  <2>4. at' \in Places(cmd.verb) \cup {"done"} /\ at' \notin {"stop", "delete again", "look", "judge"}
    BY <1>1, <1>2, <1>3, <2>1
  <2>5. ReadInv' BY <2>4 DEF ReadInv
  <2> QED BY <1>1, <1>2, <2>2, <2>3, <2>4, <2>5, ThoughtKeeps
<1>4. CASE at \in {"capture", "reset"}
  <2>1. PICK r : /\ Later(r.world) /\ r.deeds \subseteq {<<"captured", e>>, <<"reset", e>>}
                 /\ Requests(r)
                 /\ at' = "done" /\ code' \in {0, 3, 5, 8, 1}
    <3> DEFINE none == [world |-> server, deeds |-> {}, answer |-> "ok"]
    <3>1. Later(none.world) /\ none.deeds = {} BY <1>1, SameIsLater
    <3> USE DEF C!Request, C!Closes, C!Ends, C!CodeOf, Requests, C!fixed, C!mind
    <3>2. CASE UNCHANGED <<server, did>> /\ at' = "done" /\ code' \in {8, 1}
      BY <3>1, <3>2, <1>4 DEF C!Login, C!View
    <3>3. CASE \E r \in C!Capture(e) \cup C!Reset(e) :
                 /\ server' = r.world /\ did' = did \cup r.deeds
                 /\ (C!Closes(r.answer) \/ C!Ends(8))
      BY <3>3, <1>1, <1>4, LoginServes DEF C!Login, C!View
    <3> QED BY <1>1, <1>4, <3>2, <3>3 DEF C!Login, C!View
  <2>2. \A d \in r.deeds : Meant(d) /\ (d[1] = "stopped" => Agreed)
    <3>1. e # Name /\ e \notin Instances BY <1>1 DEF C!FlowsAssumption
    <3>2. \A d \in r.deeds : d[2] = e /\ d[1] \in {"captured", "reset"} BY <2>1
    <3> QED BY <3>1, <3>2 DEF Meant
  <2>3. code' \in (0..9 \ {2}) \cup {None} /\ (at' = "done" <=> code' # None)
    BY <2>1, CodesAre
  <2> QED BY <1>1, <1>2, <2>1, <2>2, <2>3, RequestKeeps
<1> QED BY <1>1, <1>3, <1>4

\* A step of a command about the kernel, or of a download.
LEMMA KernelStepKeeps ==
    ASSUME C!FlowsAssumption, CommandInv, cmd.verb \in C!OnKernel,
           UNCHANGED <<home, named, cmd, server, id, agreed>>,
           kernel' \in [installed : BOOLEAN, flag : BOOLEAN, asked : Nat],
           did' \subseteq did \cup {<<"cancelled", None>>},
           at' \in Places(cmd.verb) \cup {"done"}, code' \in 0..9 \cup {None},
           at' = "done" <=> code' # None,
           at' # "done" => did' = {},
           code' = 2 => did' = {},
           ReadInv',
           code' = 0 /\ cmd.verb = "install" => kernel'.installed,
           cmd.verb = "install" /\ code' = 5 => ended'
    PROVE  CommandInv'
<1> USE DEF CommandInv
<1>1. Later(server') BY DEF FlowTypes, Later
<1>2. FlowTypes' BY DEF FlowTypes
<1>3. cmd.verb \notin C!OnInstance /\ cmd.verb \notin {"delete", "env delete"} /\ cmd.ref = None
  BY DEF FlowTypes, C!OnKernel, C!OnInstance, C!OnLogin, C!Commands
<1>4. IdInv' BY <1>3 DEF IdInv
<1>5. at' \notin {"stop", "delete again"} BY DEF Places, C!OnKernel
<1>6. DeedInv' BY <1>5 DEF DeedInv
<1>7. C!StopsAreAgreed' /\ C!OnlyTheMeant'
  <2> DEFINE deeds == {<<"cancelled", None>>}
  <2>1. \A d \in deeds : d[1] = "cancelled" /\ d[2] = None OBVIOUS
  <2>2. None \notin Instances /\ None # Name BY DEF C!FlowsAssumption
  <2>3. \A d \in deeds : Meant(d) /\ (d[1] = "stopped" => Agreed) BY <1>3, <2>1, <2>2 DEF Meant
  <2>4. did' \subseteq did \cup deeds OBVIOUS
  <2> HIDE DEF deeds
  <2> QED BY <1>1, <2>3, <2>4, DeedsKeep
<1>8. C!RefusedIsUntouched' /\ C!DoneIsDone' /\ C!StalledHasEnded'
  BY <1>3 DEF C!RefusedIsUntouched, C!DoneIsDone, C!StalledHasEnded
<1> QED BY <1>2, <1>4, <1>6, <1>7, <1>8 DEF C!CommandsTellTheTruth

LEMMA InstallKeeps == ASSUME C!FlowsAssumption, CommandInv, C!Install PROVE CommandInv'
<1> USE DEF C!Install, C!Short, C!Trigger, C!Look, C!Judge, C!Reads, C!Goes, C!Ends
<1>1. cmd.verb = "install" /\ at \in Places("install") /\ at # "done" /\ code = None /\ did = {}
  BY VerbsAre DEF CommandInv, FlowTypes, DeedInv, Places
<1>2. /\ UNCHANGED <<home, named, cmd, server, id, agreed, did, ended>>
      /\ kernel \in [installed : BOOLEAN, flag : BOOLEAN, asked : Nat]
      /\ at # "install" => kernel' = kernel
      /\ at = "install" => kernel' = kernel \/ \E n \in Nat : kernel' = [kernel EXCEPT !.asked = n]
  BY DEF C!fixed, CommandInv, FlowTypes
<1>3. kernel' \in [installed : BOOLEAN, flag : BOOLEAN, asked : Nat] BY <1>2
<1>4. \/ at' \in {"install", "look", "judge"} /\ code' = None
      \/ at' = "done" /\ code' \in {0, 1, 5, 8, 9}
  BY <1>1 DEF Places
<1>5. ReadInv'
  <2>1. CASE at = "install" /\ at' = "look"
    <3>1. seen' = [installed |-> FALSE, before |-> FALSE] BY <1>1, <2>1
    <3> QED BY <2>1, <3>1 DEF ReadInv
  <2>2. CASE at = "look" /\ at' = "judge"
    BY <1>1, <1>2, <2>2 DEF ReadInv, CommandInv
  <2>3. CASE at = "judge" /\ at' = "look"
    BY <1>1, <1>2, <2>3 DEF ReadInv, CommandInv
  <2>4. CASE at' \notin {"look", "judge"} BY <2>4 DEF ReadInv
  <2>5. at' \in {"look", "judge"} => \/ at = "install" /\ at' = "look"
                                     \/ at = "look" /\ at' = "judge"
                                     \/ at = "judge" /\ at' = "look"
    BY <1>1 DEF Places
  <2> QED BY <2>1, <2>2, <2>3, <2>4, <2>5
<1>6. code' = 0 => kernel.installed /\ kernel' = kernel
  BY <1>1, <1>2, CodesAre DEF CommandInv, ReadInv
<1>7. code' = 5 => ended
  BY <1>1, <1>2, CodesAre DEF CommandInv, ReadInv, C!Stalled
<1> HIDE DEF C!Install, C!Short, C!Trigger, C!Look, C!Judge, C!Reads, C!Goes, C!Ends
<1>8. /\ at' = "done" <=> code' # None
      /\ code' \in 0..9 \cup {None} /\ code' # 2
  BY <1>4, CodesAre
<1>9. at' \in Places(cmd.verb) \cup {"done"} /\ cmd.verb \in C!OnKernel
  BY <1>1, <1>4 DEF Places, C!OnKernel
<1> QED BY <1>1, <1>2, <1>3, <1>5, <1>6, <1>7, <1>8, <1>9, KernelStepKeeps

LEMMA CancelKeeps == ASSUME C!FlowsAssumption, CommandInv, C!Cancel PROVE CommandInv'
<1> USE DEF C!Cancel, C!Goes, C!Ends
<1>1. cmd.verb = "cancel" /\ did = {}
  BY VerbsAre DEF CommandInv, FlowTypes, DeedInv, Places
<1>2. /\ UNCHANGED <<home, named, cmd, server, id, agreed>>
      /\ did' \subseteq did \cup {<<"cancelled", None>>}
      /\ kernel' \in [installed : BOOLEAN, flag : BOOLEAN, asked : Nat]
  BY DEF C!fixed, C!mind, CommandInv, FlowTypes
<1>3. at' = "done" /\ code' \in {0, 8, 1} OBVIOUS
<1>4. code' \in 0..9 \cup {None} /\ code' # 2 /\ code' # None /\ ReadInv' /\ cmd.verb \in C!OnKernel
  BY <1>1, <1>3, CodesAre DEF ReadInv, C!OnKernel
<1> HIDE DEF C!Cancel
<1> QED BY <1>1, <1>2, <1>3, <1>4, KernelStepKeeps

LEMMA DownloadKeeps == ASSUME C!FlowsAssumption, CommandInv, C!Download PROVE CommandInv'
<1> USE DEF C!Download
<1>1. cmd.verb \in C!OnKernel /\ code = None /\ at # "done" /\ did = {}
  BY DEF CommandInv, FlowTypes, DeedInv, C!OnKernel, Places
<1>2. UNCHANGED <<home, named, cmd, server, id, agreed, at, seen, did, code>>
  BY DEF C!fixed, C!mind
<1>3. /\ kernel' \in [installed : BOOLEAN, flag : BOOLEAN, asked : Nat]
      /\ kernel.installed => kernel'.installed
      /\ ended \/ kernel.flag => ended' \/ kernel'.flag
  <2> DEFINE Kernels == [installed : BOOLEAN, flag : BOOLEAN, asked : Nat]
  <2>1. kernel \in Kernels BY DEF CommandInv, FlowTypes
  <2>2. CASE \E n \in {kernel.asked + 1} : kernel' = [kernel EXCEPT !.asked = n] /\ ended' = ended
    BY <2>1, <2>2
  <2>3. CASE /\ kernel.asked > 0 /\ ended' = ended /\ ~kernel.flag
             /\ kernel' = [kernel EXCEPT !.asked = @ - 1, !.flag = ~kernel.installed]
    <3>1. kernel.asked - 1 \in Nat BY <2>1, <2>3
    <3>4. (~kernel.installed) \in BOOLEAN OBVIOUS
    <3>2. kernel' = [installed |-> kernel.installed, flag |-> ~kernel.installed, asked |-> kernel.asked - 1]
      BY <2>1, <2>3
    <3> QED BY <2>1, <2>3, <3>1, <3>2, <3>4
  <2>4. CASE ended' = ended /\ kernel' = [kernel EXCEPT !.installed = TRUE]
    BY <2>1, <2>4
  <2>5. CASE ended' = TRUE /\ kernel' = [kernel EXCEPT !.flag = FALSE]
    BY <2>1, <2>5
  <2> QED BY <2>2, <2>3, <2>4, <2>5
<1>4. ReadInv' BY <1>2, <1>3 DEF ReadInv, CommandInv
<1>5. at \in Places(cmd.verb) /\ code' # 0 /\ code' # 2 /\ code' # 5
  BY <1>1, <1>2, CodesAre DEF CommandInv, FlowTypes
<1> HIDE DEF C!Download
<1> QED BY <1>1, <1>2, <1>3, <1>4, <1>5, KernelStepKeeps

LEMMA OthersKeeps == ASSUME C!FlowsAssumption, CommandInv, C!Others PROVE CommandInv'
<1>1. /\ code = None /\ at # "done" /\ at \in Places(cmd.verb)
      /\ UNCHANGED <<home, named, cmd, kernel, at, id, seen, agreed, did, ended, code>>
      /\ server \in World
  BY DEF C!Others, C!fixed, C!mind, CommandInv, FlowTypes
<1>2. cmd.verb \notin C!OnKernel
  <2> SUFFICES ASSUME cmd.verb \in C!OnKernel PROVE FALSE OBVIOUS
  <2>1. cmd.verb \notin C!OnLogin BY DEF C!OnKernel, C!OnLogin
  <2> QED BY <2>1 DEF C!Others
<1>3. PICK r : /\ r \in CASE cmd.verb \in C!OnKernel -> {}
                          [] cmd.verb \in C!OnLogin  ->
                                C!Capture(cmd.ref) \cup C!Reset(cmd.ref) \cup C!DeleteEnv(cmd.ref)
                          [] OTHER ->
                                UNION ({C!Stop(i) \cup C!Start(i) \cup C!Delete(i) : i \in Instances}
                                       \cup {C!DeleteEnv(e) : e \in Envs})
               /\ server' = r.world
  BY DEF C!Others
<1>4. cmd.verb \in C!OnLogin => cmd.ref \in Envs
  BY DEF CommandInv, FlowTypes, C!Commands, C!OnInstance, C!OnLogin, C!OnKernel
<1>5. Later(r.world)
  <2>1. CASE cmd.verb \in C!OnLogin
    BY <1>1, <1>2, <1>3, <1>4, <2>1, LoginServes, DeleteEnvServes
  <2>2. CASE cmd.verb \notin C!OnLogin
    <3>1. r \in UNION ({C!Stop(i) \cup C!Start(i) \cup C!Delete(i) : i \in Instances}
                       \cup {C!DeleteEnv(e) : e \in Envs})
      BY <1>2, <1>3, <2>2
    <3>2. \/ \E i \in Instances : r \in C!Stop(i) \/ r \in C!Start(i) \/ r \in C!Delete(i)
          \/ \E e \in Envs : r \in C!DeleteEnv(e)
      BY <3>1
    <3> QED BY <1>1, <3>2, StopServes, StartServes, DeleteServes, DeleteEnvServes
  <2> QED BY <2>1, <2>2
<1>6. code' # 0 /\ code' \in (0..9 \ {2}) \cup {None} /\ (at' = "done" <=> code' # None)
  BY <1>1, CodesAre
<1>7. /\ at' \notin {"delete again", "done"} => did = {}
      /\ at' \in {"stop", "delete again"} => cmd.verb = "stop" \/ cmd.asked = "yes" \/ "stop" \in agreed
  BY <1>1 DEF CommandInv, DeedInv
<1> DEFINE quiet == [world |-> server', deeds |-> {}]
<1>8. quiet.deeds = {} /\ Later(quiet.world) /\ Requests(quiet)
  BY <1>1, <1>3, <1>5 DEF Requests
<1> HIDE DEF quiet
<1> QED BY <1>1, <1>2, <1>6, <1>7, <1>8, RequestKeeps

LEMMA NextCommand ==
    ASSUME C!FlowsAssumption, CommandInv, [C!Next]_(C!vars)
    PROVE  CommandInv'
<1>1. CASE C!Next
  BY <1>1, AskKeeps, ResolveKeeps, ActKeeps, DeleteInstanceKeeps, DeleteEnvironmentKeeps, LoginKeeps,
     InstallKeeps, CancelKeeps, OthersKeeps, DownloadKeeps DEF C!Next
<1>2. CASE UNCHANGED C!vars
  <2>1. UNCHANGED <<home, named, cmd, server, kernel, at, id, seen, agreed, did, ended, code>>
    BY <1>2 DEF C!vars
  <2>2. FlowTypes' BY <2>1 DEF CommandInv, FlowTypes
  <2>3. IdInv' BY <2>1 DEF CommandInv, IdInv, Named
  <2>4. DeedInv' /\ ReadInv' BY <2>1 DEF CommandInv, DeedInv, ReadInv
  <2>5. C!CommandsTellTheTruth'
    BY <2>1 DEF CommandInv, C!CommandsTellTheTruth, C!RefusedIsUntouched, C!StopsAreAgreed, C!OnlyTheMeant,
           C!DoneIsDone, C!StalledHasEnded
  <2> QED BY <2>2, <2>3, <2>4, <2>5 DEF CommandInv
<1> QED BY <1>1, <1>2

-----------------------------------------------------------------------------
(* The modules side by side.                                                *)

LEMMA TunnelMoves == MCSpec => Init /\ [][Next]_vars
<1>1. MCInit => Init BY DEF MCInit
<1>2. [MCNext]_all => [Next]_vars
  BY DEF MCNext, Tunnels, Installs, Calls, Commands, all
<1> QED BY <1>1, <1>2, PTL DEF MCSpec

LEMMA KernelMoves == MCSpec => K!Init /\ [][K!Next]_(K!vars)
<1>1. MCInit => K!Init BY DEF MCInit
<1>2. [MCNext]_all => [K!Next]_(K!vars)
  <2>1. UNCHANGED kernelVars => UNCHANGED K!vars BY DEF kernelVars, K!vars
  <2> QED BY <2>1 DEF MCNext, Tunnels, Installs, Calls, Commands, all
<1> QED BY <1>1, <1>2, PTL DEF MCSpec

LEMMA CommandMoves ==
    ASSUME C!FlowsAssumption, moving = "commands" => CommandInv, [MCNext]_all
    PROVE  (moving = "commands" => CommandInv)'
<1>1. moving' = moving BY DEF MCNext, all, Tunnels, Installs, Calls, Commands
<1>2. moving = "commands" => [C!Next]_(C!vars)
  BY DEF MCNext, all, Tunnels, Installs, Calls, Commands, commandVars, C!vars
<1> QED BY <1>1, <1>2, NextCommand

\* At most one tunnel but for a dying one, of what MCServices checks.
THEOREM ServicesOneTunnel == MCSpec => []OneTunnel
<1> QED BY TunnelMoves, InitTunnel, NextTunnel, OneAliveIsOne, PTL

\* A launch that finds the kernel installed finds all of it, however many installations
\* were cancelled, failed, were dropped or crashed before (manager.rs,
\* installed_binary_path), unless somebody else deleted the binary.
THEOREM ServicesKernelIsWhole == MCSpec => []VouchedIsWhole
<1>1. K!Init => InstallInv BY InitInstall, ServicesAssumption
<1>2. InstallInv /\ [K!Next]_(K!vars) => InstallInv' BY StepKeepsInstall, ServicesAssumption
<1>3. InstallInv => VouchedIsWhole BY InstallInvImplies DEF VouchedIsWhole
<1> QED BY <1>1, <1>2, <1>3, KernelMoves, PTL

\* What a command of several requests ends with is true: its exit code, what it
\* changed, on which instance and after which questions.
THEOREM ServicesCommandsTellTheTruth == MCSpec => [](moving = "commands" => C!CommandsTellTheTruth)
<1>1. MCInit => (moving = "commands" => CommandInv)
  BY InitCommand, ServicesAssumption DEF MCInit
<1>2. (moving = "commands" => CommandInv) /\ [MCNext]_all => (moving = "commands" => CommandInv)'
  BY CommandMoves, ServicesAssumption
<1>3. (moving = "commands" => CommandInv) => (moving = "commands" => C!CommandsTellTheTruth)
  BY DEF CommandInv
<1> QED BY <1>1, <1>2, <1>3, PTL DEF MCSpec
=============================================================================
