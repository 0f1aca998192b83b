----------------------------- MODULE Pages_proofs -----------------------------
(***************************************************************************)
(* Theorems about PageParts, for any number of records, connections,         *)
(* commands, targets, downloads, requests, documents, keys and watchers: the *)
(* connection of page control first, then the input, the events, the loads   *)
(* of a tab, the keys of the proxy, the element references of a tab, what    *)
(* its tools aim at and report and the server that mocks, at last the parts  *)
(* side by side.                                                             *)
(* The socket and the diagnostics have proofs of their own.                  *)
(***************************************************************************)
EXTENDS PageParts, WellFoundedInduction, FiniteSetTheorems, TLAPS

\* The types the argument needs.
Types ==
    /\ conn \in [Recs -> Conns \cup {None}]
    /\ gen \in [Recs -> Nat]
    /\ serial \in [Recs -> Calls \cup {None}]
    /\ tabs \in [Recs -> [Targets -> Conns \cup {None}]]
    /\ link \in [Conns -> LinkState]
    /\ inbox \in [Conns -> Seq(Event)]
    /\ loop \in [Conns -> Loop]
    /\ call \in [Calls -> Call]

\* Whoever is past the lock holds that of its record.
LockInv == \A c \in Calls :
    /\ call[c].pc # "idle" => call[c].rec \in Recs
    /\ call[c].pc \in Holding => serial[call[c].rec] = c

\* Whoever connects found the slot empty, and its connection is its own.
Building == {"connect", "autoAttach", "behavior"}
Opened == {"autoAttach", "behavior"}
BuildInv ==
    /\ \A c \in Calls : call[c].pc \in Building => conn[call[c].rec] = None
    /\ \A c \in Calls : call[c].pc \in Opened =>
          /\ call[c].conn \in Conns
          /\ link[call[c].conn] # "unborn"
          /\ loop[call[c].conn].pc = "none"
    /\ \A c, d \in Calls :
          call[c].pc \in Opened /\ call[d].pc \in Opened /\ call[c].conn = call[d].conn => c = d

\* A loop that serves is that of the connection in the slot.
SlotInv == \A k \in Conns :
    /\ Serving(k) => loop[k].rec \in Recs /\ conn[loop[k].rec] = k
    /\ loop[k].pc # "none" => link[k] # "unborn"

\* SessionsMatch, also while a command is under way.
SessionInv ==
    /\ \A r \in Recs, t \in Targets :
          conn[r] # None => tabs[r][t] \in {None, conn[r]}
    /\ \A c \in Calls :
          call[c].pc \in {"tool", "sent"} => conn[call[c].rec] \in {None, call[c].conn}

PageInv == Types /\ LockInv /\ BuildInv /\ SlotInv /\ SessionInv

-----------------------------------------------------------------------------
LEMMA InitPage == Init => PageInv
  BY PageAssumption
  DEF PageAssumption, Init, PageInv, Types, LockInv, BuildInv, SlotInv, SessionInv, Building,
    Opened,
      Serving, Holding, NoTabs, NoLoop, Idle, LinkState, Loop, LoopPc, Call, CallPc

\* What the invariant says entails the properties.
LEMMA PageInvImplies == PageInv => OneLoop /\ SessionsMatch
  BY DEF PageInv, SlotInv, SessionInv, OneLoop, SessionsMatch
\* A command or a loop that only moves on keeps its type.
LEMMA CallMoves ==
    ASSUME call \in [Calls -> Call], NEW c \in Calls, NEW pc \in CallPc
    PROVE  [call EXCEPT ![c].pc = pc] \in [Calls -> Call]
BY DEF Call

LEMMA LoopMoves ==
    ASSUME loop \in [Conns -> Loop], NEW k \in Conns, NEW pc \in LoopPc
    PROVE  [loop EXCEPT ![k].pc = pc] \in [Conns -> Loop]
BY DEF Loop

-----------------------------------------------------------------------------
(* Commands.                                                                *)

LEMMA BeginKeeps ==
    ASSUME PageInv, NEW c \in Calls, NEW kind \in {"tool", "download"}, Begin(c, kind)
    PROVE  PageInv'
<1> USE PageAssumption DEF PageAssumption, PageInv, Begin, Fresh, recVars
<1>1. Types'
  <2>1. PICK r \in Recs :
           call' = [call EXCEPT ![c] = [pc |-> "lock", kind |-> kind, rec |-> r, conn |-> None]]
    OBVIOUS
  <2>2. [pc |-> "lock", kind |-> kind, rec |-> r, conn |-> None] \in Call BY DEF Call, CallPc
  <2>3. call' \in [Calls -> Call] BY <2>1, <2>2 DEF Types
  <2> QED BY <2>3 DEF Types
<1>2. LockInv' BY DEF Types, LockInv, Holding, Idle, Call
<1>3. BuildInv' BY DEF Types, LockInv, BuildInv, SlotInv, Building, Opened, Holding, Serving, Idle,
  Call, LinkState
<1>4. SlotInv' BY DEF Types, LockInv, BuildInv, SlotInv, Serving, Building, Opened, Holding, NoLoop
<1>5. SessionInv' BY DEF Types, LockInv, BuildInv, SlotInv, SessionInv, Holding, Serving, NoTabs,
  Idle, Call
<1> QED BY <1>1, <1>2, <1>3, <1>4, <1>5

LEMMA LockKeeps ==
    ASSUME PageInv, NEW c \in Calls, Lock(c)
    PROVE  PageInv'
<1> USE PageAssumption DEF PageAssumption, PageInv, Lock, Goto, Unconnected
<1>1. Types'
  <2>1. (IF Unconnected(call[c].rec) THEN "connect" ELSE "handshake") \in CallPc
    BY DEF CallPc
  <2>2. call' \in [Calls -> Call] BY <2>1, CallMoves DEF Types
  <2> QED BY <2>2 DEF Types
<1>2. LockInv' BY DEF Types, LockInv, Holding, Idle, Call
<1>3. BuildInv' BY DEF Types, LockInv, BuildInv, SlotInv, Building, Opened, Holding, Serving, Idle,
  Call, LinkState
<1>4. SlotInv' BY DEF Types, LockInv, BuildInv, SlotInv, Serving, Building, Opened, Holding, NoLoop
<1>5. SessionInv' BY DEF Types, LockInv, BuildInv, SlotInv, SessionInv, Holding, Serving, NoTabs,
  Idle, Call
<1> QED BY <1>1, <1>2, <1>3, <1>4, <1>5

LEMMA ConnectKeeps ==
    ASSUME PageInv, NEW c \in Calls, Connect(c)
    PROVE  PageInv'
<1> USE PageAssumption DEF PageAssumption, PageInv, Connect, recVars
<1>1. Types'
  <2>1. PICK k \in Conns :
           /\ link' = [link EXCEPT ![k] = "open"]
           /\ call' = [call EXCEPT ![c].pc = "autoAttach", ![c].conn = k]
    OBVIOUS
  <2>2. [call[c] EXCEPT !.pc = "autoAttach", !.conn = k] \in Call
    BY DEF Types, Call, CallPc
  <2>3. call' \in [Calls -> Call] BY <2>1, <2>2 DEF Types
  <2>4. link' \in [Conns -> LinkState] BY <2>1 DEF Types, LinkState
  <2> QED BY <2>3, <2>4 DEF Types
<1>2. LockInv' BY DEF Types, LockInv, Holding, Idle, Call
<1>3. BuildInv' BY DEF Types, LockInv, BuildInv, SlotInv, Building, Opened, Holding, Serving, Idle,
  Call, LinkState
<1>4. SlotInv' BY DEF Types, LockInv, BuildInv, SlotInv, Serving, Building, Opened, Holding, NoLoop
<1>5. SessionInv' BY DEF Types, LockInv, BuildInv, SlotInv, SessionInv, Holding, Serving, NoTabs,
  Idle, Call
<1> QED BY <1>1, <1>2, <1>3, <1>4, <1>5

LEMMA AutoAttachKeeps ==
    ASSUME PageInv, NEW c \in Calls, AutoAttach(c)
    PROVE  PageInv'
<1> USE PageAssumption DEF PageAssumption, PageInv, AutoAttach, Goto, recVars
<1>1. Types'
  <2>1. "behavior" \in CallPc BY DEF CallPc
  <2>2. call' \in [Calls -> Call] BY <2>1, CallMoves DEF Types
  <2> QED BY <2>2 DEF Types
<1>2. LockInv' BY DEF Types, LockInv, Holding, Idle, Call
<1>3. BuildInv' BY DEF Types, LockInv, BuildInv, SlotInv, Building, Opened, Holding, Serving, Idle,
  Call, LinkState
<1>4. SlotInv' BY DEF Types, LockInv, BuildInv, SlotInv, Serving, Building, Opened, Holding, NoLoop
<1>5. SessionInv' BY DEF Types, LockInv, BuildInv, SlotInv, SessionInv, Holding, Serving, NoTabs,
  Idle, Call
<1> QED BY <1>1, <1>2, <1>3, <1>4, <1>5

LEMMA InstallKeeps ==
    ASSUME PageInv, NEW c \in Calls, Install(c)
    PROVE  PageInv'
<1> USE PageAssumption DEF PageAssumption, PageInv, Install, Cleared
<1>1. Types'
  <2> DEFINE r == call[c].rec
             l == call[c].conn
  <2>1. r \in Recs /\ l \in Conns BY DEF LockInv, BuildInv, Opened
  <2>2. gen' \in [Recs -> Nat] BY <2>1 DEF Types
  <2>3. tabs' \in [Recs -> [Targets -> Conns \cup {None}]] BY DEF Types, NoTabs
  <2>4. conn' \in [Recs -> Conns \cup {None}] BY <2>1 DEF Types
  <2>5. loop' \in [Conns -> Loop] BY <2>1, <2>2 DEF Types, Loop, LoopPc, NoLoop
  <2>6. [call[c] EXCEPT !.pc = "handshake"] \in Call BY DEF Types, Call, CallPc
  <2>7. Idle \in Call BY DEF Idle, Call, CallPc
  <2>8. call' \in [Calls -> Call] BY <2>6, <2>7 DEF Types
  <2> QED BY <2>2, <2>3, <2>4, <2>5, <2>8 DEF Types
<1>2. LockInv' BY DEF Types, LockInv, Holding, Idle, Call
<1>3. BuildInv' BY DEF Types, LockInv, BuildInv, SlotInv, Building, Opened, Holding, Serving, Idle,
  Call, LinkState
<1>4. SlotInv' BY DEF Types, LockInv, BuildInv, SlotInv, Serving, Building, Opened, Holding, NoLoop
<1>5. SessionInv' BY DEF Types, LockInv, BuildInv, SlotInv, SessionInv, Holding, Serving, NoTabs,
  Idle, Call
<1> QED BY <1>1, <1>2, <1>3, <1>4, <1>5

LEMMA RouteKeeps ==
    ASSUME PageInv, NEW c \in Calls, Route(c)
    PROVE  PageInv'
<1> USE PageAssumption DEF PageAssumption, PageInv, Route, Freed
<1>1. Types'
  <2> DEFINE next == IF call[c].pc = "handshake" /\ call[c].kind = "download"
                     THEN "register" ELSE "tool"
  <2>1. PICK t \in Targets :
           call' = [call EXCEPT ![c].pc = next, ![c].conn = tabs[call[c].rec][t]]
    OBVIOUS
  <2>2. call[c].rec \in Recs BY DEF LockInv
  <2>3. tabs[call[c].rec][t] \in Conns \cup {None} BY <2>2 DEF Types
  <2>4. next \in CallPc BY DEF CallPc
  <2>5. [call[c] EXCEPT !.pc = next, !.conn = tabs[call[c].rec][t]] \in Call
    BY <2>3, <2>4 DEF Types, Call
  <2> HIDE DEF next
  <2>6. call' \in [Calls -> Call] BY <2>1, <2>5 DEF Types
  <2>7. serial' \in [Recs -> Calls \cup {None}] BY DEF Types
  <2> QED BY <2>6, <2>7 DEF Types
<1>2. LockInv' BY DEF Types, LockInv, Holding, Idle, Call
<1>3. BuildInv' BY DEF Types, LockInv, BuildInv, SlotInv, Building, Opened, Holding, Serving, Idle,
  Call, LinkState
<1>4. SlotInv' BY DEF Types, LockInv, BuildInv, SlotInv, Serving, Building, Opened, Holding, NoLoop
<1>5. SessionInv' BY DEF Types, LockInv, BuildInv, SlotInv, SessionInv, Holding, Serving, NoTabs,
  Idle, Call
<1> QED BY <1>1, <1>2, <1>3, <1>4, <1>5

LEMMA SendKeeps ==
    ASSUME PageInv, NEW c \in Calls, Send(c)
    PROVE  PageInv'
<1> USE PageAssumption DEF PageAssumption, PageInv, Send, Goto, recVars
<1>1. Types'
  <2>1. "sent" \in CallPc BY DEF CallPc
  <2>2. call' \in [Calls -> Call] BY <2>1, CallMoves DEF Types
  <2> QED BY <2>2 DEF Types
<1>2. LockInv' BY DEF Types, LockInv, Holding, Idle, Call
<1>3. BuildInv' BY DEF Types, LockInv, BuildInv, SlotInv, Building, Opened, Holding, Serving, Idle,
  Call, LinkState
<1>4. SlotInv' BY DEF Types, LockInv, BuildInv, SlotInv, Serving, Building, Opened, Holding, NoLoop
<1>5. SessionInv' BY DEF Types, LockInv, BuildInv, SlotInv, SessionInv, Holding, Serving, NoTabs,
  Idle, Call
<1> QED BY <1>1, <1>2, <1>3, <1>4, <1>5

LEMMA AnswerKeeps ==
    ASSUME PageInv, NEW c \in Calls, Answer(c)
    PROVE  PageInv'
<1> USE PageAssumption DEF PageAssumption, PageInv, Answer, Goto, recVars
<1>1. Types'
  <2>1. "tool" \in CallPc BY DEF CallPc
  <2>2. call' \in [Calls -> Call] BY <2>1, CallMoves DEF Types
  <2> QED BY <2>2 DEF Types
<1>2. LockInv' BY DEF Types, LockInv, Holding, Idle, Call
<1>3. BuildInv' BY DEF Types, LockInv, BuildInv, SlotInv, Building, Opened, Holding, Serving, Idle,
  Call, LinkState
<1>4. SlotInv' BY DEF Types, LockInv, BuildInv, SlotInv, Serving, Building, Opened, Holding, NoLoop
<1>5. SessionInv' BY DEF Types, LockInv, BuildInv, SlotInv, SessionInv, Holding, Serving, NoTabs,
  Idle, Call
<1> QED BY <1>1, <1>2, <1>3, <1>4, <1>5

LEMMA ReturnKeeps ==
    ASSUME PageInv, NEW c \in Calls, Return(c)
    PROVE  PageInv'
<1> USE PageAssumption DEF PageAssumption, PageInv, Return, Finish, Freed
<1>1. Types'
  <2>1. Idle \in Call BY DEF Idle, Call, CallPc
  <2>2. call' \in [Calls -> Call] BY <2>1 DEF Types
  <2> QED BY <2>2 DEF Types
<1>2. LockInv' BY DEF Types, LockInv, Holding, Idle, Call
<1>3. BuildInv' BY DEF Types, LockInv, BuildInv, SlotInv, Building, Opened, Holding, Serving, Idle,
  Call, LinkState
<1>4. SlotInv' BY DEF Types, LockInv, BuildInv, SlotInv, Serving, Building, Opened, Holding, NoLoop
<1>5. SessionInv' BY DEF Types, LockInv, BuildInv, SlotInv, SessionInv, Holding, Serving, NoTabs,
  Idle, Call
<1> QED BY <1>1, <1>2, <1>3, <1>4, <1>5

LEMMA RegisterWaitKeeps ==
    ASSUME PageInv, NEW c \in Calls, RegisterWait(c)
    PROVE  PageInv'
<1> USE PageAssumption DEF PageAssumption, PageInv, RegisterWait, Goto
<1>1. Types'
  <2>1. "wait" \in CallPc BY DEF CallPc
  <2>2. call' \in [Calls -> Call] BY <2>1, CallMoves DEF Types
  <2> QED BY <2>2 DEF Types
<1>2. LockInv' BY DEF Types, LockInv, Holding, Idle, Call
<1>3. BuildInv' BY DEF Types, LockInv, BuildInv, SlotInv, Building, Opened, Holding, Serving, Idle,
  Call, LinkState
<1>4. SlotInv' BY DEF Types, LockInv, BuildInv, SlotInv, Serving, Building, Opened, Holding, NoLoop
<1>5. SessionInv' BY DEF Types, LockInv, BuildInv, SlotInv, SessionInv, Holding, Serving, NoTabs,
  Idle, Call
<1> QED BY <1>1, <1>2, <1>3, <1>4, <1>5

LEMMA TimeoutWaitKeeps ==
    ASSUME PageInv, NEW c \in Calls, TimeoutWait(c)
    PROVE  PageInv'
<1> USE PageAssumption DEF PageAssumption, PageInv, TimeoutWait
<1>1. Types'
  <2>1. Idle \in Call BY DEF Idle, Call, CallPc
  <2>2. call' \in [Calls -> Call] BY <2>1 DEF Types
  <2> QED BY <2>2 DEF Types
<1>2. LockInv' BY DEF Types, LockInv, Holding, Idle, Call
<1>3. BuildInv' BY DEF Types, LockInv, BuildInv, SlotInv, Building, Opened, Holding, Serving, Idle,
  Call, LinkState
<1>4. SlotInv' BY DEF Types, LockInv, BuildInv, SlotInv, Serving, Building, Opened, Holding, NoLoop
<1>5. SessionInv' BY DEF Types, LockInv, BuildInv, SlotInv, SessionInv, Holding, Serving, NoTabs,
  Idle, Call
<1> QED BY <1>1, <1>2, <1>3, <1>4, <1>5

-----------------------------------------------------------------------------
(* The event loop and the browser.                                          *)

\* What receiving an event may do, whatever the event: the loop leaves, it starts
\* to enable a target whose session it has put into the table, a session goes,
\* a download-wait ends.
Received(k) ==
    /\ loop[k].pc = "recv"
    /\ inbox' \in [Conns -> Seq(Event)]
    /\ UNCHANGED <<conn, gen, serial, link>>
    /\ \/ \E t \in Targets :
             /\ tabs' = [tabs EXCEPT ![loop[k].rec][t] = k]
             /\ loop' = [loop EXCEPT ![k].pc = "enable", ![k].tid = t]
             /\ UNCHANGED call
       \/ \E t \in Targets :
             /\ tabs' = [tabs EXCEPT ![loop[k].rec][t] = None]
             /\ UNCHANGED <<loop, call>>
       \/ loop' = [loop EXCEPT ![k].pc = "done"] /\ UNCHANGED <<tabs, call>>
       \/ UNCHANGED <<tabs, loop, call>>
       \/ \E c \in Calls : call' = [call EXCEPT ![c] = Idle] /\ UNCHANGED <<tabs, loop>>

LEMMA ReceiveIsReceived ==
    ASSUME PageInv, NEW k \in Conns, Receive(k)
    PROVE  Received(k)
<1> DEFINE e == Head(inbox[k])
<1> USE DEF PageInv, Receive, LoopGoto, recVars
<1>1. inbox[k] \in Seq(Event) /\ inbox[k] # <<>> BY DEF Types
<1>2. e \in Event /\ Tail(inbox[k]) \in Seq(Event) BY <1>1
<1>3. inbox' \in [Conns -> Seq(Event)] BY <1>2 DEF Types
<1>4. e.type \in {"attached", "detached"} => e.tid \in Targets BY <1>2 DEF Event
<1>5. CASE gen[loop[k].rec] # loop[k].gen BY <1>3, <1>5 DEF Received
<1>6. CASE gen[loop[k].rec] = loop[k].gen
  <2>1. CASE e.type = "attached" /\ OnAttached(k, loop[k].rec, e.tid)
    BY <1>3, <1>4, <2>1, <1>6 DEF Received, OnAttached
  <2>2. CASE e.type = "detached" /\ OnDetached(k, loop[k].rec, e.tid)
    BY <1>3, <1>4, <2>2, <1>6 DEF Received, OnDetached
  <2>3. CASE OnDownloadBegin(loop[k].rec, e.file)
    BY <1>3, <2>3, <1>6 DEF Received, OnDownloadBegin
  <2>4. CASE OnDownloadEnd(loop[k].rec, e.file)
    <3>1. UNCHANGED <<tabs, loop>> BY <2>4 DEF OnDownloadEnd
    <3>2. PICK x : UNCHANGED call \/ call' = [call EXCEPT ![x] = Idle]
      BY <2>4 DEF OnDownloadEnd
    <3>3. UNCHANGED call \/ x \in Calls
      BY <3>2 DEF Types
    <3> QED BY <1>3, <3>1, <3>2, <3>3, <1>6 DEF Received
  <2> QED BY <1>6, <2>1, <2>2, <2>3, <2>4
<1> QED BY <1>5, <1>6

LEMMA ReceiveKeeps ==
    ASSUME PageInv, NEW k \in Conns, Receive(k)
    PROVE  PageInv'
<1> USE PageAssumption DEF PageAssumption, PageInv
<1>0. Received(k) BY ReceiveIsReceived
<1>1. /\ loop[k].pc = "recv"
      /\ inbox' \in [Conns -> Seq(Event)]
      /\ UNCHANGED <<conn, gen, serial, link>>
  BY <1>0 DEF Received
<1>2. loop[k].rec \in Recs /\ conn[loop[k].rec] = k BY <1>1 DEF SlotInv, Serving
<1>3. CASE \E t \in Targets :
             /\ tabs' = [tabs EXCEPT ![loop[k].rec][t] = k]
             /\ loop' = [loop EXCEPT ![k].pc = "enable", ![k].tid = t]
             /\ UNCHANGED call
  <2>1. PICK t \in Targets :
             /\ tabs' = [tabs EXCEPT ![loop[k].rec][t] = k]
             /\ loop' = [loop EXCEPT ![k].pc = "enable", ![k].tid = t]
             /\ UNCHANGED call
    BY <1>3
  <2>2. Types'
    <3>1. [loop[k] EXCEPT !.pc = "enable", !.tid = t] \in Loop BY DEF Types, Loop, LoopPc
    <3>2. loop' \in [Conns -> Loop] BY <2>1, <3>1 DEF Types
    <3>3. tabs' \in [Recs -> [Targets -> Conns \cup {None}]] BY <1>2, <2>1 DEF Types
    <3> QED BY <1>1, <2>1, <3>2, <3>3 DEF Types
  <2>3. LockInv' BY <1>1, <1>2, <2>1 DEF Types, LockInv, Holding, Loop
  <2>4. BuildInv' BY <1>1, <1>2, <2>1 DEF Types, BuildInv, Building, Opened, SlotInv, Serving, Loop
  <2>5. SlotInv' BY <1>1, <1>2, <2>1 DEF Types, SlotInv, Serving, Loop
  <2>6. SessionInv' BY <1>1, <1>2, <2>1 DEF Types, SlotInv, SessionInv, Serving, Loop
  <2> QED BY <2>2, <2>3, <2>4, <2>5, <2>6
<1>4. CASE \E t \in Targets :
             /\ tabs' = [tabs EXCEPT ![loop[k].rec][t] = None]
             /\ UNCHANGED <<loop, call>>
  <2>1. PICK t \in Targets :
             /\ tabs' = [tabs EXCEPT ![loop[k].rec][t] = None]
             /\ UNCHANGED <<loop, call>>
    BY <1>4
  <2>2. Types' BY <1>1, <1>2, <2>1 DEF Types
  <2>3. LockInv' BY <1>1, <1>2, <2>1 DEF Types, LockInv, Holding
  <2>4. BuildInv' BY <1>1, <1>2, <2>1 DEF Types, BuildInv, Building, Opened, SlotInv, Serving
  <2>5. SlotInv' BY <1>1, <1>2, <2>1 DEF Types, SlotInv, Serving
  <2>6. SessionInv' BY <1>1, <1>2, <2>1 DEF Types, SlotInv, SessionInv, Serving
  <2> QED BY <2>2, <2>3, <2>4, <2>5, <2>6
<1>5. CASE loop' = [loop EXCEPT ![k].pc = "done"] /\ UNCHANGED <<tabs, call>>
  <2>1. "done" \in LoopPc BY DEF LoopPc
  <2>2. Types' BY <1>1, <1>5, <2>1, LoopMoves DEF Types
  <2>3. LockInv' BY <1>1, <1>2, <1>5 DEF Types, LockInv, Holding, Loop
  <2>4. BuildInv' BY <1>1, <1>2, <1>5 DEF Types, BuildInv, Building, Opened, SlotInv, Serving, Loop
  <2>5. SlotInv' BY <1>1, <1>2, <1>5 DEF Types, SlotInv, Serving, Loop
  <2>6. SessionInv' BY <1>1, <1>2, <1>5 DEF Types, SlotInv, SessionInv, Serving, Loop
  <2> QED BY <2>2, <2>3, <2>4, <2>5, <2>6
<1>6. CASE UNCHANGED <<tabs, loop, call>>
  <2>2. Types' BY <1>1, <1>6 DEF Types
  <2>3. LockInv' BY <1>1, <1>2, <1>6 DEF Types, LockInv, Holding
  <2>4. BuildInv' BY <1>1, <1>2, <1>6 DEF Types, BuildInv, Building, Opened, SlotInv, Serving
  <2>5. SlotInv' BY <1>1, <1>2, <1>6 DEF Types, SlotInv, Serving
  <2>6. SessionInv' BY <1>1, <1>2, <1>6 DEF Types, SlotInv, SessionInv, Serving
  <2> QED BY <2>2, <2>3, <2>4, <2>5, <2>6
<1>7. CASE \E c \in Calls : call' = [call EXCEPT ![c] = Idle] /\ UNCHANGED <<tabs, loop>>
  <2>1. PICK c \in Calls : call' = [call EXCEPT ![c] = Idle] /\ UNCHANGED <<tabs, loop>>
    BY <1>7
  <2>2. Types'
    <3>1. Idle \in Call BY DEF Idle, Call, CallPc
    <3> QED BY <1>1, <2>1, <3>1 DEF Types
  <2>3. LockInv' BY <1>1, <1>2, <2>1 DEF Types, LockInv, Holding, Idle
  <2>4. BuildInv' BY <1>1, <1>2, <2>1 DEF Types, BuildInv, Building, Opened, SlotInv, Serving, Idle
  <2>5. SlotInv' BY <1>1, <1>2, <2>1 DEF Types, SlotInv, Serving, Idle
  <2>6. SessionInv' BY <1>1, <1>2, <2>1 DEF Types, SlotInv, SessionInv, Serving, Idle
  <2> QED BY <2>2, <2>3, <2>4, <2>5, <2>6
<1> QED BY <1>0, <1>3, <1>4, <1>5, <1>6, <1>7 DEF Received

LEMMA EnabledKeeps ==
    ASSUME PageInv, NEW k \in Conns, Enabled(k)
    PROVE  PageInv'
<1> USE PageAssumption DEF PageAssumption, PageInv, Enabled
<1>1. Types'
  <2>1. [loop[k] EXCEPT !.pc = "recv", !.tid = None] \in Loop BY DEF Types, Loop, LoopPc
  <2>2. loop' \in [Conns -> Loop] BY <2>1 DEF Types
  <2> QED BY <2>2 DEF Types
<1>2. LockInv' BY DEF Types, LockInv, Holding, Idle, Call
<1>3. BuildInv' BY DEF Types, LockInv, BuildInv, SlotInv, Building, Opened, Holding, Serving, Idle,
  Call, LinkState
<1>4. SlotInv' BY DEF Types, LockInv, BuildInv, SlotInv, Serving, Building, Opened, Holding, NoLoop
<1>5. SessionInv' BY DEF Types, LockInv, BuildInv, SlotInv, SessionInv, Holding, Serving, NoTabs,
  Idle, Call
<1> QED BY <1>1, <1>2, <1>3, <1>4, <1>5

LEMMA LoopEndKeeps ==
    ASSUME PageInv, NEW k \in Conns, LoopEnd(k)
    PROVE  PageInv'
<1> USE PageAssumption DEF PageAssumption, PageInv, LoopEnd, LoopGoto
<1>1. Types'
  <2>1. "cleared" \in LoopPc BY DEF LoopPc
  <2>2. loop' \in [Conns -> Loop] BY <2>1, LoopMoves DEF Types
  <2>3. conn' \in [Recs -> Conns \cup {None}] BY DEF Types
  <2> QED BY <2>2, <2>3 DEF Types
<1>2. LockInv' BY DEF Types, LockInv, Holding, Idle, Call
<1>3. BuildInv' BY DEF Types, LockInv, BuildInv, SlotInv, Building, Opened, Holding, Serving, Idle,
  Call, LinkState
<1>4. SlotInv' BY DEF Types, LockInv, BuildInv, SlotInv, Serving, Building, Opened, Holding, NoLoop
<1>5. SessionInv' BY DEF Types, LockInv, BuildInv, SlotInv, SessionInv, Holding, Serving, NoTabs,
  Idle, Call
<1> QED BY <1>1, <1>2, <1>3, <1>4, <1>5

LEMMA LoopCompareKeeps ==
    ASSUME PageInv, NEW k \in Conns, LoopCompare(k)
    PROVE  PageInv'
<1> USE PageAssumption DEF PageAssumption, PageInv, LoopCompare, LoopGoto, recVars
<1>1. Types'
  <2>1. (IF gen[loop[k].rec] = loop[k].gen THEN "current" ELSE "done") \in LoopPc
    BY DEF LoopPc
  <2>2. loop' \in [Conns -> Loop] BY <2>1, LoopMoves DEF Types
  <2> QED BY <2>2 DEF Types
<1>2. LockInv' BY DEF Types, LockInv, Holding, Idle, Call
<1>3. BuildInv' BY DEF Types, LockInv, BuildInv, SlotInv, Building, Opened, Holding, Serving, Idle,
  Call, LinkState
<1>4. SlotInv' BY DEF Types, LockInv, BuildInv, SlotInv, Serving, Building, Opened, Holding, NoLoop
<1>5. SessionInv' BY DEF Types, LockInv, BuildInv, SlotInv, SessionInv, Holding, Serving, NoTabs,
  Idle, Call
<1> QED BY <1>1, <1>2, <1>3, <1>4, <1>5

LEMMA LoopRemoveKeeps ==
    ASSUME PageInv, NEW k \in Conns, LoopRemove(k)
    PROVE  PageInv'
<1> USE PageAssumption DEF PageAssumption, PageInv, LoopRemove, LoopGoto, recVars
<1>1. Types'
  <2>1. "done" \in LoopPc BY DEF LoopPc
  <2>2. loop' \in [Conns -> Loop] BY <2>1, LoopMoves DEF Types
  <2> QED BY <2>2 DEF Types
<1>2. LockInv' BY DEF Types, LockInv, Holding, Idle, Call
<1>3. BuildInv' BY DEF Types, LockInv, BuildInv, SlotInv, Building, Opened, Holding, Serving, Idle,
  Call, LinkState
<1>4. SlotInv' BY DEF Types, LockInv, BuildInv, SlotInv, Serving, Building, Opened, Holding, NoLoop
<1>5. SessionInv' BY DEF Types, LockInv, BuildInv, SlotInv, SessionInv, Holding, Serving, NoTabs,
  Idle, Call
<1> QED BY <1>1, <1>2, <1>3, <1>4, <1>5

LEMMA EmitKeeps ==
    ASSUME PageInv, NEW k \in Conns, NEW e \in Event, Emit(k, e)
    PROVE  PageInv'
<1> USE PageAssumption DEF PageAssumption, PageInv, Emit, recVars
<1>1. Types' BY DEF Types, LinkState
<1>2. LockInv' BY DEF Types, LockInv, Holding, Idle, Call
<1>3. BuildInv' BY DEF Types, LockInv, BuildInv, SlotInv, Building, Opened, Holding, Serving, Idle,
  Call, LinkState
<1>4. SlotInv' BY DEF Types, LockInv, BuildInv, SlotInv, Serving, Building, Opened, Holding, NoLoop
<1>5. SessionInv' BY DEF Types, LockInv, BuildInv, SlotInv, SessionInv, Holding, Serving, NoTabs,
  Idle, Call
<1> QED BY <1>1, <1>2, <1>3, <1>4, <1>5

LEMMA LinkDiesKeeps ==
    ASSUME PageInv, NEW k \in Conns, LinkDies(k)
    PROVE  PageInv'
<1> USE PageAssumption DEF PageAssumption, PageInv, LinkDies, recVars
<1>1. Types' BY DEF Types, LinkState
<1>2. LockInv' BY DEF Types, LockInv, Holding, Idle, Call
<1>3. BuildInv' BY DEF Types, LockInv, BuildInv, SlotInv, Building, Opened, Holding, Serving, Idle,
  Call, LinkState
<1>4. SlotInv' BY DEF Types, LockInv, BuildInv, SlotInv, Serving, Building, Opened, Holding, NoLoop
<1>5. SessionInv' BY DEF Types, LockInv, BuildInv, SlotInv, SessionInv, Holding, Serving, NoTabs,
  Idle, Call
<1> QED BY <1>1, <1>2, <1>3, <1>4, <1>5

-----------------------------------------------------------------------------
(* The specification.                                                       *)

LEMMA StepKeepsPage == PageInv /\ [Next]_vars => PageInv'
<1> SUFFICES ASSUME PageInv, [Next]_vars PROVE PageInv'
  OBVIOUS
<1>1. CASE \E c \in Calls, kind \in {"tool", "download"} : Begin(c, kind)
  BY <1>1, BeginKeeps
<1>2. CASE \E c \in Calls : CallStep(c)
  BY <1>2, LockKeeps, ConnectKeeps, AutoAttachKeeps, InstallKeeps, RouteKeeps, SendKeeps,
     AnswerKeeps, ReturnKeeps, RegisterWaitKeeps, TimeoutWaitKeeps
  DEF CallStep
<1>3. CASE \E k \in Conns : LoopStep(k) \/ LinkDies(k)
  BY <1>3, ReceiveKeeps, EnabledKeeps, LoopEndKeeps, LoopCompareKeeps, LoopRemoveKeeps,
    LinkDiesKeeps
  DEF LoopStep
<1>4. CASE \E k \in Conns, e \in Event : Emit(k, e)
  BY <1>4, EmitKeeps
<1>5. CASE UNCHANGED vars
  BY <1>5 DEF vars, recVars, PageInv, Types, LockInv, BuildInv, SlotInv, SessionInv, Serving
<1> QED BY <1>1, <1>2, <1>3, <1>4, <1>5 DEF Next

\* A record is served by the loop of one connection at a time (watch_loop): a
\* connection is replaced only after its loop has emptied the slot.
THEOREM OneLoopServes == Spec => []OneLoop
<1>1. Spec => []PageInv BY InitPage, StepKeepsPage, PTL DEF Spec
<1> QED BY <1>1, PageInvImplies, PTL

\* No tool sends a session over another connection than the one it came from:
\* establish clears the sessions before it fills the slot, and holds the lock.
THEOREM SessionsStay == Spec => []SessionsMatch
<1>1. Spec => []PageInv BY InitPage, StepKeepsPage, PTL DEF Spec
<1> QED BY <1>1, PageInvImplies, PTL

-----------------------------------------------------------------------------
(* The lock of a record and its queue of waits.                             *)

\* Who holds the lock of a record is a command that runs behind it.
HeldInv == \A c \in Calls, r \in Recs :
    serial[r] = c => call[c].pc \in Holding /\ call[c].rec = r

\* A live sender in a queue belongs to a command that waits there, and is its
\* only one: a download that ends ends no command that holds a lock.
WaitInv ==
    /\ waiters \in [Recs -> Seq(Calls \cup {None})]
    /\ \A r \in Recs : \A i \in DOMAIN waiters[r] :
          waiters[r][i] # None =>
             /\ call[waiters[r][i]].pc = "wait" /\ call[waiters[r][i]].rec = r
             /\ \A j \in DOMAIN waiters[r] : waiters[r][j] = waiters[r][i] => j = i

LocksInv == PageInv /\ HeldInv /\ WaitInv

LEMMA InitLocks == Init => LocksInv
<1> SUFFICES ASSUME Init PROVE LocksInv
  OBVIOUS
<1>1. HeldInv BY PageAssumption DEF PageAssumption, Init, HeldInv
<1>2. WaitInv BY DEF Init, WaitInv
<1> QED BY <1>1, <1>2, InitPage DEF LocksInv

\* Steps that leave the queues, and every command that waits in one, alone.
LEMMA QueuesStay ==
    ASSUME WaitInv, UNCHANGED waiters,
           \A c \in Calls : call[c].pc = "wait" => call'[c] = call[c]
    PROVE  WaitInv'
<1> SUFFICES ASSUME NEW r \in Recs, NEW i \in DOMAIN waiters[r], waiters[r][i] # None
             PROVE  call'[waiters[r][i]] = call[waiters[r][i]]
  BY DEF WaitInv
<1>1. waiters[r][i] \in Calls BY DEF WaitInv
<1> QED BY <1>1 DEF WaitInv

\* Commands that only move on between places behind the lock keep it.
LEMMA HeldStays ==
    ASSUME HeldInv, UNCHANGED serial,
           \A c \in Calls : call[c].pc \in Holding =>
              call'[c].pc \in Holding /\ call'[c].rec = call[c].rec
    PROVE  HeldInv'
BY DEF HeldInv

LEMMA GotoMoves ==
    ASSUME Types, NEW c \in Calls, NEW pc, Goto(c, pc)
    PROVE  /\ call'[c].pc = pc /\ call'[c].rec = call[c].rec
           /\ \A d \in Calls \ {c} : call'[d] = call[d]
BY DEF Goto, Types, Call

\* Whoever gives the lock back may do what it likes.
LEMMA HeldEnds ==
    ASSUME HeldInv, Types, NEW c \in Calls, serial' = Freed(c),
           \A d \in Calls \ {c} : call'[d] = call[d]
    PROVE  HeldInv'
<1>1. \A d \in Calls, r \in Recs : serial'[r] = d => d # c /\ serial[r] = d
  BY PageAssumption DEF PageAssumption, Freed, Types
<1> QED BY <1>1 DEF HeldInv

LEMMA BeginKeepsLocks ==
    ASSUME LocksInv, NEW c \in Calls, NEW kind \in {"tool", "download"}, Begin(c, kind)
    PROVE  HeldInv' /\ WaitInv'
<1> USE DEF LocksInv, PageInv, Begin, recVars
<1>1. HeldInv' BY DEF HeldInv, Types, Call, Holding
<1>2. WaitInv' BY QueuesStay DEF Types
<1> QED BY <1>1, <1>2

\* A command that changes its place outside the queue.
LEMMA PlainCallKeepsLocks ==
    ASSUME LocksInv, NEW c \in Calls,
           \/ Lock(c) \/ Connect(c) \/ AutoAttach(c) \/ Route(c)
           \/ Send(c) \/ Answer(c) \/ Return(c)
    PROVE  HeldInv' /\ WaitInv'
<1> USE PageAssumption DEF PageAssumption, LocksInv, PageInv
<1>1. WaitInv'
  <2>1. UNCHANGED waiters /\ call[c].pc # "wait"
    BY DEF Lock, Connect, AutoAttach, Route, Send, Answer, Return, recVars, Holding
  <2>2. \A d \in Calls : d # c => call'[d] = call[d]
    BY DEF Lock, Connect, AutoAttach, Route, Send, Answer, Return, Finish, Goto, Types
  <2> QED BY <2>1, <2>2, QueuesStay
<1>2. HeldInv'
  <2>1. CASE Lock(c)
    <3>1. PICK pc \in {"connect", "handshake"} : Goto(c, pc)
      BY <2>1 DEF Lock
    <3>2. serial' = [serial EXCEPT ![call[c].rec] = c] /\ call[c].pc = "lock"
      BY <2>1 DEF Lock
    <3>3. \A r \in Recs : serial[r] # c
      BY <3>2 DEF HeldInv, Holding
    <3>4. \A d \in Calls, r \in Recs :
            serial'[r] = d => (d = c /\ r = call[c].rec) \/ (d # c /\ serial[r] = d)
      BY <3>2, <3>3 DEF Types
    <3>5. /\ call'[c].pc = pc /\ call'[c].rec = call[c].rec
          /\ \A d \in Calls \ {c} : call'[d] = call[d]
      BY <3>1, GotoMoves
    <3> QED BY <3>4, <3>5 DEF HeldInv, Holding
  <2>2. CASE Connect(c)
    <3>1. PICK k \in Conns : call' = [call EXCEPT ![c].pc = "autoAttach", ![c].conn = k]
      BY <2>2 DEF Connect
    <3>2. /\ call'[c].pc \in Holding /\ call'[c].rec = call[c].rec
          /\ \A d \in Calls \ {c} : call'[d] = call[d]
      BY <3>1 DEF Types, Call, Holding
    <3>3. UNCHANGED serial
      BY <2>2 DEF Connect, recVars
    <3> QED BY <3>2, <3>3, HeldStays
  <2>3. CASE AutoAttach(c)
    <3>1. UNCHANGED serial /\ Goto(c, "behavior") /\ "behavior" \in Holding
      BY <2>3 DEF AutoAttach, recVars, Holding
    <3>2. /\ call'[c].pc \in Holding /\ call'[c].rec = call[c].rec
          /\ \A d \in Calls \ {c} : call'[d] = call[d]
      BY <3>1, GotoMoves
    <3> QED BY <3>1, <3>2, HeldStays
  <2>4. CASE Route(c)
    <3>1. call[c].pc = "handshake" /\ \A d \in Calls \ {c} : call'[d] = call[d]
      BY <2>4 DEF Route, Types
    <3>2. CASE call[c].kind = "download"
      BY <2>4, <3>1, <3>2, HeldEnds DEF Route
    <3>3. CASE call[c].kind # "download"
      <4>1. PICK t \in Targets :
               call' = [call EXCEPT ![c].pc = "tool", ![c].conn = tabs[call[c].rec][t]]
        BY <2>4, <3>3 DEF Route
      <4>2. call'[c].pc \in Holding /\ call'[c].rec = call[c].rec
        BY <4>1 DEF Types, Call, Holding
      <4>3. UNCHANGED serial
        BY <2>4, <3>3 DEF Route
      <4> QED BY <3>1, <4>2, <4>3, HeldStays
    <3> QED BY <3>2, <3>3
  <2>5. CASE Send(c) \/ Answer(c)
    <3>1. PICK pc \in {"tool", "sent"} : Goto(c, pc)
      BY <2>5 DEF Send, Answer
    <3>2. /\ call'[c].pc \in Holding /\ call'[c].rec = call[c].rec
          /\ \A d \in Calls \ {c} : call'[d] = call[d]
      BY <3>1, GotoMoves DEF Holding
    <3>3. UNCHANGED serial
      BY <2>5 DEF Send, Answer, recVars
    <3> QED BY <3>2, <3>3, HeldStays
  <2>6. CASE Return(c) BY <2>6, HeldEnds DEF Return, Finish, Types
  <2> QED BY <2>1, <2>2, <2>3, <2>4, <2>5, <2>6
<1> QED BY <1>1, <1>2

LEMMA InstallKeepsLocks ==
    ASSUME LocksInv, NEW c \in Calls, Install(c)
    PROVE  HeldInv' /\ WaitInv'
<1> USE DEF LocksInv, PageInv
<1> DEFINE r == call[c].rec
<1> DEFINE Listening == {waiters[r][i] : i \in DOMAIN waiters[r]}
<1>1. /\ call[c].pc = "behavior" /\ UNCHANGED serial
      /\ waiters' = [waiters EXCEPT ![r] = <<>>]
      /\ call' = [d \in Calls |->
                    IF d = c THEN [call[c] EXCEPT !.pc = "handshake"]
                    ELSE IF call[d].pc = "wait" /\ d \in Listening THEN Idle ELSE call[d]]
  BY DEF Install
<1>2. /\ call'[c].pc = "handshake" /\ call'[c].rec = r
      /\ \A d \in Calls \ {c} :
            call'[d] = call[d] \/ (call[d].pc = "wait" /\ d \in Listening)
  <2> HIDE DEF Listening
  <2>1. call'[c] = [call[c] EXCEPT !.pc = "handshake"] /\ call[c] \in Call
    BY <1>1 DEF Types
  <2>2. \A d \in Calls \ {c} :
            call'[d] = call[d] \/ (call[d].pc = "wait" /\ d \in Listening)
    BY <1>1
  <2> QED BY <2>1, <2>2 DEF Call
<1>3. HeldInv'
  <2> HIDE DEF Listening
  <2>1. \A d \in Calls : call[d].pc \in Holding =>
           call'[d].pc \in Holding /\ call'[d].rec = call[d].rec
    BY <1>1, <1>2 DEF Holding
  <2> QED BY <1>1, <2>1, HeldStays
<1>4. WaitInv'
  <2>0. waiters \in [Recs -> Seq(Calls \cup {None})] /\ <<>> \in Seq(Calls \cup {None})
    BY DEF WaitInv
  <2> HIDE DEF Listening, r
  <2>1. waiters' \in [Recs -> Seq(Calls \cup {None})]
    BY <1>1, <2>0
  <2>2. \A q \in Recs : q # r => waiters'[q] = waiters[q]
    BY <1>1, <2>0
  <2>3. r \in Recs /\ waiters'[r] = <<>>
    BY <1>1, <2>0 DEF r, LockInv
  <2>4. ASSUME NEW q \in Recs, q # r, NEW i \in DOMAIN waiters[q], waiters[q][i] # None
        PROVE  call'[waiters[q][i]] = call[waiters[q][i]]
    <3>1. waiters[q][i] \in Calls /\ call[waiters[q][i]].pc = "wait"
          /\ call[waiters[q][i]].rec = q
      BY <2>4 DEF WaitInv
    <3>2. \A j \in DOMAIN waiters[r] : waiters[r][j] # waiters[q][i]
      BY <2>3, <2>4, <3>1 DEF WaitInv
    <3>3. waiters[q][i] # c
      BY <1>1, <3>1
    <3>4. waiters[q][i] \notin Listening
      BY <3>2 DEF Listening
    <3> QED BY <1>2, <3>1, <3>3, <3>4
  <2>5. ASSUME NEW q \in Recs, NEW i \in DOMAIN waiters'[q], waiters'[q][i] # None
        PROVE  /\ call'[waiters'[q][i]].pc = "wait" /\ call'[waiters'[q][i]].rec = q
               /\ \A j \in DOMAIN waiters'[q] : waiters'[q][j] = waiters'[q][i] => j = i
    <3>1. q # r
      BY <2>3, <2>5
    <3>2. waiters'[q] = waiters[q]
      BY <2>2, <3>1
    <3> QED BY <2>4, <2>5, <3>1, <3>2 DEF WaitInv
  <2> QED BY <2>1, <2>5 DEF WaitInv
<1> QED BY <1>3, <1>4

LEMMA RegisterWaitKeepsLocks ==
    ASSUME LocksInv, NEW c \in Calls, RegisterWait(c)
    PROVE  HeldInv' /\ WaitInv'
<1> USE DEF LocksInv, PageInv
<1> DEFINE r == call[c].rec
<1>1. /\ call[c].pc = "register" /\ UNCHANGED serial /\ Goto(c, "wait")
      /\ waiters' = [waiters EXCEPT ![r] = Append(@, c)]
  BY DEF RegisterWait
<1>2. /\ call'[c].pc = "wait" /\ call'[c].rec = r
      /\ \A d \in Calls \ {c} : call'[d] = call[d]
  BY <1>1, GotoMoves
<1>3. r \in Recs /\ waiters[r] \in Seq(Calls \cup {None})
  BY <1>1 DEF LockInv, WaitInv
<1>4. HeldInv'
  BY <1>1, <1>2, HeldStays DEF Holding
<1> HIDE DEF r
<1>5. /\ waiters'[r] = Append(waiters[r], c)
      /\ \A q \in Recs \ {r} : waiters'[q] = waiters[q]
  BY <1>1, <1>3 DEF WaitInv
<1>6. waiters' \in [Recs -> Seq(Calls \cup {None})]
  <2>1. Append(waiters[r], c) \in Seq(Calls \cup {None})
    BY <1>3
  <2> QED BY <1>1, <2>1 DEF WaitInv
<1>7. \A q \in Recs : \A i \in DOMAIN waiters[q] :
        waiters[q][i] # None => waiters[q][i] \in Calls \ {c}
  BY <1>1 DEF WaitInv
<1>8. ASSUME NEW q \in Recs, NEW i \in DOMAIN waiters'[q], waiters'[q][i] # None
      PROVE  /\ call'[waiters'[q][i]].pc = "wait" /\ call'[waiters'[q][i]].rec = q
             /\ \A j \in DOMAIN waiters'[q] : waiters'[q][j] = waiters'[q][i] => j = i
  <2>1. CASE q # r
    <3>1. waiters'[q] = waiters[q]
      BY <1>5, <2>1
    <3>2. call'[waiters[q][i]] = call[waiters[q][i]]
      BY <1>2, <1>7, <1>8, <3>1
    <3> QED BY <1>8, <3>1, <3>2 DEF WaitInv
  <2>2. CASE q = r
    <3> DEFINE n == Len(waiters[r])
    <3>1. /\ n \in Nat /\ DOMAIN waiters[r] = 1..n
          /\ DOMAIN waiters'[r] = 1..(n + 1) /\ waiters'[r][n + 1] = c
          /\ \A j \in 1..n : waiters'[r][j] = waiters[r][j]
      BY <1>3, <1>5
    <3>2. c # None
      BY PageAssumption DEF PageAssumption
    <3> HIDE DEF n
    <3>3. CASE i = n + 1
      <4>1. \A j \in 1..n : waiters'[r][j] # c
        BY <1>3, <1>7, <3>1, <3>2
      <4> QED BY <1>2, <2>2, <3>1, <3>3, <4>1
    <3>4. CASE i \in 1..n
      <4>1. waiters[r][i] # None /\ waiters'[r][i] = waiters[r][i]
        BY <1>8, <2>2, <3>1, <3>4
      <4>2. waiters[r][i] \in Calls \ {c}
        BY <1>3, <1>7, <3>1, <3>4, <4>1
      <4>3. call'[waiters[r][i]] = call[waiters[r][i]]
        BY <1>2, <4>2
      <4>4. /\ call[waiters[r][i]].pc = "wait" /\ call[waiters[r][i]].rec = r
            /\ \A j \in 1..n : waiters[r][j] = waiters[r][i] => j = i
        BY <1>3, <3>1, <3>4, <4>1 DEF WaitInv
      <4>5. \A j \in 1..(n + 1) : waiters'[r][j] = waiters'[r][i] => j = i
        BY <3>1, <4>1, <4>2, <4>4
      <4> QED BY <2>2, <3>1, <4>1, <4>3, <4>4, <4>5
    <3> QED BY <1>8, <2>2, <3>1, <3>3, <3>4
  <2> QED BY <2>1, <2>2
<1> QED BY <1>4, <1>6, <1>8 DEF WaitInv

LEMMA TimeoutWaitKeepsLocks ==
    ASSUME LocksInv, NEW c \in Calls, TimeoutWait(c)
    PROVE  HeldInv' /\ WaitInv'
<1> USE DEF LocksInv, PageInv
<1>1. /\ call[c].pc = "wait" /\ UNCHANGED serial
      /\ \A d \in Calls \ {c} : call'[d] = call[d]
  BY DEF TimeoutWait, Types
<1>2. HeldInv'
  BY <1>1, HeldStays DEF Holding
<1>3. waiters' = [r \in Recs |->
                    [i \in DOMAIN waiters[r] |->
                       IF waiters[r][i] = c THEN None ELSE waiters[r][i]]]
  BY DEF TimeoutWait
<1>4. ASSUME NEW r \in Recs
      PROVE  /\ waiters'[r] \in Seq(Calls \cup {None})
             /\ DOMAIN waiters'[r] = DOMAIN waiters[r]
             /\ \A i \in DOMAIN waiters[r] :
                   waiters'[r][i] = IF waiters[r][i] = c THEN None ELSE waiters[r][i]
  <2>1. waiters[r] \in Seq(Calls \cup {None})
    BY DEF WaitInv
  <2>2. /\ Len(waiters[r]) \in Nat /\ DOMAIN waiters[r] = 1..Len(waiters[r])
        /\ \A i \in 1..Len(waiters[r]) : waiters[r][i] \in Calls \cup {None}
    BY <2>1
  <2>3. waiters'[r] = [i \in 1..Len(waiters[r]) |->
                         IF waiters[r][i] = c THEN None ELSE waiters[r][i]]
    BY <1>3, <2>2
  <2> DEFINE q == [i \in 1..Len(waiters[r]) |->
                     IF waiters[r][i] = c THEN None ELSE waiters[r][i]]
  <2>4. q \in [1..Len(waiters[r]) -> Calls \cup {None}]
    BY <2>2
  <2>5. q \in Seq(Calls \cup {None})
    BY <2>2, <2>4
  <2> QED BY <2>2, <2>3, <2>5
<1>5. waiters' \in [Recs -> Seq(Calls \cup {None})]
  BY <1>3, <1>4
<1>6. ASSUME NEW q \in Recs, NEW i \in DOMAIN waiters'[q], waiters'[q][i] # None
      PROVE  /\ call'[waiters'[q][i]].pc = "wait" /\ call'[waiters'[q][i]].rec = q
             /\ \A j \in DOMAIN waiters'[q] : waiters'[q][j] = waiters'[q][i] => j = i
  <2>1. i \in DOMAIN waiters[q] /\ waiters'[q][i] = waiters[q][i] /\ waiters[q][i] # c
    BY <1>4, <1>6
  <2>2. waiters[q][i] \in Calls
    BY <1>6, <2>1 DEF WaitInv
  <2>3. call'[waiters[q][i]] = call[waiters[q][i]]
    BY <1>1, <2>1, <2>2
  <2>4. \A j \in DOMAIN waiters[q] : waiters'[q][j] \in {None, waiters[q][j]}
    BY <1>4
  <2>5. /\ call[waiters[q][i]].pc = "wait" /\ call[waiters[q][i]].rec = q
        /\ \A j \in DOMAIN waiters[q] : waiters[q][j] = waiters[q][i] => j = i
    BY <1>6, <2>1 DEF WaitInv
  <2>6. DOMAIN waiters'[q] = DOMAIN waiters[q]
    BY <1>4
  <2> QED BY <1>6, <2>1, <2>3, <2>4, <2>5, <2>6
<1> QED BY <1>2, <1>5, <1>6 DEF WaitInv

\* Steps that leave the commands, the locks and the queues alone.
LEMMA AsideKeepsLocks ==
    ASSUME LocksInv, UNCHANGED <<serial, call, waiters>>
    PROVE  HeldInv' /\ WaitInv'
BY DEF LocksInv, HeldInv, WaitInv

\* The first of some positions.
LEMMA LeastOfSet ==
    ASSUME NEW n \in Nat, NEW S \in SUBSET (1..n), S # {}
    PROVE  \E i \in S : \A j \in S : i <= j
<1> DEFINE Less == OpToRel(<, Nat)
<1>1. S \subseteq Nat
  OBVIOUS
<1>2. PICK i \in S : \A j \in S : ~(<<j, i>> \in Less)
  <2>1. IsWellFoundedOn(Less, Nat)
    BY NatLessThanWellFounded, Zenon
  <2> HIDE DEF Less
  <2> QED BY <1>1, <2>1, WFMin
<1>3. \A j \in S : ~(j < i)
  BY <1>1, <1>2 DEF OpToRel
<1> QED BY <1>1, <1>3

\* What is left of a queue behind one of its places.
LEMMA RestOfQueue ==
    ASSUME NEW S, NEW s \in Seq(S), NEW m \in 1..Len(s)
    PROVE  /\ SubSeq(s, m + 1, Len(s)) \in Seq(S)
           /\ Len(SubSeq(s, m + 1, Len(s))) = Len(s) - m
           /\ \A i \in 1..(Len(s) - m) : SubSeq(s, m + 1, Len(s))[i] = s[i + m]
OBVIOUS

\* The end of a download: the first live sender is served and leaves the queue
\* with those before it, which are dead.
LEMMA DownloadEndKeepsLocks ==
    ASSUME LocksInv, NEW r \in Recs, NEW f, OnDownloadEnd(r, f), UNCHANGED serial
    PROVE  HeldInv' /\ WaitInv'
<1> USE DEF LocksInv, PageInv
<1> DEFINE q == waiters[r]
           live == LiveWaiters(q)
           first == CHOOSE i \in live : \A j \in live : i <= j
<1>1. q \in Seq(Calls \cup {None})
  BY DEF WaitInv
<1>2. CASE UNCHANGED <<waiters, call>>
  BY <1>2, AsideKeepsLocks
<1>3. CASE live = {} /\ waiters' = [waiters EXCEPT ![r] = <<>>] /\ UNCHANGED call
  <2>1. HeldInv'
    BY <1>3, HeldStays
  <2>2. waiters' \in [Recs -> Seq(Calls \cup {None})]
    <3>1. <<>> \in Seq(Calls \cup {None})
      OBVIOUS
    <3> QED BY <1>3, <3>1 DEF WaitInv
  <2>3. waiters'[r] = <<>> /\ \A p \in Recs \ {r} : waiters'[p] = waiters[p]
    BY <1>3 DEF WaitInv
  <2>4. DOMAIN waiters'[r] = {}
    BY <2>3
  <2> QED BY <1>3, <2>1, <2>2, <2>3, <2>4 DEF WaitInv
<1>4. CASE live # {} /\ waiters' = [waiters EXCEPT ![r] = SubSeq(q, first + 1, Len(q))]
           /\ call' = [call EXCEPT ![q[first]] = Idle]
  <2> DEFINE n == Len(q)
             rest == SubSeq(q, first + 1, n)
  <2>1. n \in Nat /\ DOMAIN q = 1..n /\ live \subseteq 1..n
    BY <1>1 DEF LiveWaiters
  <2>2. first \in live
    <3>1. \E i \in live : \A j \in live : i <= j
      <4> HIDE DEF live, n
      <4> QED BY <1>4, <2>1, LeastOfSet
    <3> QED BY <3>1
  <2>3. first \in 1..n /\ q[first] \in Calls
    <3> HIDE DEF first
    <3>1. first \in DOMAIN q /\ q[first] # None
      BY <2>2 DEF LiveWaiters
    <3> HIDE DEF q
    <3> QED BY <1>1, <2>1, <3>1
  <2> DEFINE w == q[first]
  <2>4. call[w].pc = "wait" /\ call[w].rec = r
        /\ \A j \in 1..n : q[j] = w => j = first
    BY <2>1, <2>2, <2>3 DEF WaitInv, LiveWaiters
  <2>5. rest \in Seq(Calls \cup {None}) /\ Len(rest) = n - first
        /\ \A i \in 1..(n - first) : rest[i] = q[i + first]
    <3> HIDE DEF first, q
    <3> QED BY <1>1, <2>1, <2>3, RestOfQueue
  <2> HIDE DEF q, first, live, n, w
  <2>6. waiters' = [waiters EXCEPT ![r] = rest] /\ call' = [call EXCEPT ![w] = Idle]
    BY <1>4 DEF n, w
  <2> HIDE DEF rest
  <2>7. /\ \A c \in Calls \ {w} : call'[c] = call[c]
        /\ waiters' \in [Recs -> Seq(Calls \cup {None})]
        /\ waiters'[r] = rest /\ \A p \in Recs \ {r} : waiters'[p] = waiters[p]
    BY <2>5, <2>6 DEF Types, WaitInv
  <2>8. HeldInv'
    BY <2>4, <2>7, HeldStays DEF Holding
  <2>9. ASSUME NEW p \in Recs, NEW i \in DOMAIN waiters'[p], waiters'[p][i] # None
        PROVE  /\ call'[waiters'[p][i]].pc = "wait" /\ call'[waiters'[p][i]].rec = p
               /\ \A j \in DOMAIN waiters'[p] : waiters'[p][j] = waiters'[p][i] => j = i
    <3>1. CASE p # r
      <4>1. waiters'[p] = waiters[p]
        BY <2>7, <3>1
      <4>2. waiters[p][i] \in Calls /\ call[waiters[p][i]].rec = p
        BY <2>9, <4>1 DEF WaitInv
      <4>3. call'[waiters[p][i]] = call[waiters[p][i]]
        BY <2>4, <2>7, <3>1, <4>2
      <4> QED BY <2>9, <4>1, <4>3 DEF WaitInv
    <3>2. CASE p = r
      <4>1. DOMAIN rest = 1..(n - first)
        BY <2>1, <2>3, <2>5
      <4>2. /\ i \in 1..(n - first) /\ waiters'[r][i] = q[i + first]
            /\ i + first \in 1..n /\ i + first # first
        BY <2>1, <2>3, <2>5, <2>7, <2>9, <3>2, <4>1
      <4>3. /\ q[i + first] # None /\ q[i + first] \in Calls
            /\ call[q[i + first]].pc = "wait" /\ call[q[i + first]].rec = r
            /\ \A j \in 1..n : q[j] = q[i + first] => j = i + first
        BY <1>1, <2>1, <2>9, <3>2, <4>2 DEF WaitInv, q
      <4>4. q[i + first] # w
        BY <2>3, <4>2, <4>3 DEF w
      <4>5. call'[q[i + first]] = call[q[i + first]]
        BY <2>7, <4>3, <4>4
      <4>6. ASSUME NEW j \in 1..(n - first), waiters'[r][j] = waiters'[r][i] PROVE j = i
        <5>1. q[j + first] = q[i + first] /\ j + first \in 1..n
          BY <2>1, <2>3, <2>5, <2>7, <4>2, <4>6
        <5> QED BY <2>1, <2>3, <4>2, <4>3, <5>1
      <4> QED BY <2>7, <3>2, <4>1, <4>2, <4>3, <4>5, <4>6
    <3> QED BY <3>1, <3>2
  <2> QED BY <2>7, <2>8, <2>9 DEF WaitInv
<1> QED BY <1>2, <1>3, <1>4 DEF OnDownloadEnd

LEMMA ReceiveKeepsLocks ==
    ASSUME LocksInv, NEW k \in Conns, Receive(k)
    PROVE  HeldInv' /\ WaitInv'
<1> DEFINE r == loop[k].rec
           e == Head(inbox[k])
<1>1. UNCHANGED serial
  BY DEF Receive
<1>2. CASE UNCHANGED <<waiters, call>>
  BY <1>1, <1>2, AsideKeepsLocks
<1>3. CASE OnDownloadEnd(r, e.file)
  <2>1. r \in Recs
    BY DEF Receive, LocksInv, PageInv, SlotInv, Serving
  <2> QED BY <1>1, <1>3, <2>1, DownloadEndKeepsLocks
<1> QED BY <1>2, <1>3 DEF Receive, OnAttached, OnDetached, OnDownloadBegin

LEMMA StepKeepsLocks == LocksInv /\ [Next]_vars => LocksInv'
<1> SUFFICES ASSUME LocksInv, [Next]_vars PROVE HeldInv' /\ WaitInv'
  BY StepKeepsPage DEF LocksInv
<1>1. CASE \E c \in Calls, kind \in {"tool", "download"} : Begin(c, kind)
  BY <1>1, BeginKeepsLocks
<1>2. CASE \E c \in Calls : CallStep(c)
  BY <1>2, PlainCallKeepsLocks, InstallKeepsLocks, RegisterWaitKeepsLocks, TimeoutWaitKeepsLocks
  DEF CallStep
<1>3. CASE \E k \in Conns : LoopStep(k) \/ LinkDies(k)
  <2> PICK k \in Conns : LoopStep(k) \/ LinkDies(k)
    BY <1>3
  <2>1. CASE Receive(k)
    BY <2>1, ReceiveKeepsLocks
  <2>2. CASE Enabled(k) \/ LoopEnd(k) \/ LoopCompare(k) \/ LoopRemove(k) \/ LinkDies(k)
    BY <2>2, AsideKeepsLocks DEF Enabled, LoopEnd, LoopCompare, LoopRemove, LinkDies, recVars
  <2> QED BY <2>1, <2>2 DEF LoopStep
<1>4. CASE \E k \in Conns, e \in Event : Emit(k, e)
  BY <1>4, AsideKeepsLocks DEF Emit, recVars
<1>5. CASE UNCHANGED vars
  BY <1>5, AsideKeepsLocks DEF vars, recVars
<1> QED BY <1>1, <1>2, <1>3, <1>4, <1>5 DEF Next

\* The lock of a record is held exactly while a command runs behind it: dropped
\* at any await it gives it back, and no download that ends, and no connection
\* that is replaced, takes a command out from behind its lock (command,
\* on_download_progress).
THEOREM LocksAreGivenBack == Spec => []LocksEndWithCommands
<1>1. Spec => []LocksInv
  BY InitLocks, StepKeepsLocks, PTL DEF Spec
<1>2. LocksInv => LocksEndWithCommands
  <2> SUFFICES ASSUME LocksInv, NEW c \in Calls, NEW r \in Recs
               PROVE  serial[r] = c <=> call[c].pc \in Holding /\ call[c].rec = r
    BY DEF LocksEndWithCommands
  <2> QED BY DEF LocksInv, PageInv, LockInv, HeldInv
<1> QED BY <1>1, <1>2, PTL

-----------------------------------------------------------------------------
(* Downloads and who waits for them.                                        *)

\* Whoever waits for a download of a record is in its queue.
EnteredInv ==
    \A c \in Calls : call[c].pc = "wait" =>
        \E i \in DOMAIN waiters[call[c].rec] : waiters[call[c].rec][i] = c

ServeInv == LocksInv /\ EnteredInv /\ inFlight = [r \in Recs |-> inFlight[r]]

\* The step of NoWaiterPassedOver.
GivesToAWaiter ==
    \A r \in Recs : \A f \in inFlight[r] :
        f \notin inFlight'[r] /\ (\E c \in Calls : call[c].pc = "wait" /\ call[c].rec = r)
            => \E c \in Calls : call[c].pc = "wait" /\ call[c].rec = r /\ call'[c].pc = "idle"

LEMMA InitServe == Init => ServeInv
<1> SUFFICES ASSUME Init PROVE ServeInv OBVIOUS
<1>1. EnteredInv BY DEF Init, EnteredInv, Idle
<1> QED BY <1>1, InitLocks DEF Init, ServeInv

\* Steps that leave the queues alone and let nobody begin to wait, while the
\* downloads under way only grow.
LEMMA EnteredStays ==
    ASSUME ServeInv, UNCHANGED waiters,
           \A c \in Calls : call'[c].pc = "wait" => call'[c] = call[c]
    PROVE  EnteredInv'
BY DEF ServeInv, EnteredInv

LEMMA BeginServes ==
    ASSUME ServeInv, NEW c \in Calls, NEW kind \in {"tool", "download"}, Begin(c, kind)
    PROVE  EnteredInv' /\ UNCHANGED inFlight
<1>1. UNCHANGED <<waiters, inFlight>> /\ \E r \in Recs :
         call' = [call EXCEPT ![c] = [pc |-> "lock", kind |-> kind, rec |-> r, conn |-> None]]
  BY DEF Begin, recVars
<1>2. \A d \in Calls : call'[d].pc = "wait" => call'[d] = call[d]
  BY <1>1 DEF ServeInv, LocksInv, PageInv, Types
<1> QED BY <1>1, <1>2, EnteredStays

LEMMA PlainCallServes ==
    ASSUME ServeInv, NEW c \in Calls,
           \/ Lock(c) \/ Connect(c) \/ AutoAttach(c) \/ Route(c)
           \/ Send(c) \/ Answer(c) \/ Return(c)
    PROVE  EnteredInv' /\ UNCHANGED inFlight
<1>1. UNCHANGED <<waiters, inFlight>>
  BY DEF Lock, Connect, AutoAttach, Route, Send, Answer, Return, recVars
<1>2. call \in [Calls -> Call] BY DEF ServeInv, LocksInv, PageInv, Types
<1>3. \A d \in Calls \ {c} : call'[d] = call[d]
  BY <1>2 DEF Lock, Connect, AutoAttach, Route, Send, Answer, Return, Finish, Goto
<1>4. call'[c].pc # "wait"
  <2>1. CASE Lock(c) \/ AutoAttach(c) \/ Send(c) \/ Answer(c)
    <3>1. PICK pc \in {"connect", "handshake", "behavior", "sent", "tool"} : Goto(c, pc)
      BY <2>1 DEF Lock, AutoAttach, Send, Answer
    <3> QED BY <1>2, <3>1 DEF Goto, Call
  <2>2. CASE Connect(c)
    <3>1. PICK k \in Conns : call' = [call EXCEPT ![c].pc = "autoAttach", ![c].conn = k]
      BY <2>2 DEF Connect
    <3> QED BY <1>2, <3>1 DEF Call
  <2>3. CASE Route(c)
    <3>1. PICK pc \in {"register", "tool"}, t \in Targets :
             call' = [call EXCEPT ![c].pc = pc, ![c].conn = tabs[call[c].rec][t]]
      BY <2>3 DEF Route
    <3> QED BY <1>2, <3>1 DEF Call
  <2>4. CASE Return(c)
    BY <1>2, <2>4 DEF Return, Finish, Idle
  <2> QED BY <2>1, <2>2, <2>3, <2>4
<1> QED BY <1>1, <1>3, <1>4, EnteredStays

\* A new connection ends the waits of its record, and those of no other.
LEMMA InstallServes ==
    ASSUME ServeInv, NEW c \in Calls, Install(c)
    PROVE  /\ EnteredInv' /\ inFlight' = [inFlight EXCEPT ![call[c].rec] = {}]
           /\ \A d \in Calls : call[d].pc = "wait" /\ call[d].rec = call[c].rec
                => call'[d].pc = "idle"
           /\ GivesToAWaiter
<1> DEFINE r == call[c].rec
<1> DEFINE Listening == {waiters[r][i] : i \in DOMAIN waiters[r]}
<1>1. /\ call[c].pc = "behavior" /\ inFlight' = [inFlight EXCEPT ![r] = {}]
      /\ waiters' = [waiters EXCEPT ![r] = <<>>]
      /\ call' = [d \in Calls |->
                    IF d = c THEN [call[c] EXCEPT !.pc = "handshake"]
                    ELSE IF call[d].pc = "wait" /\ d \in Listening THEN Idle ELSE call[d]]
  BY DEF Install
<1>2. \A d \in Calls : call[d].pc = "wait" /\ call[d].rec = r => d \in Listening
  BY DEF ServeInv, EnteredInv
<1>3. r \in Recs /\ call \in [Calls -> Call] /\ waiters \in [Recs -> Seq(Calls \cup {None})]
  BY <1>1 DEF ServeInv, LocksInv, PageInv, LockInv, Types, WaitInv
<1> HIDE DEF Listening, r
<1>4. \A d \in Calls : call[d].pc = "wait" /\ call[d].rec = r => call'[d].pc = "idle"
  BY <1>1, <1>2 DEF Idle
<1>5. call'[c].pc = "handshake" BY <1>1, <1>3 DEF Call
<1>6. \A d \in Calls : call'[d].pc = "wait" => call'[d] = call[d] /\ call[d].rec # r
  BY <1>1, <1>4, <1>5 DEF Idle
<1>7. \A q \in Recs \ {r} : waiters'[q] = waiters[q] BY <1>1, <1>3
<1>8. \A d \in Calls : call[d].pc = "wait" => call[d].rec \in Recs
  BY DEF ServeInv, LocksInv, PageInv, LockInv
<1>9. EnteredInv' BY <1>6, <1>7, <1>8 DEF ServeInv, EnteredInv
<1>10. GivesToAWaiter
  <2>1. \A q \in Recs \ {r} : inFlight'[q] = inFlight[q] BY <1>1, <1>3 DEF ServeInv
  <2> QED BY <1>4, <2>1 DEF GivesToAWaiter
<1> QED BY <1>1, <1>4, <1>9, <1>10 DEF r

LEMMA RegisterWaitServes ==
    ASSUME ServeInv, NEW c \in Calls, RegisterWait(c) PROVE EnteredInv' /\ UNCHANGED inFlight
<1> DEFINE r == call[c].rec
<1>1. /\ call[c].pc = "register" /\ UNCHANGED inFlight /\ Goto(c, "wait")
      /\ waiters' = [waiters EXCEPT ![r] = Append(@, c)]
  BY DEF RegisterWait
<1>2. Types /\ LockInv /\ WaitInv BY DEF ServeInv, LocksInv, PageInv
<1>3. call'[c].rec = r /\ \A d \in Calls \ {c} : call'[d] = call[d]
  BY <1>1, <1>2, GotoMoves
<1>4. r \in Recs /\ waiters[r] \in Seq(Calls \cup {None}) BY <1>1, <1>2 DEF LockInv, WaitInv
<1> HIDE DEF r
<1>5. /\ waiters'[r] = Append(waiters[r], c) /\ \A q \in Recs \ {r} : waiters'[q] = waiters[q]
  BY <1>1, <1>2, <1>4 DEF WaitInv
<1>6. /\ Len(waiters[r]) + 1 \in DOMAIN waiters'[r] /\ waiters'[r][Len(waiters[r]) + 1] = c
      /\ \A i \in DOMAIN waiters[r] : i \in DOMAIN waiters'[r] /\ waiters'[r][i] = waiters[r][i]
  BY <1>4, <1>5
<1>7. ASSUME NEW d \in Calls \ {c}, call[d].pc = "wait"
      PROVE  \E i \in DOMAIN waiters'[call[d].rec] : waiters'[call[d].rec][i] = d
  <2>1. PICK i \in DOMAIN waiters[call[d].rec] : waiters[call[d].rec][i] = d
    BY <1>7 DEF ServeInv, EnteredInv
  <2>2. call[d].rec \in Recs BY <1>2, <1>7 DEF LockInv
  <2> QED BY <1>5, <1>6, <2>1, <2>2
<1> QED BY <1>1, <1>3, <1>6, <1>7 DEF EnteredInv

LEMMA TimeoutWaitServes ==
    ASSUME ServeInv, NEW c \in Calls, TimeoutWait(c) PROVE EnteredInv' /\ UNCHANGED inFlight
<1>1. /\ UNCHANGED inFlight /\ call' = [call EXCEPT ![c] = Idle]
      /\ waiters' = [r \in Recs |->
                       [i \in DOMAIN waiters[r] |->
                          IF waiters[r][i] = c THEN None ELSE waiters[r][i]]]
  BY DEF TimeoutWait
<1>2. call \in [Calls -> Call] /\ LockInv BY DEF ServeInv, LocksInv, PageInv, Types
<1>3. call'[c].pc = "idle" /\ \A d \in Calls \ {c} : call'[d] = call[d] BY <1>1, <1>2 DEF Idle
<1>4. ASSUME NEW d \in Calls \ {c}, call[d].pc = "wait"
      PROVE  \E i \in DOMAIN waiters'[call[d].rec] : waiters'[call[d].rec][i] = d
  <2>1. PICK i \in DOMAIN waiters[call[d].rec] : waiters[call[d].rec][i] = d
    BY <1>4 DEF ServeInv, EnteredInv
  <2>2. call[d].rec \in Recs BY <1>2, <1>4 DEF LockInv
  <2>3. i \in DOMAIN waiters'[call[d].rec] /\ waiters'[call[d].rec][i] = d
    BY <1>1, <2>1, <2>2
  <2> QED BY <2>3
<1>5. UNCHANGED inFlight BY <1>1
<1> QED BY <1>3, <1>4, <1>5 DEF EnteredInv

\* The first live place of a queue that has one.
LEMMA FirstIsLive ==
    ASSUME NEW q \in Seq(Calls \cup {None}), LiveWaiters(q) # {},
           NEW first, first = CHOOSE i \in LiveWaiters(q) : \A j \in LiveWaiters(q) : i <= j
    PROVE  /\ first \in 1..Len(q) /\ q[first] \in Calls /\ q[first] # None
           /\ \A j \in 1..Len(q) : q[j] # None => first <= j
<1>1. Len(q) \in Nat /\ DOMAIN q = 1..Len(q) OBVIOUS
<1>2. LiveWaiters(q) \in SUBSET (1..Len(q)) BY <1>1 DEF LiveWaiters
<1>3. \E i \in LiveWaiters(q) : \A j \in LiveWaiters(q) : i <= j BY <1>1, <1>2, LeastOfSet
<1>4. first \in LiveWaiters(q) /\ \A j \in LiveWaiters(q) : first <= j BY <1>3
<1> QED BY <1>1, <1>4 DEF LiveWaiters

LEMMA DownloadEndServes ==
    ASSUME ServeInv, NEW r \in Recs, NEW f, OnDownloadEnd(r, f)
    PROVE  EnteredInv' /\ GivesToAWaiter /\ inFlight' = [inFlight EXCEPT ![r] = @ \ {f}]
<1> DEFINE q == waiters[r]
           first == CHOOSE i \in LiveWaiters(q) : \A j \in LiveWaiters(q) : i <= j
<1>1. q \in Seq(Calls \cup {None}) /\ waiters \in [Recs -> Seq(Calls \cup {None})]
      /\ call \in [Calls -> Call] /\ LockInv /\ WaitInv
  BY DEF ServeInv, LocksInv, PageInv, WaitInv, Types
<1>2. inFlight' = [inFlight EXCEPT ![r] = @ \ {f}] BY DEF OnDownloadEnd
<1>3. (\A p \in Recs \ {r} : inFlight'[p] = inFlight[p]) /\ inFlight'[r] = inFlight[r] \ {f}
  BY <1>2 DEF ServeInv
<1>4. ASSUME NEW c \in Calls, call[c].pc = "wait", call[c].rec = r
      PROVE  \E i \in LiveWaiters(q) : q[i] = c
  <2>1. c # None BY PageAssumption DEF PageAssumption
  <2> QED BY <1>4, <2>1 DEF ServeInv, EnteredInv, LiveWaiters
<1>5. CASE f \notin inFlight[r]
  <2>1. UNCHANGED <<waiters, call>> BY <1>5 DEF OnDownloadEnd
  <2>2. inFlight'[r] = inFlight[r] BY <1>3, <1>5
  <2> QED BY <1>2, <1>3, <2>1, <2>2, EnteredStays DEF GivesToAWaiter
<1>6. CASE f \in inFlight[r] /\ LiveWaiters(q) = {}
  <2>1. waiters' = [waiters EXCEPT ![r] = <<>>] /\ UNCHANGED call BY <1>6 DEF OnDownloadEnd
  <2>2. \A c \in Calls : call[c].pc = "wait" => call[c].rec # r /\ call[c].rec \in Recs
    BY <1>1, <1>4, <1>6 DEF LockInv
  <2>3. \A p \in Recs \ {r} : waiters'[p] = waiters[p] BY <1>1, <2>1
  <2>4. EnteredInv' BY <2>1, <2>2, <2>3 DEF ServeInv, EnteredInv
  <2>5. GivesToAWaiter BY <1>3, <2>2 DEF GivesToAWaiter
  <2> QED BY <1>2, <2>4, <2>5
<1>7. CASE f \in inFlight[r] /\ LiveWaiters(q) # {}
  <2> DEFINE n == Len(q)
             rest == SubSeq(q, first + 1, n)
             w == q[first]
  <2>1. /\ waiters' = [waiters EXCEPT ![r] = rest] /\ call' = [call EXCEPT ![w] = Idle]
    BY <1>7 DEF OnDownloadEnd
  <2>2. /\ first \in 1..n /\ w \in Calls /\ w # None /\ n \in Nat /\ DOMAIN q = 1..n
        /\ \A j \in 1..n : q[j] # None => first <= j
    <3> HIDE DEF first, q
    <3>1. first = CHOOSE i \in LiveWaiters(q) : \A j \in LiveWaiters(q) : i <= j BY DEF first
    <3>2. LiveWaiters(q) # {} /\ q \in Seq(Calls \cup {None}) BY <1>1, <1>7
    <3>3. /\ first \in 1..Len(q) /\ q[first] \in Calls /\ q[first] # None
          /\ \A j \in 1..Len(q) : q[j] # None => first <= j
      BY <3>1, <3>2, FirstIsLive, Zenon
    <3> QED BY <3>2, <3>3
  <2>3. call[w].pc = "wait" /\ call[w].rec = r
    <3> HIDE DEF first
    <3> QED BY <1>1, <2>2 DEF WaitInv
  <2>4. /\ Len(rest) = n - first /\ DOMAIN rest = 1..(n - first)
        /\ \A i \in 1..(n - first) : rest[i] = q[i + first]
    <3> HIDE DEF first, q
    <3>1. Len(rest) = n - first /\ rest \in Seq(Calls \cup {None})
          /\ \A i \in 1..(n - first) : rest[i] = q[i + first]
      BY <1>1, <2>2, RestOfQueue
    <3> QED BY <3>1
  <2> HIDE DEF first, w, rest, n
  <2>5. call'[w].pc = "idle" /\ \A d \in Calls \ {w} : call'[d] = call[d]
    BY <1>1, <2>1, <2>2 DEF Idle
  <2>6. waiters'[r] = rest /\ \A p \in Recs \ {r} : waiters'[p] = waiters[p] BY <1>1, <2>1
  <2>7. GivesToAWaiter BY <1>3, <2>2, <2>3, <2>5 DEF GivesToAWaiter
  <2>8. ASSUME NEW c \in Calls \ {w}, call[c].pc = "wait"
        PROVE  \E i \in DOMAIN waiters'[call[c].rec] : waiters'[call[c].rec][i] = c
    <3>1. call[c].rec \in Recs BY <1>1, <2>8 DEF LockInv
    <3>2. PICK i \in DOMAIN waiters[call[c].rec] : waiters[call[c].rec][i] = c
      BY <2>8 DEF ServeInv, EnteredInv
    <3>3. CASE call[c].rec # r BY <2>6, <3>1, <3>2, <3>3
    <3>4. CASE call[c].rec = r
      <4>1. i \in 1..n /\ q[i] = c BY <2>2, <3>2, <3>4
      <4>2. c # None BY PageAssumption DEF PageAssumption
      <4>3. first <= i /\ i # first BY <2>2, <4>1, <4>2 DEF w
      <4>4. i - first \in 1..(n - first) /\ (i - first) + first = i BY <2>2, <4>1, <4>3
      <4>5. i - first \in DOMAIN rest /\ rest[i - first] = c BY <2>4, <4>1, <4>4
      <4> QED BY <2>6, <3>4, <4>5
    <3> QED BY <3>3, <3>4
  <2>9. EnteredInv' BY <2>5, <2>8 DEF EnteredInv
  <2> QED BY <1>2, <2>7, <2>9
<1> QED BY <1>5, <1>6, <1>7

LEMMA ReceiveServes ==
    ASSUME ServeInv, NEW k \in Conns, Receive(k)
    PROVE  EnteredInv' /\ GivesToAWaiter /\ inFlight' = [r \in Recs |-> inFlight'[r]]
<1> DEFINE r == loop[k].rec
           e == Head(inbox[k])
<1>1. r \in Recs BY DEF Receive, ServeInv, LocksInv, PageInv, SlotInv, Serving
<1>2. CASE UNCHANGED <<waiters, call>> /\ (UNCHANGED inFlight \/ OnDownloadBegin(r, e.file))
  <2>1. EnteredInv' BY <1>2, EnteredStays
  <2>2. \A p \in Recs : inFlight[p] \subseteq inFlight'[p]
    BY <1>2 DEF OnDownloadBegin, ServeInv
  <2>3. inFlight' = [p \in Recs |-> inFlight'[p]] BY <1>2 DEF OnDownloadBegin, ServeInv
  <2> QED BY <2>1, <2>2, <2>3 DEF GivesToAWaiter
<1>3. CASE OnDownloadEnd(r, e.file)
  <2>1. EnteredInv' /\ GivesToAWaiter /\ inFlight' = [inFlight EXCEPT ![r] = @ \ {e.file}]
    BY <1>1, <1>3, DownloadEndServes
  <2> QED BY <2>1 DEF ServeInv
<1> QED BY <1>2, <1>3 DEF Receive, OnAttached, OnDetached, OnDownloadBegin

LEMMA StepServes == ServeInv /\ [Next]_vars => ServeInv' /\ GivesToAWaiter
<1> SUFFICES ASSUME ServeInv, [Next]_vars
             PROVE  EnteredInv' /\ GivesToAWaiter /\ inFlight' = [r \in Recs |-> inFlight'[r]]
  BY StepKeepsLocks DEF ServeInv
<1>0. UNCHANGED inFlight => GivesToAWaiter /\ inFlight' = [r \in Recs |-> inFlight'[r]]
  BY DEF GivesToAWaiter, ServeInv
<1>1. CASE \E c \in Calls, kind \in {"tool", "download"} : Begin(c, kind)
  BY <1>0, <1>1, BeginServes
<1>2. ASSUME NEW c \in Calls, CallStep(c)
      PROVE  EnteredInv' /\ GivesToAWaiter /\ inFlight' = [r \in Recs |-> inFlight'[r]]
  <2>1. CASE Install(c)
    <3>1. EnteredInv' /\ GivesToAWaiter /\ inFlight' = [inFlight EXCEPT ![call[c].rec] = {}]
      BY <2>1, InstallServes
    <3> QED BY <3>1 DEF ServeInv
  <2>2. CASE ~Install(c)
    BY <1>0, <1>2, <2>2, PlainCallServes, RegisterWaitServes, TimeoutWaitServes DEF CallStep
  <2> QED BY <2>1, <2>2
<1>3. ASSUME NEW k \in Conns, LoopStep(k) \/ LinkDies(k) \/ \E e \in Event : Emit(k, e)
      PROVE  EnteredInv' /\ GivesToAWaiter /\ inFlight' = [r \in Recs |-> inFlight'[r]]
  <2>1. CASE Receive(k) BY <2>1, ReceiveServes
  <2>2. CASE ~Receive(k)
    <3>1. UNCHANGED <<waiters, call, inFlight>>
      BY <1>3, <2>2 DEF LoopStep, Enabled, LoopEnd, LoopCompare, LoopRemove, LinkDies, Emit, recVars
    <3> QED BY <1>0, <3>1, EnteredStays
  <2> QED BY <2>1, <2>2
<1>4. CASE UNCHANGED vars
  <2>1. UNCHANGED <<waiters, call, inFlight>> BY <1>4 DEF vars, recVars
  <2> QED BY <1>0, <2>1, EnteredStays
<1> QED BY <1>1, <1>2, <1>3, <1>4 DEF Next

\* A download that ends while commands wait for one of its record is given to one of them,
\* however many waits before it timed out in the queue, and a new connection ends the
\* waits on the old one (page_service.rs, on_download_progress, establish).
THEOREM DownloadsGoToWaiters == Spec => NoWaiterPassedOver
<1>1. ServeInv /\ [Next]_vars => [GivesToAWaiter]_vars
  BY StepServes
<1> QED BY <1>1, InitServe, StepServes, PTL DEF Spec, NoWaiterPassedOver, GivesToAWaiter

-----------------------------------------------------------------------------
(* Input: what a call presses it releases, and a fill types into its field.   *)

InputResults ==
    {"none", "ok", "no-effect", "unknown", "error", "not-fillable", "focus-lost", "mismatch",
            "cut"}
InputShapes ==
    [pc : {"idle", "send", "again"} \cup Input!Fills, op : Input!Gestures \cup {"fill", "none"},
           at : 0..3, want : Input!Values, result : InputResults]

InputTypes ==
    /\ input \in InputShapes
    /\ input.pc \in {"send", "again"} => input.op \in Input!Gestures
    /\ input.pc = "send" => input.at \in 1..Len(Input!Events[input.op])

\* What is down will be released by the call under way, or has its excuse.
DownInv ==
    down => \/ excuses # {}
            \/ input.pc = "send" /\ input.at > Input!PressAt(input.op)
            \/ input.pc = "again"

InputInv == InputTypes /\ DownInv

LEMMA GestureFacts ==
    /\ Input!Gestures = {"click", "key", "char"}
    /\ \A g \in Input!Gestures : /\ Len(Input!Events[g]) \in 2..3
                                 /\ Input!PressAt(g) \in 1..(Len(Input!Events[g]) - 1)
                                 /\ \A i \in 1..Len(Input!Events[g]) :
                                       /\ Input!Events[g][i] = "press" <=> i = Input!PressAt(g)
                                       /\ i = Len(Input!Events[g]) => Input!Events[g][i] = "release"
<1>1. Input!Gestures = {"click", "key", "char"} BY DEF Input!Gestures, Input!Events
<1>2. /\ Input!Events["click"] = <<"move", "press", "release">>
      /\ Input!Events["key"] = <<"press", "release">>
      /\ Input!Events["char"] = <<"press", "char", "release">>
  BY DEF Input!Events
<1>3. Input!PressAt("click") = 2 BY <1>2 DEF Input!PressAt
<1>4. Input!PressAt("key") = 1 BY <1>2 DEF Input!PressAt
<1>5. Input!PressAt("char") = 1 BY <1>2 DEF Input!PressAt
<1>6. Len(Input!Events["click"]) = 3 /\ Len(Input!Events["key"]) = 2
        /\ Len(Input!Events["char"]) = 3 BY <1>2
<1>7. ASSUME NEW i \in 1..3
      PROVE  /\ Input!Events["click"][i] = "press" <=> i = 2
             /\ Input!Events["char"][i] = "press" <=> i = 1
             /\ i = 3 => Input!Events["click"][i] = "release" /\ Input!Events["char"][i] = "release"
  BY <1>2
<1>8. ASSUME NEW i \in 1..2
      PROVE  /\ Input!Events["key"][i] = "press" <=> i = 1
             /\ i = 2 => Input!Events["key"][i] = "release"
  BY <1>2
<1>9. ASSUME NEW g \in Input!Gestures
      PROVE  /\ Len(Input!Events[g]) \in 2..3
             /\ Input!PressAt(g) \in 1..(Len(Input!Events[g]) - 1)
             /\ \A i \in 1..Len(Input!Events[g]) :
                   /\ Input!Events[g][i] = "press" <=> i = Input!PressAt(g)
                   /\ i = Len(Input!Events[g]) => Input!Events[g][i] = "release"
  <2>1. CASE g = "click" BY <2>1, <1>3, <1>6, <1>7
  <2>2. CASE g = "key" BY <2>2, <1>4, <1>6, <1>8
  <2>3. CASE g = "char" BY <2>3, <1>5, <1>6, <1>7
  <2> QED BY <1>1, <1>9, <2>1, <2>2, <2>3
<1> QED BY <1>1, <1>9

\* A call that ended, or has just begun.
LEMMA IdleShape == Input!Idle \in InputShapes /\ Input!Idle.pc = "idle"
  BY DEF Input!Idle, InputShapes, Input!Values, InputResults

LEMMA EndedShape ==
    \A result \in InputResults : /\ [Input!Idle EXCEPT !.result = result] \in InputShapes
                            /\ [Input!Idle EXCEPT !.result = result].pc = "idle"
  BY IdleShape DEF InputShapes

LEMMA EndTypes == ASSUME NEW result \in InputResults, Input!End(result) PROVE InputTypes'
  BY EndedShape DEF Input!End, InputTypes

LEMMA InitInput == Input!Init => InputInv
<1> QED BY IdleShape DEF Input!Init, InputInv, InputTypes, DownInv

\* A step of a fill, or one that ends the call, holds nothing down.
LEMMA InputAside ==
    ASSUME InputInv, UNCHANGED <<down, excuses>>, input.pc \notin {"send", "again"},
           input' \in InputShapes, input'.pc \notin {"send", "again"}
    PROVE  InputInv'
  BY DEF InputInv, InputTypes, DownInv, Input!Fills

LEMMA InputBegins == InputInv /\ Input!Call => InputInv'
<1> SUFFICES ASSUME InputInv, Input!Call PROVE InputInv' OBVIOUS
<1>1. down => excuses # {} BY DEF Input!Call, InputInv, DownInv
<1>2. InputTypes'
  <2>1. CASE \E g \in Input!Gestures :
               input' = [Input!Idle EXCEPT !.pc = "send", !.op = g, !.at = 1]
    <3>1. PICK g \in Input!Gestures : input' = [Input!Idle EXCEPT !.pc = "send", !.op = g,
      !.at = 1] BY <2>1
    <3>4. g \in Input!Gestures \cup {"fill", "none"} /\ 1 \in 0..3 OBVIOUS
    <3>5. input' \in InputShapes BY <3>1, <3>4, IdleShape DEF InputShapes
    <3>6. input'.op = g /\ input'.at = 1 BY <3>1, IdleShape DEF InputShapes
    <3>2. input' \in InputShapes /\ input'.op = g /\ input'.at = 1 BY <3>5, <3>6
    <3>3. 1 \in 1..Len(Input!Events[g]) BY GestureFacts
    <3> QED BY <3>2, <3>3 DEF InputTypes
  <2>2. CASE \E v \in {"", "text"} :
               input' = [Input!Idle EXCEPT !.pc = "resolve", !.op = "fill", !.want = v]
    <3>1. PICK v \in {"", "text"} :
                 input' = [Input!Idle EXCEPT !.pc = "resolve", !.op = "fill", !.want = v]
      BY <2>2
    <3>2. v \in Input!Values BY DEF Input!Values
    <3>3. input' \in InputShapes /\ input'.pc = "resolve" BY <3>1, <3>2, IdleShape DEF InputShapes,
      Input!Fills
    <3> QED BY <3>3 DEF InputTypes
  <2> QED BY <2>1, <2>2 DEF Input!Call
<1> QED BY <1>1, <1>2 DEF Input!Call, InputInv, DownInv

LEMMA GestureSends == ASSUME InputInv, NEW o \in Input!Outcomes, Input!Send(o) PROVE InputInv'
<1> DEFINE g == input.op
           i == input.at
<1>1. /\ input.pc = "send" /\ g \in Input!Gestures /\ i \in 1..Len(Input!Events[g])
           /\ Len(Input!Events[g]) \in 2..3
      /\ Input!Does(Input!Events[g][i], o)
  BY GestureFacts DEF Input!Send, InputInv, InputTypes
<1>2. down => excuses # {} \/ i > Input!PressAt(g)
  BY <1>1 DEF InputInv, DownInv
<1>3. \/ o = "answered" /\ i < Len(Input!Events[g]) /\ input' = [input EXCEPT !.at = i + 1]
      \/ o = "answered" /\ i = Len(Input!Events[g]) /\ input' = [Input!Idle EXCEPT !.result = "ok"]
      \/ o # "answered" /\ i > Input!PressAt(g) /\ input' = [input EXCEPT !.pc = "again"]
      \/ /\ o # "answered" /\ ~(i > Input!PressAt(g))
         /\ input' = [Input!Idle EXCEPT !.result = IF g = "click" THEN "no-effect" ELSE "error"]
  BY <1>1 DEF Input!Send, Input!End, Input!Goto, Input!ReleasesAgain
<1>4. InputTypes'
  <2>1. CASE i < Len(Input!Events[g]) /\ input' = [input EXCEPT !.at = i + 1]
    <3> DEFINE n == Len(Input!Events[g])
    <3>2. i \in 1..n /\ n \in 2..3 /\ i < n BY <1>1, <2>1
    <3> HIDE DEF n
    <3>1. i + 1 \in 1..n /\ i + 1 \in 0..3 BY <3>2
    <3> QED BY <1>1, <2>1, <3>1 DEF n, InputInv, InputTypes, InputShapes
  <2>2. CASE input' = [input EXCEPT !.pc = "again"]
    BY <1>1, <2>2 DEF InputInv, InputTypes, InputShapes
  <2>3. CASE \E result \in InputResults : Input!End(result) BY <2>3, EndTypes
  <2> QED BY <1>3, <2>1, <2>2, <2>3 DEF Input!End, InputResults
<1>5. \/ o = "refused" /\ UNCHANGED <<down, excuses>>
      \/ o # "refused" /\ i = Input!PressAt(g) /\ (o = "unheard" => excuses' # {})
      \/ o # "refused" /\ Input!Events[g][i] = "release" /\ down' = FALSE
      \/ i # Input!PressAt(g) /\ i # Len(Input!Events[g]) /\ UNCHANGED <<down, excuses>>
  BY <1>1, GestureFacts DEF Input!Does, Input!Outcomes
<1>6. DownInv'
  <2>1. CASE input' = [input EXCEPT !.at = i + 1]
    <3>1. input'.pc = "send" /\ input'.op = g /\ input'.at = i + 1 BY <1>1, <2>1 DEF InputInv,
      InputTypes, InputShapes
    <3>2. i \in Nat /\ Input!PressAt(g) \in Nat BY <1>1, GestureFacts
    <3>4. i < Input!PressAt(g) => i # Input!PressAt(g) /\ i # Len(Input!Events[g])
            /\ ~(i > Input!PressAt(g))
      BY <1>1, <3>2, GestureFacts
    <3>3. i < Input!PressAt(g) /\ down' => excuses' # {}
      BY <1>2, <1>5, <3>4
    <3> QED BY <3>1, <3>2, <3>3 DEF DownInv
  <2>2. CASE o = "answered" /\ i = Len(Input!Events[g])
    <3>1. down' = FALSE BY <1>1, <1>5, <2>2, GestureFacts
    <3> QED BY <3>1 DEF DownInv
  <2>3. CASE input' = [input EXCEPT !.pc = "again"]
    <3>1. input'.pc = "again" BY <2>3 DEF InputInv, InputTypes, InputShapes
    <3> QED BY <3>1 DEF DownInv
  <2>4. CASE o # "answered" /\ ~(i > Input!PressAt(g))
    <3>1. o \in {"unheard", "refused"} BY <2>4 DEF Input!Outcomes
    <3> QED BY <1>2, <1>5, <2>4, <3>1 DEF DownInv
  <2> QED BY <1>3, <2>1, <2>2, <2>3, <2>4
<1> QED BY <1>4, <1>6 DEF InputInv

LEMMA GestureReleases == ASSUME InputInv, NEW o \in Input!Outcomes, Input!Again(o) PROVE InputInv'
<1>1. \E result \in InputResults : Input!End(result) BY DEF Input!Again, InputResults
<1>2. InputTypes' BY <1>1, EndTypes
<1>3. down' => excuses' # {} BY DEF Input!Again, Input!Does
<1> QED BY <1>2, <1>3 DEF InputInv, DownInv

\* The steps of a fill.
FillStep ==
    \/ \E o \in Input!Outcomes : Input!Insert(o)
    \/ Input!Resolve \/ Input!Check("check") \/ Input!Check("recheck") \/ Input!Focus
     \/ Input!Clear \/ Input!Verify \/ Input!Return

LEMMA FillMoves ==
    ASSUME InputTypes, FillStep
    PROVE  /\ input.pc \in Input!Fills /\ UNCHANGED <<down, excuses>>
           /\ \/ \E pc \in Input!Fills \ {"return"} : input' = [input EXCEPT !.pc = pc]
              \/ input' = [Input!Idle EXCEPT !.result = "error"]
              \/ input.pc = "return" /\ input' = [Input!Idle EXCEPT !.result = input.result]
              \/ \E result \in {"error", "not-fillable", "focus-lost", "mismatch"} :
                    input' = [input EXCEPT !.pc = "return", !.result = result]
              \/ /\ \E actual \in Input!ReadBack : Input!Verdict(actual) = "ok"
                 /\ input' = [input EXCEPT !.pc = "return", !.result = "ok"]
<1> USE DEF Input!Step, Input!Back, Input!Goto, Input!End, Input!Fills
<1>1. ASSUME NEW o \in Input!Outcomes, Input!Insert(o)
      PROVE  /\ input.pc = "insert" /\ UNCHANGED <<down, excuses>>
             /\ \/ input' = [input EXCEPT !.pc = "verify"]
                \/ input' = [input EXCEPT !.pc = "return", !.result = "error"]
  BY <1>1 DEF Input!Insert
<1>2. CASE Input!Resolve BY <1>2 DEF Input!Resolve
<1>3. ASSUME NEW pc \in {"check", "recheck"}, Input!Check(pc)
      PROVE  /\ input.pc = pc /\ UNCHANGED <<down, excuses>>
             /\ \/ input' = [input EXCEPT !.pc = "focus"]
                \/ \E result \in {"error", "not-fillable", "focus-lost"} :
                      input' = [input EXCEPT !.pc = "return", !.result = result]
  BY <1>3 DEF Input!Check
<1>4. CASE Input!Focus BY <1>4 DEF Input!Focus
<1>5. CASE Input!Clear BY <1>5 DEF Input!Clear
<1>6. CASE Input!Verify
  <2>1. \A actual : Input!Verdict(actual) \in {"ok", "mismatch"} BY DEF Input!Verdict
  <2> QED BY <1>6, <2>1 DEF Input!Verify
<1>7. CASE Input!Return BY <1>7 DEF Input!Return
<1> QED BY <1>1, <1>2, <1>3, <1>4, <1>5, <1>6, <1>7 DEF FillStep

LEMMA FillSteps == InputInv /\ FillStep => InputInv'
<1> SUFFICES ASSUME InputInv, FillStep PROVE InputInv' OBVIOUS
<1>1. InputTypes BY DEF InputInv
<1>2. input' \in InputShapes /\ input'.pc \notin {"send", "again"}
  <2>1. CASE \E pc \in Input!Fills \ {"return"} : input' = [input EXCEPT !.pc = pc]
    BY <1>1, <2>1 DEF InputTypes, InputShapes, Input!Fills
  <2>2. CASE \E result \in InputResults : input' = [Input!Idle EXCEPT !.result = result]
    BY <2>2, EndedShape
  <2>3. CASE \E result \in InputResults : input' = [input EXCEPT !.pc = "return", !.result = result]
    BY <1>1, <2>3 DEF InputTypes, InputShapes, Input!Fills
  <2>4. input.result \in InputResults BY <1>1 DEF InputTypes, InputShapes
  <2> QED BY <1>1, <2>1, <2>2, <2>3, <2>4, FillMoves DEF InputResults
<1>3. input.pc \notin {"send", "again"} BY <1>1, FillMoves DEF Input!Fills
<1> QED BY <1>1, <1>2, <1>3, FillMoves, InputAside

LEMMA InputCut == InputInv /\ Input!Cut => InputInv'
<1> SUFFICES ASSUME InputInv, Input!Cut PROVE InputInv' OBVIOUS
<1>1. InputTypes' BY EndTypes DEF Input!Cut, InputResults
<1>2. down' => excuses' # {} BY DEF Input!Cut
<1> QED BY <1>1, <1>2 DEF InputInv, DownInv

LEMMA StepKeepsInput == InputInv /\ [Input!Next]_(Input!vars) => InputInv'
<1>1. ASSUME InputInv, Input!Trick \/ UNCHANGED Input!vars PROVE InputInv'
  <2>1. UNCHANGED <<input, down, excuses>> BY <1>1 DEF Input!Trick, Input!vars
  <2> QED BY <1>1, <2>1 DEF InputInv, InputTypes, DownInv
<1> QED BY <1>1, InputBegins, GestureSends, GestureReleases, FillSteps, InputCut DEF Input!Next,
  FillStep

\* What is known of a fill that types, by the step it is at: what it types goes to its
\* field unless the page has moved the focus since Clear, and if it has gone elsewhere
\* the field is empty for as long as the page leaves it alone.
FillInv ==
    /\ field \in [value : Input!Values, fillable : BOOLEAN, there : BOOLEAN]
    /\ focus \in {"field", "elsewhere"}
    /\ astray \in BOOLEAN
    /\ input.pc \notin {"idle", "insert", "verify", "return"} => ~astray
    /\ input.pc \notin {"idle", "return"} => input.result # "ok"
    /\ input.pc = "insert" => /\ input.want # ""
                              /\ focus = "field" \/ "focus" \in since
                              /\ "field" \in since \/ (field.value = "" /\ field.fillable)
    /\ input.pc = "verify" /\ astray =>
          input.want # "" /\ ("field" \in since \/ (field.value = "" /\ field.fillable))
    /\ astray => "focus" \in since
    /\ astray /\ input.result = "ok" => "field" \in since

\* What a step leaves in the call.
LEMMA CallShapes ==
    ASSUME InputTypes
    PROVE  /\ \A pc : Input!Goto(pc) => /\ input'.pc = pc /\ input'.want = input.want
                                        /\ input'.result = input.result
           /\ \A result : Input!Back(result) => input'.pc = "return" /\ input'.result = result
           /\ \A result : Input!End(result) => input'.pc = "idle" /\ input'.result = result
  BY DEF InputTypes, InputShapes, Input!Goto, Input!Back, Input!End, Input!Idle

LEMMA InitFill == Input!Init => FillInv
<1> SUFFICES ASSUME Input!Init PROVE FillInv OBVIOUS
<1>1. input.pc = "idle" /\ input.result = "none" BY DEF Input!Init, Input!Idle
<1>2. field \in [value : Input!Values, fillable : BOOLEAN, there : BOOLEAN]
  BY DEF Input!Init, Input!Values
<1>3. focus = "elsewhere" /\ astray = FALSE BY DEF Input!Init
<1> QED BY <1>1, <1>2, <1>3 DEF FillInv

LEMMA FillBegins == InputTypes /\ FillInv /\ Input!Call => FillInv'
<1> SUFFICES ASSUME FillInv, Input!Call PROVE FillInv' OBVIOUS
<1>1. astray' = FALSE /\ UNCHANGED <<field, focus>> BY DEF Input!Call
<1>2. input'.pc \in {"send", "resolve"} /\ input'.result = "none"
  BY DEF Input!Call, Input!Idle
<1> QED BY <1>1, <1>2 DEF FillInv

LEMMA GestureTypesNothing ==
    ASSUME InputTypes, FillInv, \E o \in Input!Outcomes : Input!Send(o) \/ Input!Again(o)
    PROVE  FillInv'
<1>1. ~astray /\ UNCHANGED <<field, focus, astray, since>> /\ input.result # "ok"
  BY DEF FillInv, Input!Send, Input!Again
<1>2. input'.pc \in {"idle", "send", "again"} /\ (input'.pc = "idle" \/ input'.result # "ok")
  BY <1>1, CallShapes DEF Input!Send, Input!Again, InputTypes, InputShapes
<1> QED BY <1>1, <1>2 DEF FillInv

LEMMA FillGoesOn ==
    ASSUME InputTypes, FillInv,
           Input!Resolve \/ Input!Check("check") \/ Input!Check("recheck") \/ Input!Focus
    PROVE  FillInv'
<1>1. ~astray /\ UNCHANGED <<field, astray, since>> /\ input.result # "ok"
        /\ focus' \in {"field", "elsewhere"}
  BY DEF FillInv, Input!Resolve, Input!Check, Input!Focus, Input!Step, Input!InPage, Input!Typed
<1>2. /\ input'.pc \in {"check", "focus", "recheck", "clear", "return", "idle"}
      /\ input'.result # "ok"
  BY <1>1, CallShapes DEF Input!Resolve, Input!Check, Input!Focus
<1> QED BY <1>1, <1>2 DEF FillInv

LEMMA FillClears == InputTypes /\ FillInv /\ Input!Clear => FillInv'
<1> SUFFICES ASSUME InputTypes, FillInv, Input!Clear PROVE FillInv' OBVIOUS
<1>1. ~astray /\ UNCHANGED <<astray, focus>> /\ input.result # "ok"
  BY DEF FillInv, Input!Clear, Input!Step
<1>2. CASE input'.pc = "return" /\ input'.result # "ok" /\ UNCHANGED field
  BY <1>1, <1>2 DEF FillInv
<1>3. CASE /\ field' = [field EXCEPT !.value = ""] /\ focus = "field" /\ field.fillable
           /\ \/ input'.pc = "return" /\ input'.result # "ok"
              \/ /\ input'.pc = IF input.want = "" THEN "verify" ELSE "insert"
                 /\ input'.want = input.want /\ input'.result = input.result
  <2>1. /\ field' \in [value : Input!Values, fillable : BOOLEAN, there : BOOLEAN]
        /\ field'.value = "" /\ field'.fillable
    BY <1>3 DEF FillInv, Input!Values
  <2> QED BY <1>1, <1>3, <2>1 DEF FillInv
<1>4. CASE UNCHANGED field /\ \E result \in {"error", "not-fillable", "focus-lost"} : Input!Back(result)
  <2>1. input'.pc = "return" /\ input'.result # "ok" BY <1>4, CallShapes
  <2> QED BY <1>2, <1>4, <2>1
<1>5. CASE /\ field' = [field EXCEPT !.value = ""] /\ focus = "field" /\ field.fillable
           /\ \/ Input!Back("error")
              \/ Input!Goto(IF input.want = "" THEN "verify" ELSE "insert")
  <2>1. CASE Input!Back("error")
    <3>1. input'.pc = "return" /\ input'.result = "error" BY <2>1, CallShapes
    <3> QED BY <1>3, <1>5, <3>1
  <2>2. CASE Input!Goto(IF input.want = "" THEN "verify" ELSE "insert")
    <3> DEFINE pc == IF input.want = "" THEN "verify" ELSE "insert"
    <3>1. Input!Goto(pc) BY <2>2
    <3> HIDE DEF pc
    <3>2. input'.pc = pc /\ input'.want = input.want /\ input'.result = input.result
      BY <3>1, CallShapes
    <3> QED BY <1>3, <1>5, <3>2 DEF pc
  <2> QED BY <1>5, <2>1, <2>2
<1> QED BY <1>4, <1>5 DEF Input!Clear, Input!Fillable, Input!HasFocus

LEMMA FillInserts ==
    ASSUME InputTypes, FillInv, NEW o \in Input!Outcomes, Input!Insert(o)
    PROVE  FillInv'
<1>1. /\ input.pc = "insert" /\ UNCHANGED <<focus, since>> /\ input.result # "ok"
      /\ astray' \in BOOLEAN /\ (astray' => focus = "elsewhere")
  BY DEF FillInv, Input!Insert, Input!Step
<1>2. /\ field' \in [value : Input!Values, fillable : BOOLEAN, there : BOOLEAN]
      /\ focus = "elsewhere" => field' = field
  <2>1. input.want \in Input!Values BY DEF InputTypes, InputShapes
  <2>2. \A v \in Input!Values :
          [field EXCEPT !.value = v] \in [value : Input!Values, fillable : BOOLEAN, there : BOOLEAN]
    BY DEF FillInv
  <2>3. (IF field.value = "" THEN input.want ELSE "other") \in Input!Values
    BY <2>1 DEF Input!Values
  <2> QED BY <2>2, <2>3 DEF FillInv, Input!Insert
<1>3. \/ input'.pc = "verify" /\ input'.want = input.want /\ input'.result = input.result
      \/ input'.pc = "return" /\ input'.result = "error"
  BY CallShapes DEF Input!Insert
<1> QED BY <1>1, <1>2, <1>3 DEF FillInv

\* A fill that has typed elsewhere reads back what it was asked to write only from a
\* field the page has worked on.
LEMMA FillVerifies == InputTypes /\ FillInv /\ Input!Verify => FillInv'
<1> SUFFICES ASSUME InputTypes, FillInv, Input!Verify PROVE FillInv' OBVIOUS
<1>1. input.pc = "verify" /\ UNCHANGED <<field, focus, astray, since>>
  BY DEF Input!Verify, Input!Step
<1>2. input'.pc = "return"
        /\ (input'.result = "ok" => \E actual \in Input!ReadBack : Input!Verdict(actual) = "ok")
  BY CallShapes DEF Input!Verify
<1>3. ASSUME astray, "field" \notin since
      PROVE  ~ \E actual \in Input!ReadBack : Input!Verdict(actual) = "ok"
  BY <1>1, <1>3 DEF FillInv, Input!ReadBack, Input!Verdict
<1> QED BY <1>1, <1>2, <1>3 DEF FillInv

LEMMA FillEnds == InputTypes /\ FillInv /\ (Input!Return \/ Input!Cut) => FillInv'
<1> SUFFICES ASSUME InputTypes, FillInv, Input!Return \/ Input!Cut PROVE FillInv' OBVIOUS
<1>1. UNCHANGED <<field, focus, astray, since>>
  BY DEF Input!Return, Input!Cut, Input!InPage, Input!Typed
<1>2. input'.pc = "idle" /\ input'.result \in {input.result, "cut"}
  BY CallShapes DEF Input!Return, Input!Cut
<1> QED BY <1>1, <1>2 DEF FillInv

LEMMA PageTricks == FillInv /\ Input!Trick => FillInv'
<1> SUFFICES ASSUME FillInv, Input!Trick PROVE FillInv' OBVIOUS
<1>1. UNCHANGED <<input, astray>> BY DEF Input!Trick
<1>2. /\ field' \in [value : Input!Values, fillable : BOOLEAN, there : BOOLEAN]
      /\ focus' \in {"field", "elsewhere"}
  BY DEF Input!Trick, FillInv
<1>3. CASE input.pc \notin {"insert", "verify"}
  <2>1. since' = since BY <1>3 DEF Input!Trick
  <2> QED BY <1>1, <1>2, <1>3, <2>1 DEF FillInv
<1>4. CASE input.pc \in {"insert", "verify"}
  <2>1. \/ since' = since \cup {"focus"} /\ field' = field
        \/ since' = since \cup {"field"} /\ focus' = focus
    BY <1>4 DEF Input!Trick
  <2> QED BY <1>1, <1>2, <1>4, <2>1 DEF FillInv
<1> QED BY <1>3, <1>4

LEMMA StepKeepsFill == InputTypes /\ FillInv /\ [Input!Next]_(Input!vars) => FillInv'
<1>1. UNCHANGED Input!vars => UNCHANGED <<input, field, focus, astray, since>> BY DEF Input!vars
<1>2. FillInv /\ UNCHANGED Input!vars => FillInv' BY <1>1 DEF FillInv
<1> QED BY <1>2, FillBegins, GestureTypesNothing, FillGoesOn, FillClears, FillInserts, FillVerifies,
  FillEnds, PageTricks DEF Input!Next

-----------------------------------------------------------------------------
(* Events: what the browser has paused.                                     *)

LEMMA EventsAssumption == None \notin PageRequests
  BY PartsAssumption

EventNotices == [kind : {"attached", "dialog", "paused"}, req : PageRequests \cup {None}]
LoopStates ==
    [pc : {"idle", "enable", "accept", "decide", "act", "fallback", "pass"}, step : Nat,
     req : PageRequests \cup {None}, act : {"mocked", "blocked", "none"}]

EventTypes ==
    /\ events \in Seq(EventNotices)
    /\ handling \in LoopStates
    /\ request \in [PageRequests -> {"new", "paused"} \cup Events!Fates]

\* A request is in the hands of the loop only while it is decided upon, and only
\* what is told as paused carries a request.
OnlyPausedCarry ==
    /\ handling.pc \in {"idle", "enable", "accept"} => handling.req = None
    /\ handling.pc \notin {"idle", "enable", "accept"} => handling.req \in PageRequests
    /\ \A i \in DOMAIN events : events[i].req \in PageRequests <=> events[i].kind = "paused"

\* What is carried out has been decided.
DecidedIsAFate == handling.pc = "act" => handling.act \in Events!Fates

EventInv == EventTypes /\ OnlyPausedCarry /\ DecidedIsAFate /\ Events!NobodyIsLeftPaused

LEMMA InitEvents == Events!Init => EventInv
<1> SUFFICES ASSUME Events!Init PROVE EventInv OBVIOUS
<1> DEFINE e == [kind |-> "attached", req |-> None]
<1>1. e \in EventNotices /\ e.req = None /\ e.kind = "attached" BY DEF EventNotices
<1>2. events = <<e>> BY DEF Events!Init
<1> HIDE DEF e
<1>3. events \in Seq(EventNotices) /\ \A i \in DOMAIN events : events[i] = e BY <1>1, <1>2
<1>4. handling \in LoopStates /\ handling.req = None /\ handling.pc = "idle" BY DEF Events!Init,
  Events!Resting, LoopStates
<1>5. request = [q \in PageRequests |-> "new"] BY DEF Events!Init
<1>6. EventTypes BY <1>3, <1>4, <1>5 DEF EventTypes
<1> QED BY <1>1, <1>3, <1>4, <1>5, <1>6, EventsAssumption DEF EventInv, OnlyPausedCarry,
  DecidedIsAFate, Events!NobodyIsLeftPaused

LEMMA EventElements ==
    EventTypes => \A i \in DOMAIN events :
                      events[i].req \in PageRequests \cup {None}
                      /\ events[i].kind \in {"attached", "dialog", "paused"}
<1> SUFFICES ASSUME EventTypes, NEW i \in DOMAIN events
             PROVE  /\ events[i].req \in PageRequests \cup {None}
                    /\ events[i].kind \in {"attached", "dialog", "paused"}
  OBVIOUS
<1>1. events[i] \in EventNotices BY DEF EventTypes
<1> QED BY <1>1 DEF EventNotices

LEMMA RestingIsFree ==
    Events!Resting \in LoopStates /\ Events!Resting.pc = "idle" /\ Events!Resting.req = None
  BY DEF Events!Resting, LoopStates

\* An event joins the queue: it carries a request just when it is told as paused.
LEMMA EventArrives ==
    ASSUME EventTypes, OnlyPausedCarry, NEW kind, NEW r,
           \/ kind = "dialog" /\ r = None
           \/ kind = "paused" /\ r \in PageRequests,
           events' = Append(events, [kind |-> kind, req |-> r])
    PROVE  /\ events' \in Seq(EventNotices)
           /\ \A i \in DOMAIN events' : events'[i].req \in PageRequests
                <=> events'[i].kind = "paused"
           /\ \A q : Events!InQueue(q) => Events!InQueue(q)'
           /\ Events!InQueue(r)'
<1> DEFINE e == [kind |-> kind, req |-> r]
<1>1. e \in EventNotices /\ e.req = r /\ e.kind = kind BY DEF EventNotices
<1>2. events' = Append(events, e) OBVIOUS
<1> HIDE DEF e
<1>3. events \in Seq(EventNotices) BY DEF EventTypes
<1>4. /\ events' \in Seq(EventNotices)
      /\ DOMAIN events' = 1..(Len(events) + 1) /\ DOMAIN events = 1..Len(events)
           /\ Len(events) \in Nat
      /\ \A i \in DOMAIN events : events'[i] = events[i] /\ i \in DOMAIN events'
      /\ events'[Len(events) + 1] = e
  BY <1>1, <1>2, <1>3
<1>5. \A i \in DOMAIN events' : i \in DOMAIN events \/ events'[i] = e BY <1>4
<1>6. \A i \in DOMAIN events' : events'[i].req \in PageRequests <=> events'[i].kind = "paused"
  BY <1>1, <1>4, <1>5, EventsAssumption DEF OnlyPausedCarry
<1>7. \A q : Events!InQueue(q) => Events!InQueue(q)' BY <1>4 DEF Events!InQueue
<1>8. Len(events) + 1 \in DOMAIN events' BY <1>4
<1>9. Events!InQueue(r)' BY <1>1, <1>4, <1>8 DEF Events!InQueue
<1> QED BY <1>4, <1>6, <1>7, <1>9

LEMMA PageAsks ==
    ASSUME EventInv, Events!RaiseDialog \/ \E q \in PageRequests : Events!Ask(q) PROVE EventInv'
<1>1. CASE Events!RaiseDialog
  <2>1. /\ events' = Append(events, [kind |-> "dialog", req |-> None])
        /\ UNCHANGED <<handling, request>>
    BY <1>1 DEF Events!RaiseDialog
  <2>2. /\ events' \in Seq(EventNotices)
        /\ \A i \in DOMAIN events' : events'[i].req \in PageRequests <=> events'[i].kind = "paused"
        /\ \A q : Events!InQueue(q) => Events!InQueue(q)'
    BY <2>1, EventArrives DEF EventInv
  <2> QED BY <2>1, <2>2 DEF EventInv, EventTypes, OnlyPausedCarry, DecidedIsAFate,
    Events!NobodyIsLeftPaused
<1>2. ASSUME NEW r \in PageRequests, Events!Ask(r) PROVE EventInv'
  <2>1. /\ events' = Append(events, [kind |-> "paused", req |-> r]) /\ UNCHANGED handling
        /\ request' = [request EXCEPT ![r] = "paused"]
    BY <1>2 DEF Events!Ask
  <2>2. /\ events' \in Seq(EventNotices)
        /\ \A i \in DOMAIN events' : events'[i].req \in PageRequests <=> events'[i].kind = "paused"
        /\ \A q : Events!InQueue(q) => Events!InQueue(q)'
        /\ Events!InQueue(r)'
    BY <2>1, EventArrives DEF EventInv
  <2>3. EventTypes' BY <2>1, <2>2 DEF EventInv, EventTypes
  <2>4. \A q \in PageRequests : request'[q] = request[q] \/ q = r BY <2>1 DEF EventInv, EventTypes
  <2> QED BY <2>1, <2>2, <2>3, <2>4 DEF EventInv, OnlyPausedCarry, DecidedIsAFate,
    Events!NobodyIsLeftPaused
<1> QED BY <1>1, <1>2

LEMMA LoopTakes == ASSUME EventInv, Events!Take PROVE EventInv'
<1> DEFINE e == Head(events)
<1>1. /\ handling.pc = "idle" /\ events # <<>> /\ events' = Tail(events) /\ request' = request
      /\ handling' = CASE e.kind = "attached" -> [Events!Resting EXCEPT !.pc = "enable", !.step = 1]
                       [] e.kind = "dialog"   -> [Events!Resting EXCEPT !.pc = "accept"]
                       [] e.kind = "paused"   ->
                             [Events!Resting EXCEPT !.pc = "decide", !.req = e.req]
  BY DEF Events!Take
<1>2. events \in Seq(EventNotices) /\ handling.req = None
  BY <1>1 DEF EventInv, EventTypes, OnlyPausedCarry
<1>3. /\ events' \in Seq(EventNotices) /\ 1 \in DOMAIN events /\ e = events[1]
      /\ \A i \in DOMAIN events' : i + 1 \in DOMAIN events /\ events'[i] = events[i + 1]
      /\ \A i \in DOMAIN events : i = 1 \/ (i - 1 \in DOMAIN events' /\ events'[i - 1] = events[i])
  BY <1>1, <1>2
<1>4. /\ e.req \in PageRequests \cup {None} /\ e.kind \in {"attached", "dialog", "paused"}
      /\ e.req \in PageRequests <=> e.kind = "paused"
  BY <1>3, EventElements DEF EventInv, OnlyPausedCarry
<1> HIDE DEF e
<1>5. /\ handling' \in LoopStates
      /\ handling'.req = IF e.kind = "paused" THEN e.req ELSE None
      /\ handling'.pc = CASE e.kind = "attached" -> "enable"
                          [] e.kind = "dialog" -> "accept" [] e.kind = "paused" -> "decide"
  <2>1. CASE e.kind = "attached"
    <3>1. handling' = [pc |-> "enable", step |-> 1, req |-> None, act |-> "none"] BY <1>1,
      <2>1 DEF Events!Resting
    <3> QED BY <2>1, <3>1 DEF LoopStates
  <2>2. CASE e.kind = "dialog"
    <3>1. handling' = [pc |-> "accept", step |-> 0, req |-> None, act |-> "none"] BY <1>1,
      <2>2 DEF Events!Resting
    <3> QED BY <2>2, <3>1 DEF LoopStates
  <2>3. CASE e.kind = "paused"
    <3>1. handling' = [pc |-> "decide", step |-> 0, req |-> e.req, act |-> "none"] BY <1>1,
      <2>3 DEF Events!Resting
    <3> QED BY <1>4, <2>3, <3>1 DEF LoopStates
  <2> QED BY <1>4, <2>1, <2>2, <2>3
<1>6. EventTypes' BY <1>1, <1>3, <1>5 DEF EventInv, EventTypes
<1>7. OnlyPausedCarry'
  <2>1. \A i \in DOMAIN events' : events'[i].req \in PageRequests <=> events'[i].kind = "paused"
    BY <1>3 DEF EventInv, OnlyPausedCarry
  <2> QED BY <1>4, <1>5, <2>1 DEF OnlyPausedCarry
<1>8. Events!NobodyIsLeftPaused'
  <2> SUFFICES ASSUME NEW q \in PageRequests, request[q] = "paused"
               PROVE Events!InQueue(q)' \/ handling'.req = q
    BY <1>1 DEF Events!NobodyIsLeftPaused
  <2>1. Events!InQueue(q) BY <1>2, EventsAssumption DEF EventInv, Events!NobodyIsLeftPaused
  <2>2. PICK i \in DOMAIN events : events[i].req = q BY <2>1 DEF Events!InQueue
  <2>3. CASE i = 1 BY <1>3, <1>4, <1>5, <2>2, <2>3
  <2>4. CASE i # 1 BY <1>3, <2>2, <2>4 DEF Events!InQueue
  <2> QED BY <2>3, <2>4
<1>9. DecidedIsAFate' BY <1>4, <1>5 DEF DecidedIsAFate
<1> QED BY <1>6, <1>7, <1>8, <1>9 DEF EventInv

\* The loop goes on with the same request in its hands, or lets go one that is
\* no longer paused.
LEMMA LoopGoesOn ==
    ASSUME EventInv, events' = events,
           request' \in [PageRequests -> {"new", "paused"} \cup Events!Fates],
           \A q \in PageRequests : request'[q] = "paused" => request[q] = "paused",
           handling' \in LoopStates,
           \/ /\ handling' = Events!Resting
              /\ handling.req \in PageRequests => request'[handling.req] # "paused"
           \/ /\ handling'.req = handling.req
              /\ handling'.pc \in {"idle", "enable", "accept"}
                    <=> handling.pc \in {"idle", "enable", "accept"}
              /\ handling'.pc = "act" => handling'.act \in Events!Fates
    PROVE  EventInv'
<1>1. EventTypes' BY DEF EventInv, EventTypes
<1>2. OnlyPausedCarry' BY RestingIsFree DEF EventInv, OnlyPausedCarry
<1>3. \A q : Events!InQueue(q)' <=> Events!InQueue(q) BY DEF Events!InQueue
<1>4. Events!NobodyIsLeftPaused' BY <1>3 DEF EventInv, Events!NobodyIsLeftPaused
<1>5. DecidedIsAFate' BY RestingIsFree DEF DecidedIsAFate
<1> QED BY <1>1, <1>2, <1>4, <1>5 DEF EventInv

LEMMA CarriedOutLetsGo ==
    ASSUME EventInv, NEW fate \in Events!Fates, NEW outcome \in Events!Outcomes,
      handling.req \in PageRequests,
           Events!CarriedOut(fate, outcome)
    PROVE  /\ request' \in [PageRequests -> {"new", "paused"} \cup Events!Fates]
           /\ \A q \in PageRequests : request'[q] = "paused" => request[q] = "paused"
           /\ outcome # "refused" => request'[handling.req] # "paused"
           /\ outcome = "refused" => request' = request
  BY DEF Events!CarriedOut, EventInv, EventTypes, Events!Fates

LEMMA LoopHandles ==
    ASSUME EventInv, NEW outcome \in Events!Outcomes,
           Events!Enable(outcome) \/ Events!Accept(outcome) \/ Events!Decide
    PROVE EventInv'
<1>1. events' = events /\ request' = request /\ handling \in LoopStates
      /\ request \in [PageRequests -> {"new", "paused"} \cup Events!Fates]
  BY DEF Events!Enable, Events!Accept, Events!Decide, EventInv, EventTypes
<1>2. CASE Events!Enable(outcome)
  <2>1. /\ handling.pc = "enable" /\ handling.req = None
        /\ handling' = Events!Resting \/ handling' = [handling EXCEPT !.step = @ + 1]
    BY <1>2 DEF Events!Enable, Events!Rest, EventInv, OnlyPausedCarry
  <2>2. CASE handling' = Events!Resting BY <1>1, <2>1, <2>2, LoopGoesOn, RestingIsFree,
    EventsAssumption
  <2>3. CASE handling' = [handling EXCEPT !.step = @ + 1]
    <3>1. handling' \in LoopStates /\ handling'.req = handling.req /\ handling'.pc = handling.pc
      BY <1>1, <2>3 DEF LoopStates
    <3> QED BY <1>1, <2>1, <3>1, LoopGoesOn
  <2> QED BY <2>1, <2>2, <2>3
<1>3. CASE Events!Accept(outcome)
  <2>1. handling.pc = "accept" /\ handling.req = None /\ handling' = Events!Resting
    BY <1>3 DEF Events!Accept, Events!Rest, EventInv, OnlyPausedCarry
  <2> QED BY <1>1, <2>1, LoopGoesOn, RestingIsFree, EventsAssumption
<1>4. CASE Events!Decide
  <2>1. handling.pc = "decide" BY <1>4 DEF Events!Decide
  <2>2. \/ \E a \in {"mocked", "blocked"} : handling' = [handling EXCEPT !.pc = "act", !.act = a]
        \/ handling' = [handling EXCEPT !.pc = "pass"]
    BY <1>4 DEF Events!Decide, Events!LoopTo
  <2>3. handling' \in LoopStates /\ handling'.req = handling.req /\ handling'.pc \in {"act", "pass"}
        /\ (handling'.pc = "act" => handling'.act \in Events!Fates)
    BY <1>1, <2>2 DEF LoopStates, Events!Fates
  <2> QED BY <1>1, <2>1, <2>3, LoopGoesOn
<1> QED BY <1>2, <1>3, <1>4

LEMMA LoopCarriesOut ==
    ASSUME EventInv, NEW outcome \in Events!Outcomes,
           Events!Act(outcome) \/ Events!Fallback(outcome) \/ Events!Pass(outcome)
    PROVE  EventInv'
<1>1. events' = events /\ handling \in LoopStates /\ handling.pc \in {"act", "fallback", "pass"}
  BY DEF Events!Act, Events!Fallback, Events!Pass, EventInv, EventTypes
<1>2. handling.req \in PageRequests BY <1>1 DEF EventInv, OnlyPausedCarry
<1>3. CASE Events!Act(outcome)
  <2>1. handling.pc = "act" /\ Events!CarriedOut(handling.act, outcome)
        /\ IF outcome = "answered" THEN handling' = Events!Resting
           ELSE handling' = [handling EXCEPT !.pc = "fallback"]
    BY <1>3 DEF Events!Act, Events!Rest, Events!LoopTo, Events!AfterFailure
  <2>2. handling.act \in Events!Fates BY <2>1 DEF EventInv, DecidedIsAFate
  <2>3. /\ request' \in [PageRequests -> {"new", "paused"} \cup Events!Fates]
        /\ \A q \in PageRequests : request'[q] = "paused" => request[q] = "paused"
        /\ outcome # "refused" => request'[handling.req] # "paused"
    BY <1>2, <2>1, <2>2, CarriedOutLetsGo
  <2>4. CASE outcome = "answered"
    BY <1>1, <2>1, <2>3, <2>4, LoopGoesOn, RestingIsFree
  <2>5. CASE outcome # "answered"
    <3>1. handling' \in LoopStates /\ handling'.req = handling.req /\ handling'.pc = "fallback"
      BY <1>1, <2>1, <2>5 DEF LoopStates
    <3> QED BY <1>1, <2>1, <2>3, <3>1, LoopGoesOn
  <2> QED BY <2>4, <2>5
<1>4. CASE Events!Fallback(outcome) \/ Events!Pass(outcome)
  <2>1. Events!Passes(outcome) /\ handling' = Events!Resting BY <1>4 DEF Events!Fallback,
    Events!Pass, Events!Rest
  <2>2. /\ Events!CarriedOut("passed", outcome)
        /\ outcome = "refused" => request[handling.req] # "paused"
    BY <2>1 DEF Events!Passes
  <2>3. /\ request' \in [PageRequests -> {"new", "paused"} \cup Events!Fates]
        /\ \A q \in PageRequests : request'[q] = "paused" => request[q] = "paused"
        /\ request'[handling.req] # "paused"
    BY <1>2, <2>2, CarriedOutLetsGo DEF Events!Fates
  <2> QED BY <1>1, <2>1, <2>3, LoopGoesOn, RestingIsFree
<1> QED BY <1>3, <1>4

LEMMA ClientInstalls ==
    ASSUME EventInv,
           \/ Events!Set \/ Events!Insert \/ Events!Remove
           \/ \E o \in Events!Outcomes : Events!FetchEnable(o) \/ Events!FetchDisable(o)
    PROVE  EventInv'
<1>1. events' = events /\ handling' = handling
  BY DEF Events!Set, Events!Insert, Events!Remove, Events!FetchEnable, Events!FetchDisable,
    Events!OfLoop
<1>2. \/ request' = request
      \/ request' = [q \in PageRequests |-> IF request[q] = "paused" THEN "passed" ELSE request[q]]
  BY DEF Events!Set, Events!Insert, Events!Remove, Events!FetchEnable, Events!FetchDisable
<1>3. request' \in [PageRequests -> {"new", "paused"} \cup Events!Fates]
      /\ \A q \in PageRequests : request'[q] = "paused" => request[q] = "paused"
  BY <1>2 DEF EventInv, EventTypes, Events!Fates
<1>4. handling \in LoopStates /\ (handling.pc = "act" => handling.act \in Events!Fates)
  BY DEF EventInv, EventTypes, DecidedIsAFate
<1> QED BY <1>1, <1>3, <1>4, LoopGoesOn

LEMMA StepKeepsEvents == EventInv /\ [Events!Next]_(Events!vars) => EventInv'
<1>1. ASSUME EventInv, UNCHANGED Events!vars PROVE EventInv'
  <2>1. UNCHANGED <<events, handling, request>> BY <1>1 DEF Events!vars
  <2> QED BY <1>1, <2>1, LoopGoesOn DEF EventInv, EventTypes, DecidedIsAFate
<1>2. ASSUME EventInv, Events!Next PROVE EventInv'
  BY <1>2, PageAsks, LoopTakes, LoopHandles, LoopCarriesOut, ClientInstalls DEF Events!Next,
    Events!Outcomes
<1> QED BY <1>1, <1>2

-----------------------------------------------------------------------------
(* Loads: the waiter of a navigation.                                       *)

Notices == [kind : {"load", "closed"}, doc : Nat]
Asking == {"send", "answer", "poll", "ready", "await"}

LoadCalls ==
    [pc : {"idle", "entries", "register"} \cup Asking,
     kind : Loads!Kinds, id : Nat, doc : Nat \cup {None},
     answer : {"none", "moved", "same", "refused"},
     waiter : {"none", "waits", "released", "dropped"}, result : Loads!Results]

LoadTypes ==
    /\ page \in [doc : Nat, ready : BOOLEAN]
    /\ loads \in Seq(Notices)
    /\ nav \in LoadCalls
    /\ navs \in Nat /\ handled \in Nat

\* No event is of a document that is still to come.
EventsAreOld ==
    /\ \A i \in DOMAIN loads : loads[i].doc <= page.doc
    /\ handled <= page.doc

\* Who waits is entered, and what it waits for has not been handled.
WaiterIsEntered ==
    nav.pc \in Asking /\ nav.waiter = "waits" =>
        /\ nav.id \in loadWaiters
        /\ nav.doc # None => handled < nav.doc
NotMovedYet == nav.pc \in {"entries", "register", "send"} => nav.doc = None

LoadInv == LoadTypes /\ EventsAreOld /\ WaiterIsEntered /\ NotMovedYet

LEMMA InitLoads == Loads!Init => LoadInv
  BY DEF Loads!Init, Loads!Idle, LoadInv, LoadTypes, LoadCalls, EventsAreOld, WaiterIsEntered,
    NotMovedYet, Loads!Kinds, Loads!Results, Asking

LEMMA NoticeDocs ==
    LoadTypes => \A i \in DOMAIN loads : loads[i] \in Notices /\ loads[i].doc \in Nat
<1> SUFFICES ASSUME LoadTypes, NEW i \in DOMAIN loads
             PROVE loads[i] \in Notices /\ loads[i].doc \in Nat
  OBVIOUS
<1>1. loads[i] \in Notices BY DEF LoadTypes
<1> QED BY <1>1 DEF Notices

\* The steps of the call that leave the page, the loop and the waiters alone.
LEMMA NavGoesOn ==
    ASSUME LoadInv, UNCHANGED <<page, loads, loadWaiters, navs, handled>>,
           \/ \E result \in Loads!Results : Loads!End(result)
           \/ nav.pc = "entries" /\ Loads!Goto("register")
           \/ nav.pc \in Asking \ {"send"} /\ \E pc \in Asking \ {"send"} : Loads!Goto(pc)
    PROVE  LoadInv'
<1> USE DEF LoadInv, LoadTypes, LoadCalls
<1>1. CASE \E result \in Loads!Results : Loads!End(result)
  <2>1. PICK result \in Loads!Results : nav' = [Loads!Idle EXCEPT !.result = result]
    BY <1>1 DEF Loads!End
  <2>2. nav' = [pc |-> "idle", kind |-> "navigate", id |-> 0, doc |-> None, answer |-> "none",
                 waiter |-> "none", result |-> result]
    BY <2>1 DEF Loads!Idle
  <2>3. LoadTypes' BY <2>2 DEF Loads!Kinds
  <2> QED BY <2>2, <2>3 DEF EventsAreOld, WaiterIsEntered, NotMovedYet, Asking
<1>2. CASE nav.pc = "entries" /\ Loads!Goto("register")
  <2>1. nav' = [nav EXCEPT !.pc = "register"] BY <1>2 DEF Loads!Goto
  <2>2. LoadTypes' BY <2>1
  <2> QED BY <1>2, <2>1, <2>2 DEF EventsAreOld, WaiterIsEntered, NotMovedYet, Asking
<1>3. CASE nav.pc \in Asking \ {"send"} /\ \E pc \in Asking \ {"send"} : Loads!Goto(pc)
  <2>1. PICK pc \in Asking \ {"send"} : nav' = [nav EXCEPT !.pc = pc] BY <1>3 DEF Loads!Goto
  <2>2. LoadTypes' BY <2>1
  <2> QED BY <1>3, <2>1, <2>2 DEF EventsAreOld, WaiterIsEntered, NotMovedYet, Asking
<1> QED BY <1>1, <1>2, <1>3

LEMMA LoadBegins == ASSUME LoadInv, NEW kind \in Loads!Kinds, Loads!Begin(kind) PROVE LoadInv'
<1>1. nav' = [pc |-> IF kind = "history" THEN "entries" ELSE "register", kind |-> kind,
               id |-> navs + 1, doc |-> None, answer |-> "none", waiter |-> "none",
                 result |-> "none"]
  BY DEF Loads!Begin, Loads!Idle
<1>2. nav' \in LoadCalls BY <1>1 DEF LoadInv, LoadTypes, LoadCalls, Loads!Results
<1>3. LoadTypes' BY <1>2 DEF Loads!Begin, LoadInv, LoadTypes
<1>4. nav'.pc \notin Asking /\ nav'.doc = None BY <1>1 DEF Asking
<1> QED BY <1>3, <1>4 DEF Loads!Begin, LoadInv, EventsAreOld, WaiterIsEntered, NotMovedYet

LEMMA LoadGoesOn ==
    ASSUME LoadInv, Loads!Entries \/ Loads!Answer \/ Loads!Poll \/ Loads!Ready \/ Loads!Await
      \/ Loads!Cut
    PROVE  LoadInv'
<1>1. UNCHANGED <<page, loads, loadWaiters, navs, handled>>
  BY DEF Loads!Entries, Loads!Answer, Loads!Poll, Loads!Ready, Loads!Await, Loads!Cut,
    Loads!Calling, Loads!Enters, Loads!EntersAt
<1>2. \/ \E result \in Loads!Results : Loads!End(result)
      \/ nav.pc = "entries" /\ Loads!Goto("register")
      \/ nav.pc \in Asking \ {"send"} /\ \E pc \in Asking \ {"send"} : Loads!Goto(pc)
  BY DEF Loads!Entries, Loads!Answer, Loads!Poll, Loads!Ready, Loads!Await, Loads!Cut,
    Loads!Results, Asking
<1> QED BY <1>1, <1>2, NavGoesOn

LEMMA LoadRegisters == LoadInv /\ Loads!Register => LoadInv'
<1> SUFFICES ASSUME LoadInv, Loads!Register PROVE LoadInv' OBVIOUS
<1>1. nav' = [nav EXCEPT !.pc = "send", !.waiter = "waits"]
        /\ loadWaiters' = loadWaiters \cup {nav.id}
      /\ UNCHANGED <<page, loads, navs, handled>>
  BY DEF Loads!Register, Loads!Enters, Loads!EntersAt, Loads!Calling
<1>2. LoadTypes' BY <1>1 DEF LoadInv, LoadTypes, LoadCalls, Asking
<1>3. nav'.id \in loadWaiters' /\ nav'.doc = None
  BY <1>1 DEF Loads!Register, LoadInv, LoadTypes, LoadCalls, NotMovedYet
<1> QED BY <1>1, <1>2, <1>3 DEF LoadInv, EventsAreOld, WaiterIsEntered, NotMovedYet

LEMMA LoadIsCarriedOut == LoadInv /\ Loads!CarriesOut => LoadInv'
<1> SUFFICES ASSUME LoadInv, Loads!CarriesOut PROVE LoadInv' OBVIOUS
<1>1. nav.pc = "send" /\ nav.doc = None /\ UNCHANGED <<loads, loadWaiters, navs, handled>>
  BY DEF Loads!CarriesOut, LoadInv, NotMovedYet
<1>2. CASE /\ page' = [doc |-> page.doc + 1, ready |-> FALSE]
           /\ nav' = [nav EXCEPT !.pc = "answer", !.answer = "moved", !.doc = page.doc + 1]
  <2>0. page.doc \in Nat BY DEF LoadInv, LoadTypes
  <2> DEFINE d == page.doc + 1
  <2>a. d \in Nat /\ page' = [doc |-> d, ready |-> FALSE]
        /\ nav' = [nav EXCEPT !.pc = "answer", !.answer = "moved", !.doc = d]
    BY <1>2, <2>0
  <2>b. page.doc <= d BY <2>0
  <2> HIDE DEF d
  <2>1. LoadTypes'
    <3>1. nav' \in LoadCalls BY <2>a DEF LoadInv, LoadTypes, LoadCalls, Asking
    <3>2. page' \in [doc : Nat, ready : BOOLEAN] BY <2>a
    <3> QED BY <1>1, <3>1, <3>2 DEF LoadInv, LoadTypes
  <2>2. EventsAreOld'
    <3>1. \A i \in DOMAIN loads : loads[i].doc \in Nat BY NoticeDocs DEF LoadInv
    <3>2. page'.doc = d BY <2>a
    <3>3. \A i \in DOMAIN loads : loads[i].doc <= d
      BY <2>0, <2>a, <2>b, <3>1 DEF LoadInv, EventsAreOld
    <3>4. handled <= d BY <2>0, <2>a, <2>b DEF LoadInv, LoadTypes, EventsAreOld
    <3> QED BY <1>1, <3>2, <3>3, <3>4 DEF EventsAreOld
  <2>3. /\ nav'.pc = "answer" /\ nav'.id = nav.id /\ nav'.waiter = nav.waiter
        /\ nav'.doc = page.doc + 1
    BY <2>a DEF LoadInv, LoadTypes, LoadCalls, d
  <2>4. handled < page.doc + 1 BY <2>0 DEF LoadInv, LoadTypes, EventsAreOld
  <2>5. WaiterIsEntered' BY <1>1, <2>3, <2>4 DEF LoadInv, WaiterIsEntered, Asking
  <2> QED BY <2>1, <2>2, <2>3, <2>5 DEF LoadInv, NotMovedYet
<1>3. CASE page' = page /\ \E a \in {"same", "refused"} :
             nav' = [nav EXCEPT !.pc = "answer", !.answer = a]
  <2>1. PICK a \in {"same", "refused"} : nav' = [nav EXCEPT !.pc = "answer", !.answer = a] BY <1>3
  <2>2. LoadTypes' BY <1>1, <1>3, <2>1 DEF LoadInv, LoadTypes, LoadCalls, Asking
  <2>3. nav'.pc = "answer" /\ nav'.id = nav.id /\ nav'.waiter = nav.waiter /\ nav'.doc = nav.doc
    BY <2>1 DEF LoadInv, LoadTypes, LoadCalls
  <2> QED BY <1>1, <1>3, <2>2, <2>3 DEF LoadInv, EventsAreOld, WaiterIsEntered, NotMovedYet, Asking
<1> QED BY <1>2, <1>3 DEF Loads!CarriesOut

LEMMA PageMoves == LoadInv /\ (Loads!Loads \/ Loads!MovesItself \/ Loads!Closes) => LoadInv'
<1> SUFFICES ASSUME LoadInv, Loads!Loads \/ Loads!MovesItself \/ Loads!Closes PROVE LoadInv' OBVIOUS
<1>1. UNCHANGED <<loadWaiters, nav, navs, handled>> BY DEF Loads!Loads, Loads!MovesItself,
  Loads!Closes
<1>2. /\ page' \in [doc : Nat, ready : BOOLEAN] /\ page'.doc >= page.doc
      /\ page.doc \in Nat /\ page'.doc \in Nat
  <2>1. page.doc \in Nat /\ page.ready \in BOOLEAN /\ page \in [doc : Nat, ready : BOOLEAN]
    BY DEF LoadInv, LoadTypes
  <2>2. CASE Loads!Loads
    <3>1. page' = [page EXCEPT !.ready = TRUE] BY <2>2 DEF Loads!Loads
    <3>2. page' \in [doc : Nat, ready : BOOLEAN] BY <2>1, <3>1
    <3>3. page'.doc = page.doc BY <2>1, <3>1
    <3> QED BY <2>1, <3>2, <3>3
  <2>3. CASE Loads!MovesItself
    <3>1. page' = [doc |-> page.doc + 1, ready |-> FALSE] BY <2>3 DEF Loads!MovesItself
    <3> QED BY <2>1, <3>1
  <2>4. CASE Loads!Closes
    <3>1. page' = page BY <2>4 DEF Loads!Closes
    <3> QED BY <2>1, <3>1
  <2> QED BY <2>2, <2>3, <2>4
<1>3. \/ loads' = loads
      \/ \E kind \in {"load", "closed"} :
           loads' = Append(loads, [kind |-> kind, doc |-> page.doc])
  BY DEF Loads!Loads, Loads!MovesItself, Loads!Closes
<1>4. loads' \in Seq(Notices) /\ \A i \in DOMAIN loads' : loads'[i].doc <= page.doc
  <2>1. loads \in Seq(Notices) /\ \A i \in DOMAIN loads : loads[i].doc <= page.doc
    BY DEF LoadInv, LoadTypes, EventsAreOld
  <2>2. CASE loads' = loads BY <2>1, <2>2
  <2>3. ASSUME NEW kind \in {"load", "closed"},
               loads' = Append(loads, [kind |-> kind, doc |-> page.doc])
        PROVE  loads' \in Seq(Notices) /\ \A i \in DOMAIN loads' : loads'[i].doc <= page.doc
    <3> DEFINE e == [kind |-> kind, doc |-> page.doc]
    <3>1. e \in Notices /\ e.doc = page.doc BY <1>2 DEF Notices
    <3> HIDE DEF e
    <3>2. loads' = Append(loads, e) BY <2>3 DEF e
    <3> QED BY <1>2, <2>1, <3>1, <3>2
  <2> QED BY <1>3, <2>2, <2>3
<1>5. EventsAreOld'
  <2>1. \A i \in DOMAIN loads' : loads'[i].doc \in Nat
    <3> SUFFICES ASSUME NEW i \in DOMAIN loads' PROVE loads'[i].doc \in Nat OBVIOUS
    <3>1. loads'[i] \in Notices BY <1>4
    <3> QED BY <3>1 DEF Notices
  <2> QED BY <1>1, <1>2, <1>4, <2>1 DEF LoadInv, LoadTypes, EventsAreOld
<1> QED BY <1>1, <1>2, <1>4, <1>5 DEF LoadInv, LoadTypes, WaiterIsEntered, NotMovedYet

LEMMA LoadIsHandled == LoadInv /\ Loads!Handle => LoadInv'
<1> SUFFICES ASSUME LoadInv, Loads!Handle PROVE LoadInv' OBVIOUS
<1> DEFINE e == Head(loads)
<1>1. /\ loads \in Seq(Notices) /\ loads # <<>> /\ loads' = Tail(loads) /\ loadWaiters' = {}
      /\ UNCHANGED <<page, navs>>
      /\ nav' = IF nav.id \in loadWaiters
                 THEN [nav EXCEPT !.waiter = IF e.kind = "load" THEN "released" ELSE "dropped"]
                 ELSE nav
      /\ handled' = IF e.kind = "load" THEN e.doc ELSE handled
  BY DEF Loads!Handle, LoadInv, LoadTypes
<1>2. e \in Notices /\ e = loads[1] /\ 1 \in DOMAIN loads BY <1>1
<1>3. loads' \in Seq(Notices) /\ \A i \in DOMAIN loads' : \E j \in DOMAIN loads :
        loads'[i] = loads[j]
  BY <1>1
<1>4. handled' \in Nat /\ handled' <= page.doc
  BY <1>1, <1>2 DEF LoadInv, LoadTypes, EventsAreOld, Notices
<1>5. EventsAreOld' BY <1>1, <1>3, <1>4 DEF LoadInv, EventsAreOld
<1> HIDE DEF e
<1>6. /\ nav'.pc = nav.pc /\ nav'.doc = nav.doc
      /\ nav.pc \in Asking => nav'.waiter # "waits"
  BY <1>1 DEF LoadInv, LoadTypes, WaiterIsEntered
<1>7. nav' \in LoadCalls
  BY <1>1 DEF LoadInv, LoadTypes, LoadCalls
<1>8. LoadTypes' BY <1>1, <1>3, <1>4, <1>7 DEF LoadInv, LoadTypes
<1> QED BY <1>5, <1>6, <1>8 DEF LoadInv, WaiterIsEntered, NotMovedYet

LEMMA StepKeepsLoads == LoadInv /\ [Loads!Next]_(Loads!vars) => LoadInv'
<1>1. LoadInv /\ UNCHANGED Loads!vars => LoadInv'
  BY DEF Loads!vars, LoadInv, LoadTypes, EventsAreOld, WaiterIsEntered, NotMovedYet
<1> QED BY <1>1, LoadBegins, LoadGoesOn, LoadRegisters, LoadIsCarriedOut, PageMoves,
  LoadIsHandled DEF Loads!Next

LEMMA LoadInvImplies == LoadInv => Loads!LoadIsNotMissed
  BY DEF LoadInv, LoadTypes, LoadCalls, WaiterIsEntered, Loads!LoadIsNotMissed, Asking

-----------------------------------------------------------------------------
(* Keys of the proxy: the end of one that has expired.                       *)

KeyTypes ==
    /\ key \in [Sids -> [ins : Instances \cup {None},
                             life : {"unborn", "valid", "expired", "swept", "cleared"}]]
    /\ proxied \in [Calls -> Keys!Request]
    /\ sweep.found \subseteq Sids

KeyInv == KeyTypes /\ Keys!ExpiryIsAudited

LEMMA InitKeys == Keys!Init => KeyInv
  BY DEF Keys!Init, KeyInv, KeyTypes, Keys!ExpiryIsAudited, Keys!Request, Keys!NoRequest

\* Who is in the table leaves it, and nobody else changes.
LEMMA LeavesTypes ==
    ASSUME KeyTypes, NEW G, NEW how \in {"swept", "cleared"}, key' = Keys!Leaves(G, how)
    PROVE  /\ key' \in [Sids -> [ins : Instances \cup {None},
                                     life : {"unborn", "valid", "expired", "swept", "cleared"}]]
           /\ \A s \in Sids : key'[s].life = key[s].life \/ (key'[s].life = how /\ s \in G)
<1>1. \A s \in Sids : [key[s] EXCEPT !.life = how] \in
         [ins : Instances \cup {None}, life : {"unborn", "valid", "expired", "swept", "cleared"}]
  BY DEF KeyTypes
<1>2. \A s \in Sids : [key[s] EXCEPT !.life = how].life = how BY DEF KeyTypes
<1> QED BY <1>1, <1>2 DEF Keys!Leaves, KeyTypes

\* Who moves on in its request is another caller's concern only.
LEMMA RequestTypes ==
    ASSUME KeyTypes, NEW c \in Calls
    PROVE  /\ \A pc \in {"idle", "issue", "validate", "audit", "port", "bridge"} :
                 [proxied EXCEPT ![c].pc = pc] \in [Calls -> Keys!Request]
           /\ [proxied EXCEPT ![c] = Keys!NoRequest] \in [Calls -> Keys!Request]
  BY DEF KeyTypes, Keys!Request, Keys!NoRequest

\* What is not audited stays in somebody's hands unless this step lets it go.
LEMMA HandsKeep ==
    ASSUME KeyInv, KeyTypes', audited \subseteq audited', NEW c \in Calls,
           \A d \in Calls \ {c} : proxied'[d] = proxied[d],
           proxied[c].pc = "audit" => proxied[c].sid \in audited',
           UNCHANGED <<key, sweep>>
    PROVE  KeyInv'
  BY DEF KeyInv, Keys!ExpiryIsAudited

LEMMA RequestStepKeeps ==
    ASSUME KeyInv, NEW c \in Calls,
           \/ Keys!AuditOutdated(c) \/ Keys!CheckPort(c) \/ Keys!BridgeEnds(c)
           \/ \E i \in Instances : Keys!BeginIssue(c, i) \/ \E s \in Sids : Keys!BeginProxy(c, i, s)
    PROVE  KeyInv'
<1>1. proxied' \in [Calls -> Keys!Request]
  <2>1. ASSUME NEW i \in Instances,
               Keys!BeginIssue(c, i) \/ \E s \in Sids : Keys!BeginProxy(c, i, s)
        PROVE  proxied' \in [Calls -> Keys!Request]
    BY <2>1 DEF KeyInv, KeyTypes, Keys!Request, Keys!BeginIssue, Keys!BeginProxy
  <2>2. ASSUME Keys!AuditOutdated(c) \/ Keys!CheckPort(c) \/ Keys!BridgeEnds(c)
        PROVE proxied' \in [Calls -> Keys!Request]
    BY <2>2, RequestTypes DEF KeyInv, Keys!AuditOutdated, Keys!CheckPort, Keys!BridgeEnds,
      Keys!Goto, Keys!Done
  <2> QED BY <2>1, <2>2
<1>3. \A d \in Calls \ {c} : proxied'[d] = proxied[d]
  BY DEF KeyInv, KeyTypes, Keys!AuditOutdated, Keys!CheckPort, Keys!BridgeEnds, Keys!BeginIssue,
    Keys!BeginProxy, Keys!Goto, Keys!Done
<1>2. /\ audited \subseteq audited' /\ UNCHANGED <<key, sweep>>
      /\ proxied[c].pc = "audit" => proxied[c].sid \in audited'
  BY DEF Keys!AuditOutdated, Keys!CheckPort, Keys!BridgeEnds, Keys!BeginIssue, Keys!BeginProxy
<1>4. KeyTypes' BY <1>1, <1>2 DEF KeyInv, KeyTypes
<1> QED BY <1>2, <1>3, <1>4, HandsKeep

LEMMA IssueKeeps == ASSUME KeyInv, NEW c \in Calls, NEW s \in Sids, Keys!Issue(c, s) PROVE KeyInv'
<1>1. key' \in [Sids -> [ins : Instances \cup {None},
                             life : {"unborn", "valid", "expired", "swept", "cleared"}]]
  BY DEF Keys!Issue, KeyInv, KeyTypes, Keys!Request
<1>2. KeyTypes' BY <1>1, RequestTypes DEF Keys!Issue, Keys!Done, KeyInv, KeyTypes
<1>3. \A x \in Sids : key'[x].life = "swept" => key[x].life = "swept"
  BY DEF Keys!Issue, KeyInv, KeyTypes
<1>4. \A d \in Calls : proxied[d].pc = "audit" => proxied'[d] = proxied[d]
  BY DEF Keys!Issue, Keys!Done, KeyInv, KeyTypes
<1> QED BY <1>2, <1>3, <1>4 DEF Keys!Issue, KeyInv, Keys!ExpiryIsAudited

LEMMA ValidateKeeps == ASSUME KeyInv, NEW c \in Calls, Keys!Validate(c) PROVE KeyInv'
<1> DEFINE r == proxied[c]
<1>1. CASE key' = key
  <2>1. proxied' \in [Calls -> Keys!Request]
    <3>1. Keys!Goto(c, "port") \/ Keys!Goto(c, "audit") \/ Keys!Done(c) BY <1>1 DEF Keys!Validate,
      Keys!Outdated
    <3> QED BY <3>1, RequestTypes DEF KeyInv, Keys!Goto, Keys!Done
  <2>2. \A d \in Calls \ {c} : proxied'[d] = proxied[d]
    BY DEF Keys!Validate, Keys!Outdated, KeyInv, KeyTypes, Keys!Goto, Keys!Done
  <2>3. KeyTypes' BY <1>1, <2>1 DEF Keys!Validate, KeyInv, KeyTypes
  <2> QED BY <1>1, <2>2, <2>3, HandsKeep DEF Keys!Validate
<1>2. CASE r.sid \in Keys!Expired /\ Keys!Goto(c, "audit") /\ key' = Keys!Leaves({r.sid}, "swept")
  <2>1. KeyTypes'
    BY <1>2, LeavesTypes, RequestTypes DEF Keys!Validate, KeyInv, KeyTypes, Keys!Goto
  <2>2. \A s \in Sids : key'[s].life = "swept" => key[s].life = "swept" \/ s = r.sid
    <3>1. key' = Keys!Leaves({r.sid}, "swept") /\ KeyTypes BY <1>2 DEF KeyInv
    <3>2. \A s \in Sids : key'[s].life = key[s].life \/ s \in {r.sid}
      BY <3>1, LeavesTypes
    <3> QED BY <3>2
  <2>3. proxied'[c].pc = "audit" /\ proxied'[c].sid = r.sid
    BY <1>2 DEF Keys!Goto, KeyInv, KeyTypes, Keys!Request
  <2>4. \A d \in Calls : proxied[d].pc = "audit" => proxied'[d] = proxied[d]
    BY <1>2 DEF Keys!Validate, Keys!Goto, KeyInv, KeyTypes
  <2> QED BY <2>1, <2>2, <2>3, <2>4 DEF Keys!Validate, KeyInv, Keys!ExpiryIsAudited
<1> QED BY <1>1, <1>2 DEF Keys!Validate, Keys!Outdated

LEMMA RotateKeeps == KeyInv /\ Keys!Rotate => KeyInv'
<1> SUFFICES ASSUME KeyInv, Keys!Rotate PROVE KeyInv' OBVIOUS
<1>1. /\ key' \in [Sids -> [ins : Instances \cup {None},
                                life : {"unborn", "valid", "expired", "swept", "cleared"}]]
      /\ \A s \in Sids : key'[s].life = "swept" => key[s].life = "swept"
  BY LeavesTypes DEF Keys!Rotate, KeyInv
<1> QED BY <1>1 DEF Keys!Rotate, KeyInv, KeyTypes, Keys!ExpiryIsAudited

LEMMA SweepKeeps == KeyInv /\ (Keys!SweepFind \/ Keys!SweepRemove \/ Keys!SweepAudit) => KeyInv'
<1>1. ASSUME KeyInv, Keys!SweepFind PROVE KeyInv'
  BY <1>1 DEF Keys!SweepFind, KeyInv, KeyTypes, Keys!ExpiryIsAudited, Keys!Expired
<1>2. ASSUME KeyInv, Keys!SweepRemove PROVE KeyInv'
  <2>1. key' = Keys!Leaves(sweep.found, "swept") /\ sweep' = [sweep EXCEPT !.pc = "audit"]
        /\ UNCHANGED <<proxied, audited>>
    BY <1>2 DEF Keys!SweepRemove
  <2>2. sweep'.found = sweep.found
    BY <2>1
  <2>3. KeyTypes' BY <1>2, <2>1, <2>2, LeavesTypes DEF KeyInv, KeyTypes
  <2> QED BY <1>2, <2>1, <2>2, <2>3, LeavesTypes DEF KeyInv, Keys!ExpiryIsAudited
<1>3. ASSUME KeyInv, Keys!SweepAudit PROVE KeyInv'
  BY <1>3 DEF Keys!SweepAudit, KeyInv, KeyTypes, Keys!ExpiryIsAudited
<1> QED BY <1>1, <1>2, <1>3

LEMMA ExpireKeeps == ASSUME KeyInv, NEW s \in Sids, Keys!Expire(s) PROVE KeyInv'
  BY DEF Keys!Expire, KeyInv, KeyTypes, Keys!ExpiryIsAudited

LEMMA StepKeepsKeys == KeyInv /\ [Keys!Next]_(Keys!vars) => KeyInv'
<1> SUFFICES ASSUME KeyInv, [Keys!Next]_(Keys!vars) PROVE KeyInv' OBVIOUS
<1>1. CASE UNCHANGED Keys!vars BY <1>1 DEF Keys!vars, KeyInv, KeyTypes, Keys!ExpiryIsAudited
<1>2. ASSUME NEW i \in Instances, Keys!StopOrStart(i) PROVE KeyInv'
  BY <1>2 DEF Keys!StopOrStart, KeyInv, KeyTypes, Keys!ExpiryIsAudited
<1> QED
  BY <1>1, <1>2, RequestStepKeeps, IssueKeeps, ValidateKeeps, RotateKeeps, SweepKeeps,
    ExpireKeeps DEF Keys!Next

-----------------------------------------------------------------------------
(* The element references of a tab.  Kept is the invariant: a reference that may be  *)
(* used has its frame registered, and is of the document that is there, or the end   *)
(* of the frame is told, or its navigation is, on every session the table may get.   *)

RefsAssumption ==
    /\ None \notin TabFrames /\ IsFiniteSet(TabFrames)
    /\ None \notin Refs!Sess /\ MaxSess \in Nat

RefEvents ==
    [kind : {"navigated", "opened", "updated"}, frame : {None}, sess : {None}]
      \cup [kind : {"updated", "session"}, frame : TabFrames, sess : Refs!Sess]
      \cup [kind : {"attached", "detached", "ended"}, frame : TabFrames, sess : {None}]

FrameState ==
    [life : {"new", "there", "out", "dead"}, doc : Nat, live : SUBSET Refs!Sess, drawn : 0..MaxSess]
Entries == [known : BOOLEAN, sess : Refs!Sess \cup {None}, owner : BOOLEAN]
TabRefs == [in : TabFrames \cup {None}, doc : Nat, stale : BOOLEAN]
Snapshots ==
    [pc : Refs!Pcs, todo : SUBSET TabFrames, orphans : [TabFrames -> Refs!Sess \cup {None}],
     with : [TabFrames -> Refs!Sess \cup {None}], at : TabFrames \cup {None},
     sess : Refs!Sess \cup {None},
     refs : SUBSET TabRefs, overtaken : BOOLEAN]

RefTypes ==
    /\ doc \in Nat
    /\ frame \in [TabFrames -> FrameState]
    /\ queue \in Seq(RefEvents)
    /\ table \in [TabFrames -> Entries]
    /\ orphan \in [TabFrames -> Refs!Sess \cup {None}]
    /\ store = None \/ store \in [refs : SUBSET TabRefs, stale : BOOLEAN]
    /\ snap \in Snapshots
    /\ overtaken \in BOOLEAN

-----------------------------------------------------------------------------
(* What the events under way tell.                                           *)

\* The page gets another document; a frame goes with it, or by itself.
PageLeft(q) == \E i \in DOMAIN q : q[i].frame = None
FrameLeft(q, f) ==
    PageLeft(q) \/ \E i \in DOMAIN q : q[i].frame = f /\ q[i].kind \in {"detached", "ended"}

\* A session the loop knows of at i is alive, or told to have ended, or its frame is
\* gone for good.
EndTold(q, f, i) == \E j \in DOMAIN q : j > i /\ q[j].frame = f /\ q[j].kind = "ended"
Accounted(q, x, f, s, i) == s \in x.live \/ x.life = "dead" \/ EndTold(q, f, i)

Brings(e, f) == e.frame = f /\ e.kind \in {"session", "attached"}

\* The sessions the table may have for a frame until the queue is handled.
MayBe(q, own, other, f, s) ==
    \/ s = own
    \/ s = other /\ \E i \in DOMAIN q : q[i].frame = f /\ q[i].kind = "attached"
    \/ \E i \in DOMAIN q : q[i].frame = f /\ q[i].kind = "session" /\ q[i].sess = s

\* A navigation of the frame is told on each of them, after all that bring another one.
UpdateAt(q, f, s, i) ==
    /\ q[i].frame = f /\ q[i].kind = "updated" /\ q[i].sess = s
    /\ \A j \in DOMAIN q : Brings(q[j], f) => j < i
UpdateTold(q, own, other, f) ==
    \A s \in Refs!Sess : MayBe(q, own, other, f, s) => \E i \in DOMAIN q : UpdateAt(q, f, s, i)

LEMMA EventFacts ==
    ASSUME RefsAssumption, NEW e \in RefEvents
    PROVE  /\ e.frame \in TabFrames \cup {None}
           /\ e.kind \in {"navigated", "opened", "updated", "session", "attached", "detached",
                          "ended"}
           /\ e.frame = None => e.kind \in {"navigated", "opened", "updated"}
           /\ e.kind \in {"navigated", "opened"} => e.frame = None
           /\ e.frame # None /\ e.kind \in {"updated", "session"} => e.sess \in Refs!Sess
BY DEF RefEvents, RefsAssumption

LEMMA Joined ==
    ASSUME NEW q \in Seq(RefEvents), NEW more \in Seq(RefEvents)
    PROVE  /\ q \o more \in Seq(RefEvents)
           /\ DOMAIN (q \o more) = 1..(Len(q) + Len(more)) /\ Len(q) \in Nat /\ Len(more) \in Nat
           /\ DOMAIN q = 1..Len(q) /\ DOMAIN more = 1..Len(more)
           /\ \A i \in DOMAIN q : i \in DOMAIN (q \o more) /\ (q \o more)[i] = q[i]
           /\ \A i \in DOMAIN more :
                 i + Len(q) \in DOMAIN (q \o more) /\ (q \o more)[i + Len(q)] = more[i]
           /\ \A i \in DOMAIN (q \o more) :
                 i \in DOMAIN q \/ (i - Len(q) \in DOMAIN more /\ i > Len(q))
           /\ \A i \in DOMAIN (q \o more) \ DOMAIN q : (q \o more)[i] = more[i - Len(q)]
OBVIOUS

\* What is told stays told.
LEMMA StillTold ==
    ASSUME NEW q \in Seq(RefEvents), NEW more \in Seq(RefEvents)
    PROVE  /\ PageLeft(q) \/ PageLeft(more) => PageLeft(q \o more)
           /\ \A f : FrameLeft(q, f) \/ FrameLeft(more, f) => FrameLeft(q \o more, f)
           /\ \A f : \A i : EndTold(q, f, i) => EndTold(q \o more, f, i)
           /\ \A f : EndTold(more, f, 0) => \A i \in 0..Len(q) : EndTold(q \o more, f, i)
<1> DEFINE all == q \o more
<1>1. /\ Len(q) \in Nat /\ DOMAIN more = 1..Len(more)
      /\ \A i \in DOMAIN q : i \in DOMAIN all /\ all[i] = q[i]
      /\ \A i \in DOMAIN more : i + Len(q) \in DOMAIN all /\ all[i + Len(q)] = more[i]
  BY Joined
<1> HIDE DEF all
<1>2. PageLeft(q) \/ PageLeft(more) => PageLeft(all) BY <1>1 DEF PageLeft
<1>3. ASSUME NEW f, FrameLeft(q, f) \/ FrameLeft(more, f) PROVE FrameLeft(all, f)
  BY <1>1, <1>2, <1>3 DEF FrameLeft
<1>4. ASSUME NEW f, NEW i, EndTold(q, f, i) PROVE EndTold(all, f, i) BY <1>1, <1>4 DEF EndTold
<1>5. ASSUME NEW f, EndTold(more, f, 0), NEW i \in 0..Len(q) PROVE EndTold(all, f, i)
  <2>1. PICK j \in DOMAIN more : more[j].frame = f /\ more[j].kind = "ended" BY <1>5 DEF EndTold
  <2>2. j + Len(q) > i BY <1>1
  <2> QED BY <1>1, <2>1, <2>2 DEF EndTold
<1> QED BY <1>2, <1>3, <1>4, <1>5 DEF all

LEMMA StillUpdated ==
    ASSUME NEW q \in Seq(RefEvents), NEW more \in Seq(RefEvents), NEW f, NEW own, NEW other,
           \A i \in DOMAIN more : ~Brings(more[i], f), UpdateTold(q, own, other, f)
    PROVE  UpdateTold(q \o more, own, other, f)
<1> DEFINE all == q \o more
<1>1. /\ \A i \in DOMAIN q : i \in DOMAIN all /\ all[i] = q[i]
      /\ \A i \in DOMAIN all : Brings(all[i], f) => i \in DOMAIN q
  <2>1. \A i \in DOMAIN all \ DOMAIN q : i - Len(q) \in DOMAIN more /\ all[i] = more[i - Len(q)]
    BY Joined
  <2> QED BY <2>1, Joined
<1> HIDE DEF all
<1>2. ASSUME NEW s \in Refs!Sess, MayBe(all, own, other, f, s)
      PROVE  \E i \in DOMAIN all : UpdateAt(all, f, s, i)
  <2>1. MayBe(q, own, other, f, s) BY <1>1, <1>2 DEF MayBe, Brings
  <2>2. PICK i \in DOMAIN q : UpdateAt(q, f, s, i) BY <2>1 DEF UpdateTold
  <2>3. UpdateAt(all, f, s, i) BY <1>1, <2>2 DEF UpdateAt
  <2> QED BY <1>1, <2>3
<1> QED BY <1>2 DEF all, UpdateTold

LEMMA Behind ==
    ASSUME NEW q \in Seq(RefEvents), q # <<>>
    PROVE  /\ q[1] \in RefEvents /\ Head(q) = q[1] /\ 1 \in DOMAIN q /\ DOMAIN q \subseteq Nat
           /\ Tail(q) \in Seq(RefEvents) /\ DOMAIN Tail(q) \subseteq Nat \ {0}
           /\ \A i \in DOMAIN Tail(q) : i + 1 \in DOMAIN q /\ Tail(q)[i] = q[i + 1]
           /\ \A i \in DOMAIN q : i = 1 \/ (i - 1 \in DOMAIN Tail(q) /\ Tail(q)[i - 1] = q[i])
OBVIOUS

\* The head is handled: what is told behind it is still told.
LEMMA TailTells ==
    ASSUME RefsAssumption, NEW q \in Seq(RefEvents), q # <<>>
    PROVE  /\ PageLeft(q) => Head(q).frame = None \/ PageLeft(Tail(q))
           /\ \A f \in TabFrames : FrameLeft(q, f) =>
                 \/ Head(q).frame = None \/ FrameLeft(Tail(q), f)
                 \/ Head(q).frame = f /\ Head(q).kind \in {"detached", "ended"}
           /\ \A f \in TabFrames : \A i \in Nat : EndTold(q, f, i + 1) => EndTold(Tail(q), f, i)
           /\ \A f \in TabFrames : EndTold(q, f, 0) =>
                 EndTold(Tail(q), f, 0) \/ (Head(q).frame = f /\ Head(q).kind = "ended")
           /\ \A f \in TabFrames : \A i : EndTold(q, f, i) => FrameLeft(q, f)
<1> DEFINE e == Head(q)
           t == Tail(q)
<1>1. /\ Head(q) = q[1] /\ DOMAIN q \subseteq Nat /\ DOMAIN t \subseteq Nat \ {0}
      /\ \A i \in DOMAIN q : i = 1 \/ (i - 1 \in DOMAIN t /\ t[i - 1] = q[i])
  BY Behind
<1> HIDE DEF t
<1>2. PageLeft(q) => e.frame = None \/ PageLeft(t) BY <1>1 DEF PageLeft
<1>3. ASSUME NEW f \in TabFrames, FrameLeft(q, f)
      PROVE  \/ e.frame = None \/ FrameLeft(t, f)
             \/ e.frame = f /\ e.kind \in {"detached", "ended"}
  BY <1>1, <1>2, <1>3 DEF FrameLeft
<1>4. ASSUME NEW f \in TabFrames, NEW i \in Nat, EndTold(q, f, i + 1) PROVE EndTold(t, f, i)
  <2>1. PICK j \in DOMAIN q : j > i + 1 /\ q[j].frame = f /\ q[j].kind = "ended"
    BY <1>4 DEF EndTold
  <2>2. j - 1 \in DOMAIN t /\ t[j - 1] = q[j] /\ j - 1 > i BY <1>1, <2>1
  <2> QED BY <2>1, <2>2 DEF EndTold
<1>5. ASSUME NEW f \in TabFrames, EndTold(q, f, 0)
      PROVE  EndTold(t, f, 0) \/ (e.frame = f /\ e.kind = "ended")
  <2>1. PICK j \in DOMAIN q : j > 0 /\ q[j].frame = f /\ q[j].kind = "ended" BY <1>5 DEF EndTold
  <2>2. CASE j = 1 BY <1>1, <2>1, <2>2
  <2>3. CASE j # 1
    <3>1. j - 1 \in DOMAIN t /\ t[j - 1] = q[j] /\ j - 1 > 0 BY <1>1, <2>1, <2>3
    <3> QED BY <2>1, <3>1 DEF EndTold
  <2> QED BY <2>2, <2>3
<1>6. ASSUME NEW f \in TabFrames, NEW i, EndTold(q, f, i) PROVE FrameLeft(q, f)
  BY <1>6 DEF EndTold, FrameLeft
<1> QED BY <1>2, <1>3, <1>4, <1>5, <1>6 DEF t

-----------------------------------------------------------------------------
(* The references that are kept: of the document that is there, or an event under way *)
(* takes them out.                                                                    *)

FrameKept(q, x, own, other, f, d) ==
    /\ own # None
    /\ \/ FrameLeft(q, f)
       \/ x.life = "there" /\ own \in x.live /\ (d = x.doc \/ UpdateTold(q, own, other, f))
Kept(r) ==
    IF r.in = None THEN r.doc = doc \/ PageLeft(queue)
    ELSE FrameKept(queue, frame[r.in], table[r.in].sess, orphan[r.in], r.in, r.doc)

\* Sessions are drawn in order; of those the loop knows, the end is told.
Drawn(x, s) == s = None \/ s <= x.drawn
FrameInv(q, x, entry, other, f) ==
    /\ x.live \subseteq 1..x.drawn
    /\ x.life # "there" => x.live = {}
    /\ entry.sess # None => entry.known
    /\ Drawn(x, entry.sess) /\ Drawn(x, other)
    /\ other # None => Accounted(q, x, f, other, 0)
    /\ \A i \in DOMAIN q : q[i].kind = "session" /\ q[i].frame = f =>
          Drawn(x, q[i].sess) /\ Accounted(q, x, f, q[i].sess, i)

\* A frame about to be read: its session is alive, or the table has a newer one.
Readable(q, x, own, f, with) ==
    with # None =>
        /\ with <= x.drawn /\ own # None
        /\ with \in x.live => own \in x.live \/ FrameLeft(q, f)

FramesOk == \A f \in TabFrames : FrameInv(queue, frame[f], table[f], orphan[f], f)
StoreOk == store # None /\ ~overtaken => \A r \in store.refs : r.stale \/ Kept(r)
\* A session is asked for only for a frame the table has none of.
AskingOk ==
    /\ snap.pc \in {"attach", "register"} /\ (snap.pc = "attach" \/ snap.sess # None)
    /\ ~overtaken /\ store # None
    => \A r \in store.refs : r.in = snap.at => r.stale
SnapOk ==
    /\ \A f \in TabFrames : Drawn(frame[f], snap.orphans[f])
    /\ snap.pc \in {"attach", "register"} => snap.at # None /\ Drawn(frame[snap.at], snap.sess)
    /\ snap.pc = "idle" => snap.refs = {}
    /\ snap.pc \notin {"frames", "replace"} => \A r \in snap.refs : r.in = None
    /\ ~snap.overtaken => \A r \in snap.refs : Kept(r)
    /\ snap.pc = "frames" /\ ~snap.overtaken =>
          \A f \in TabFrames : Readable(queue, frame[f], table[f].sess, f, snap.with[f])
RefInv == RefTypes /\ FramesOk /\ StoreOk /\ AskingOk /\ SnapOk

-----------------------------------------------------------------------------
(* Handling an event, seen from a frame.                                     *)

LEMMA UpdatesBehind ==
    ASSUME RefsAssumption, NEW q \in Seq(RefEvents), q # <<>>, NEW f \in TabFrames,
           NEW own, NEW other, NEW own2, NEW other2,
           Head(q).frame # f \/ Head(q).kind # "updated" \/ Head(q).sess # own2,
           \A s \in Refs!Sess : MayBe(Tail(q), own2, other2, f, s) => MayBe(q, own, other, f, s),
           UpdateTold(q, own, other, f)
    PROVE  UpdateTold(Tail(q), own2, other2, f)
<1> DEFINE e == Head(q)
           t == Tail(q)
<1>1. /\ e = q[1] /\ 1 \in DOMAIN q /\ DOMAIN q \subseteq Nat /\ DOMAIN t \subseteq Nat \ {0}
      /\ \A i \in DOMAIN t : i + 1 \in DOMAIN q /\ t[i] = q[i + 1]
      /\ \A i \in DOMAIN q : i = 1 \/ (i - 1 \in DOMAIN t /\ t[i - 1] = q[i])
  BY Behind
<1> HIDE DEF e, t
<1>2. ASSUME NEW s \in Refs!Sess, MayBe(t, own2, other2, f, s)
      PROVE  \E i \in DOMAIN t : UpdateAt(t, f, s, i)
  <2>1. MayBe(q, own, other, f, s) BY <1>2 DEF t
  <2>2. PICK i \in DOMAIN q : UpdateAt(q, f, s, i) BY <2>1 DEF UpdateTold
  <2>3. i # 1
    <3>1. SUFFICES ASSUME i = 1 PROVE FALSE OBVIOUS
    <3>2. e.frame = f /\ e.kind = "updated" /\ e.sess = s BY <1>1, <2>2, <3>1 DEF UpdateAt
    <3>3. \A j \in DOMAIN t : ~Brings(t[j], f)
      <4>1. ASSUME NEW j \in DOMAIN t, Brings(q[j + 1], f) PROVE FALSE
        <5>1. j \in Nat \ {0} /\ j + 1 \in DOMAIN q BY <1>1
        <5>2. j + 1 < 1 BY <2>2, <3>1, <4>1, <5>1 DEF UpdateAt
        <5> QED BY <5>1, <5>2
      <4> QED BY <1>1, <4>1
    <3>4. s = own2 BY <1>2, <3>3 DEF MayBe, Brings
    <3> QED BY <3>2, <3>4 DEF e
  <2>4. i - 1 \in DOMAIN t /\ t[i - 1] = q[i] BY <1>1, <2>3
  <2>5. ASSUME NEW j \in DOMAIN t, Brings(t[j], f) PROVE j < i - 1
    <3>1. j + 1 < i BY <1>1, <2>2, <2>5 DEF UpdateAt
    <3> QED BY <1>1, <3>1
  <2> QED BY <2>2, <2>4, <2>5 DEF UpdateAt
<1> QED BY <1>2 DEF t, UpdateTold

LEMMA KeptBehind ==
    ASSUME RefsAssumption, NEW q \in Seq(RefEvents), q # <<>>, NEW f \in TabFrames, NEW x,
           NEW own, NEW other, NEW own2, NEW other2, NEW d, own2 # None,
           Head(q).frame # None, ~(Head(q).frame = f /\ Head(q).kind \in {"detached", "ended"}),
           x.life = "there" /\ own \in x.live => own2 \in x.live \/ FrameLeft(Tail(q), f),
           Head(q).frame # f \/ Head(q).kind # "updated" \/ Head(q).sess # own2,
           \A s \in Refs!Sess : MayBe(Tail(q), own2, other2, f, s) => MayBe(q, own, other, f, s),
           FrameKept(q, x, own, other, f, d)
    PROVE  FrameKept(Tail(q), x, own2, other2, f, d)
<1>1. FrameLeft(q, f) => FrameLeft(Tail(q), f) BY TailTells
<1>2. UpdateTold(q, own, other, f) => UpdateTold(Tail(q), own2, other2, f) BY UpdatesBehind
<1> QED BY <1>1, <1>2 DEF FrameKept

LEMMA MayBeBehind ==
    ASSUME RefsAssumption, NEW q \in Seq(RefEvents), q # <<>>, NEW f \in TabFrames,
           NEW own, NEW other, NEW s \in Refs!Sess
    PROVE  /\ MayBe(Tail(q), own, other, f, s) => MayBe(q, own, other, f, s)
           /\ Head(q).frame = f /\ Head(q).kind = "attached" =>
                 (MayBe(Tail(q), IF other # None THEN other ELSE own, None, f, s)
                    => MayBe(q, own, other, f, s))
           /\ Head(q).frame = f /\ Head(q).kind = "session" =>
                 (MayBe(Tail(q), Head(q).sess, other, f, s) => MayBe(q, own, other, f, s))
<1> DEFINE t == Tail(q)
<1>1. /\ Head(q) = q[1] /\ 1 \in DOMAIN q
      /\ \A i \in DOMAIN t : i + 1 \in DOMAIN q /\ t[i] = q[i + 1]
  BY Behind
<1> HIDE DEF t
<1>2. MayBe(t, own, other, f, s) => MayBe(q, own, other, f, s) BY <1>1 DEF MayBe
<1>3. s # None BY DEF RefsAssumption
<1>4. Head(q).frame = f /\ Head(q).kind = "attached" =>
         (MayBe(t, IF other # None THEN other ELSE own, None, f, s) => MayBe(q, own, other, f, s))
  BY <1>1, <1>3 DEF MayBe
<1>5. Head(q).frame = f /\ Head(q).kind = "session" =>
         (MayBe(t, Head(q).sess, other, f, s) => MayBe(q, own, other, f, s))
  BY <1>1, <1>3 DEF MayBe
<1> QED BY <1>2, <1>4, <1>5 DEF t

LEMMA AccountedBehind ==
    ASSUME RefsAssumption, NEW q \in Seq(RefEvents), q # <<>>, NEW f \in TabFrames, NEW x,
           NEW entry, NEW other, NEW entry2, NEW other2, FrameInv(q, x, entry, other, f),
           entry2.sess # None => entry2.known,
           Drawn(x, entry2.sess), Drawn(x, other2),
           other2 # None => Accounted(Tail(q), x, f, other2, 0)
    PROVE  FrameInv(Tail(q), x, entry2, other2, f)
<1> DEFINE t == Tail(q)
<1>1. /\ DOMAIN t \subseteq Nat \ {0}
      /\ \A i \in DOMAIN t : i + 1 \in DOMAIN q /\ t[i] = q[i + 1]
  BY Behind
<1>2. \A i \in Nat : EndTold(q, f, i + 1) => EndTold(t, f, i) BY TailTells
<1> HIDE DEF t
<1>3. ASSUME NEW i \in DOMAIN t, t[i].kind = "session", t[i].frame = f
      PROVE  Drawn(x, t[i].sess) /\ Accounted(t, x, f, t[i].sess, i)
  <2>1. Drawn(x, t[i].sess) /\ Accounted(q, x, f, t[i].sess, i + 1) BY <1>1, <1>3 DEF FrameInv
  <2> QED BY <1>1, <1>2, <2>1 DEF Accounted
<1> QED BY <1>3 DEF t, FrameInv

\* An event that is about another frame changes nothing for this one.
LEMMA Elsewhere ==
    ASSUME RefsAssumption, NEW q \in Seq(RefEvents), q # <<>>, NEW f \in TabFrames, NEW x,
           NEW entry, NEW own, NEW other, Head(q).frame # f
    PROVE  /\ FrameInv(q, x, entry, other, f) => FrameInv(Tail(q), x, entry, other, f)
           /\ Head(q).frame # None => \A d :
                 FrameKept(q, x, own, other, f, d) => FrameKept(Tail(q), x, own, other, f, d)
           /\ Head(q).frame # None => \A s :
                 Readable(q, x, own, f, s) => Readable(Tail(q), x, own, f, s)
<1>1. ASSUME FrameInv(q, x, entry, other, f) PROVE FrameInv(Tail(q), x, entry, other, f)
  <2>1. EndTold(q, f, 0) => EndTold(Tail(q), f, 0) BY TailTells
  <2>2. other # None => Accounted(Tail(q), x, f, other, 0) BY <1>1, <2>1 DEF FrameInv, Accounted
  <2>3. (entry.sess # None => entry.known) /\ Drawn(x, entry.sess) /\ Drawn(x, other)
    BY <1>1 DEF FrameInv
  <2> QED BY <1>1, <2>2, <2>3, AccountedBehind
<1>2. ASSUME Head(q).frame # None, NEW d, FrameKept(q, x, own, other, f, d)
      PROVE  FrameKept(Tail(q), x, own, other, f, d)
  <2>1. \A s \in Refs!Sess : MayBe(Tail(q), own, other, f, s) => MayBe(q, own, other, f, s)
    BY MayBeBehind
  <2>2. own # None BY <1>2 DEF FrameKept
  <2> QED BY <1>2, <2>1, <2>2, KeptBehind
<1>3. ASSUME Head(q).frame # None, NEW s, Readable(q, x, own, f, s)
      PROVE  Readable(Tail(q), x, own, f, s)
  <2>1. FrameLeft(q, f) => FrameLeft(Tail(q), f) BY <1>3, TailTells
  <2> QED BY <1>3, <2>1 DEF Readable
<1> QED BY <1>1, <1>2, <1>3

-----------------------------------------------------------------------------
(* Handling an event, as a whole.                                            *)

\* What taking an event out of the queue does to the references.
Spared(r) == Kept(r) => Kept(r)'
HandledWell(e) ==
    /\ table' \in [TabFrames -> Entries] /\ orphan' \in [TabFrames -> Refs!Sess \cup {None}]
    /\ store' = None \/ store' \in [refs : SUBSET TabRefs, stale : BOOLEAN]
    /\ FramesOk'
    /\ store' # None => /\ store # None
                        /\ \A r \in store'.refs : r.stale \/ (r \in store.refs /\ Spared(r))
    /\ ~Refs!TakesOut(e) =>
         /\ \A r \in TabRefs : Spared(r)
         /\ \A f \in TabFrames : \A s :
               Readable(queue, frame[f], table[f].sess, f, s)
                 => Readable(queue', frame'[f], table'[f].sess, f, s)


LEMMA InvalidatedRefs ==
    ASSUME RefTypes
    PROVE  /\ \/ Refs!Invalidated = None
              \/ Refs!Invalidated \in [refs : SUBSET TabRefs, stale : BOOLEAN]
           /\ Refs!Invalidated # None => store # None /\ Refs!Invalidated.refs = {}
BY DEF RefTypes, Refs!Invalidated

LEMMA InvalidatedFrameRefs ==
    ASSUME RefTypes, NEW f \in TabFrames
    PROVE  /\ \/ Refs!InvalidatedFrame(f) = None
              \/ Refs!InvalidatedFrame(f) \in [refs : SUBSET TabRefs, stale : BOOLEAN]
           /\ Refs!InvalidatedFrame(f) # None =>
                /\ store # None
                /\ \A r \in Refs!InvalidatedFrame(f).refs :
                      r.stale \/ (r \in store.refs /\ r.in # f)
<1>1. CASE store = None BY <1>1 DEF Refs!InvalidatedFrame
<1>2. CASE store # None
  <2> DEFINE Mark(r) == IF r.in = f THEN [r EXCEPT !.stale = TRUE] ELSE r
             new == {Mark(r) : r \in store.refs}
  <2>1. store \in [refs : SUBSET TabRefs, stale : BOOLEAN] BY <1>2 DEF RefTypes
  <2>2. \A r \in TabRefs : Mark(r) \in TabRefs /\ (Mark(r).stale \/ (Mark(r) = r /\ r.in # f))
    BY DEF TabRefs
  <2>3. Refs!InvalidatedFrame(f) = [store EXCEPT !.refs = new] BY <1>2 DEF Refs!InvalidatedFrame
  <2>4. /\ Refs!InvalidatedFrame(f).refs = new
        /\ new \subseteq TabRefs =>
              Refs!InvalidatedFrame(f) \in [refs : SUBSET TabRefs, stale : BOOLEAN]
    <3> HIDE DEF new
    <3> QED BY <2>1, <2>3
  <2>5. store.refs \subseteq TabRefs BY <2>1
  <2>6. new \subseteq TabRefs /\ \A r \in new : r.stale \/ (r \in store.refs /\ r.in # f)
    <3> HIDE DEF Mark
    <3> QED BY <2>2, <2>5
  <2> QED BY <1>2, <2>4, <2>6
<1> QED BY <1>1, <1>2

LEMMA HandlePage ==
    ASSUME RefsAssumption, RefInv, Refs!Handle, Head(queue).frame = None
    PROVE  HandledWell(Head(queue))
<1> DEFINE e == Head(queue)
<1>1. /\ queue # <<>> /\ queue' = Tail(queue) /\ UNCHANGED frame
      /\ queue \in Seq(RefEvents) /\ e \in RefEvents
  BY Behind DEF Refs!Handle, RefInv, RefTypes
<1>2. e.kind \in {"navigated", "opened", "updated"} BY <1>1, EventFacts
<1>3. /\ store' = Refs!Invalidated /\ UNCHANGED orphan
      /\ (UNCHANGED table) \/ table' = [f \in TabFrames |-> Refs!Unknown]
  BY <1>2 DEF Refs!Handle
<1>4. Refs!Unknown \in Entries /\ Refs!Unknown.sess = None BY DEF Refs!Unknown, Entries
<1>5. table' \in [TabFrames -> Entries] /\ orphan' \in [TabFrames -> Refs!Sess \cup {None}]
  BY <1>3, <1>4 DEF RefInv, RefTypes
<1>6. \A f \in TabFrames : FrameInv(queue', frame'[f], table'[f], orphan'[f], f)
  <2> SUFFICES ASSUME NEW f \in TabFrames
               PROVE  FrameInv(queue', frame'[f], table'[f], orphan'[f], f)
    OBVIOUS
  <2>1. e.frame # f BY DEF RefsAssumption
  <2>2. FrameInv(queue, frame[f], table[f], orphan[f], f) BY DEF RefInv, FramesOk
  <2>3. FrameInv(queue', frame[f], table[f], orphan[f], f) BY <1>1, <2>1, <2>2, Elsewhere
  <2>4. FrameInv(queue', frame[f], Refs!Unknown, orphan[f], f)
    BY <1>4, <2>3 DEF FrameInv, Drawn
  <2> QED BY <1>1, <1>3, <2>3, <2>4
<1>7. Refs!TakesOut(e) BY <1>2 DEF Refs!TakesOut
<1>8. /\ store' = None \/ store' \in [refs : SUBSET TabRefs, stale : BOOLEAN]
      /\ store' # None => store # None /\ store'.refs = {}
  BY <1>3, InvalidatedRefs DEF RefInv
<1> QED BY <1>5, <1>6, <1>7, <1>8 DEF HandledWell, FramesOk

\* What an event about a frame leaves alone: the other frames, and the page.
LEMMA HandleOthers ==
    ASSUME RefsAssumption, RefInv, Refs!Handle, NEW f \in TabFrames, Head(queue).frame = f,
           NEW g \in TabFrames, g # f, table'[g] = table[g], orphan'[g] = orphan[g]
    PROVE  /\ FrameInv(queue', frame'[g], table'[g], orphan'[g], g)
           /\ \A s : Readable(queue, frame[g], table[g].sess, g, s)
                       => Readable(queue', frame'[g], table'[g].sess, g, s)
           /\ \A d : FrameKept(queue, frame[g], table[g].sess, orphan[g], g, d)
                       => FrameKept(queue', frame'[g], table'[g].sess, orphan'[g], g, d)
<1>1. /\ queue # <<>> /\ queue' = Tail(queue) /\ frame' = frame
      /\ queue \in Seq(RefEvents) /\ Head(queue).frame # g /\ Head(queue).frame # None
  BY DEF Refs!Handle, RefInv, RefTypes, RefsAssumption
<1>2. FrameInv(queue, frame[g], table[g], orphan[g], g) BY DEF RefInv, FramesOk
<1> QED BY <1>1, <1>2, Elsewhere

FrameSpared(f) ==
    \A d : FrameKept(queue, frame[f], table[f].sess, orphan[f], f, d)
             => FrameKept(queue', frame'[f], table'[f].sess, orphan'[f], f, d)

LEMMA HandleFrame ==
    ASSUME RefsAssumption, RefInv, Refs!Handle, NEW f \in TabFrames, Head(queue).frame = f,
           table' \in [TabFrames -> Entries], orphan' \in [TabFrames -> Refs!Sess \cup {None}],
           \A g \in TabFrames \ {f} : table'[g] = table[g] /\ orphan'[g] = orphan[g],
           FrameInv(queue', frame'[f], table'[f], orphan'[f], f),
           store' = Refs!InvalidatedFrame(f) \/ (store' = store /\ FrameSpared(f)),
           ~Refs!TakesOut(Head(queue)) => /\ FrameSpared(f)
             /\ \A s : Readable(queue, frame[f], table[f].sess, f, s)
                       => Readable(queue', frame'[f], table'[f].sess, f, s)
    PROVE  HandledWell(Head(queue))
<1> DEFINE e == Head(queue)
<1>1. /\ queue # <<>> /\ queue' = Tail(queue) /\ queue \in Seq(RefEvents) /\ doc' = doc
      /\ e.frame # None
  BY DEF Refs!Handle, RefInv, RefTypes, RefsAssumption
<1>2. FramesOk' BY HandleOthers DEF FramesOk
<1>3. ASSUME NEW r \in TabRefs, r.in # f PROVE Spared(r)
  <2>1. CASE r.in = None
    <3>1. PageLeft(queue) => PageLeft(queue') BY <1>1, TailTells
    <3> QED BY <1>1, <2>1, <3>1 DEF Spared, Kept
  <2>2. CASE r.in # None
    <3>1. r.in \in TabFrames \ {f} BY <1>3, <2>2 DEF TabRefs
    <3>2. FrameKept(queue, frame[r.in], table[r.in].sess, orphan[r.in], r.in, r.doc)
            => FrameKept(queue', frame'[r.in], table'[r.in].sess, orphan'[r.in], r.in, r.doc)
      BY <3>1, HandleOthers
    <3> QED BY <2>2, <3>2 DEF Spared, Kept
  <2> QED BY <2>1, <2>2
<1>4. ASSUME FrameSpared(f), NEW r \in TabRefs, r.in = f PROVE Spared(r)
  BY <1>1, <1>4 DEF Spared, Kept, FrameSpared
<1>5. /\ store' = None \/ store' \in [refs : SUBSET TabRefs, stale : BOOLEAN]
      /\ store' # None => /\ store # None
                          /\ \A r \in store'.refs : r.stale \/ (r \in store.refs /\ Spared(r))
  <2>1. store # None => store.refs \subseteq TabRefs BY DEF RefInv, RefTypes
  <2>2. CASE store' = store /\ FrameSpared(f)
    BY <1>3, <1>4, <2>1, <2>2 DEF RefInv, RefTypes
  <2>3. CASE store' = Refs!InvalidatedFrame(f)
    <3>1. RefTypes BY DEF RefInv
    <3> QED BY <1>3, <2>1, <2>3, <3>1, InvalidatedFrameRefs
  <2> QED BY <2>2, <2>3
<1>6. ~Refs!TakesOut(e) => /\ \A r \in TabRefs : Spared(r)
                           /\ \A g \in TabFrames : \A s :
                                 Readable(queue, frame[g], table[g].sess, g, s)
                                   => Readable(queue', frame'[g], table'[g].sess, g, s)
  BY <1>3, <1>4, HandleOthers
<1> QED BY <1>2, <1>5, <1>6 DEF HandledWell

LEMMA HandleUpdated ==
    ASSUME RefsAssumption, RefInv, Refs!Handle, NEW f \in TabFrames, Head(queue).frame = f,
           Head(queue).kind = "updated"
    PROVE  HandledWell(Head(queue))
<1> DEFINE e == Head(queue)
<1>1. /\ queue # <<>> /\ queue' = Tail(queue) /\ queue \in Seq(RefEvents) /\ frame' = frame
      /\ f # None
  BY DEF Refs!Handle, RefInv, RefTypes, RefsAssumption
<1>2. /\ store' = IF Refs!OfSession(f, e.sess) THEN Refs!InvalidatedFrame(f) ELSE store
      /\ table' = table /\ orphan' = orphan
  BY <1>1 DEF Refs!Handle
<1>3. FrameInv(queue, frame[f], table[f], orphan[f], f) BY DEF RefInv, FramesOk
<1>4. FrameInv(queue', frame'[f], table'[f], orphan'[f], f)
  <2>1. EndTold(queue, f, 0) => EndTold(queue', f, 0) BY <1>1, TailTells
  <2>2. orphan[f] # None => Accounted(queue', frame[f], f, orphan[f], 0)
    BY <1>3, <2>1 DEF FrameInv, Accounted
  <2>3. /\ table[f].sess # None => table[f].known
        /\ Drawn(frame[f], table[f].sess) /\ Drawn(frame[f], orphan[f])
    BY <1>3 DEF FrameInv
  <2> QED BY <1>1, <1>2, <1>3, <2>2, <2>3, AccountedBehind
<1>5. ASSUME ~Refs!OfSession(f, e.sess) PROVE FrameSpared(f)
  <2> SUFFICES ASSUME NEW d, FrameKept(queue, frame[f], table[f].sess, orphan[f], f, d)
               PROVE  FrameKept(queue', frame[f], table[f].sess, orphan[f], f, d)
    BY <1>1, <1>2 DEF FrameSpared
  <2>1. table[f].sess # None BY DEF FrameKept
  <2>2. e.sess # table[f].sess BY <1>3, <1>5, <2>1 DEF Refs!OfSession, FrameInv
  <2>3. \A s \in Refs!Sess : MayBe(Tail(queue), table[f].sess, orphan[f], f, s)
                          => MayBe(queue, table[f].sess, orphan[f], f, s)
    BY <1>1, MayBeBehind
  <2> QED BY <1>1, <2>1, <2>2, <2>3, KeptBehind
<1>6. table' \in [TabFrames -> Entries] /\ orphan' \in [TabFrames -> Refs!Sess \cup {None}]
  BY <1>2 DEF RefInv, RefTypes
<1>7. Refs!TakesOut(e) BY DEF Refs!TakesOut
<1> QED BY <1>2, <1>4, <1>5, <1>6, <1>7, HandleFrame

LEMMA HandleAttached ==
    ASSUME RefsAssumption, RefInv, Refs!Handle, NEW f \in TabFrames, Head(queue).frame = f,
           Head(queue).kind = "attached"
    PROVE  HandledWell(Head(queue))
<1> DEFINE e == Head(queue)
           own == IF orphan[f] # None THEN orphan[f] ELSE table[f].sess
<1>1. /\ queue # <<>> /\ queue' = Tail(queue) /\ queue \in Seq(RefEvents) /\ frame' = frame
      /\ f # None /\ table \in [TabFrames -> Entries]
      /\ orphan \in [TabFrames -> Refs!Sess \cup {None}]
  BY DEF Refs!Handle, RefInv, RefTypes, RefsAssumption
<1>2. /\ table' = [table EXCEPT ![f].known = TRUE, ![f].sess = own]
      /\ orphan' = [orphan EXCEPT ![f] = None]
      /\ store' = store
  BY <1>1 DEF Refs!Handle
<1>3. /\ table' \in [TabFrames -> Entries] /\ orphan' \in [TabFrames -> Refs!Sess \cup {None}]
      /\ table'[f].known /\ table'[f].sess = own /\ orphan'[f] = None
      /\ \A g \in TabFrames \ {f} : table'[g] = table[g] /\ orphan'[g] = orphan[g]
  <2>1. own \in Refs!Sess \cup {None} BY <1>1 DEF Entries
  <2> HIDE DEF own
  <2>2. [table[f] EXCEPT !.known = TRUE, !.sess = own] \in Entries BY <1>1, <2>1 DEF Entries
  <2>3. table' = [table EXCEPT ![f] = [table[f] EXCEPT !.known = TRUE, !.sess = own]]
    BY <1>1, <1>2
  <2> QED BY <1>1, <1>2, <2>2, <2>3 DEF Entries
<1>4. FrameInv(queue, frame[f], table[f], orphan[f], f) BY DEF RefInv, FramesOk
<1>5. FrameInv(queue', frame'[f], table'[f], orphan'[f], f)
  <2>1. Drawn(frame[f], table'[f].sess) /\ Drawn(frame[f], None)
    BY <1>3, <1>4 DEF FrameInv, Drawn
  <2> QED BY <1>1, <1>3, <1>4, <2>1, AccountedBehind
\* An orphan is alive, if the frame is, or its end is told.
<1>6. ASSUME orphan[f] # None, frame[f].life # "dead"
      PROVE  orphan[f] \in frame[f].live \/ FrameLeft(queue', f)
  <2>1. Accounted(queue, frame[f], f, orphan[f], 0) BY <1>4, <1>6 DEF FrameInv
  <2>2. EndTold(queue, f, 0) => EndTold(queue', f, 0) BY <1>1, TailTells
  <2>3. EndTold(queue', f, 0) => FrameLeft(queue', f) BY DEF EndTold, FrameLeft
  <2> QED BY <1>6, <2>1, <2>2, <2>3 DEF Accounted
<1>7. FrameSpared(f)
  <2> SUFFICES ASSUME NEW d, FrameKept(queue, frame[f], table[f].sess, orphan[f], f, d)
               PROVE  FrameKept(queue', frame[f], own, None, f, d)
    BY <1>1, <1>3 DEF FrameSpared
  <2>1. own # None BY DEF FrameKept
  <2>2. \A s \in Refs!Sess : MayBe(Tail(queue), own, None, f, s)
                          => MayBe(queue, table[f].sess, orphan[f], f, s)
    BY <1>1, MayBeBehind
  <2>3. frame[f].life = "there" /\ table[f].sess \in frame[f].live
          => own \in frame[f].live \/ FrameLeft(Tail(queue), f)
    BY <1>1, <1>6
  <2> HIDE DEF own
  <2> QED BY <1>1, <2>1, <2>2, <2>3, KeptBehind
<1>8. ASSUME NEW s, Readable(queue, frame[f], table[f].sess, f, s)
      PROVE  Readable(queue', frame'[f], table'[f].sess, f, s)
  <2>1. FrameLeft(queue, f) => FrameLeft(queue', f) BY <1>1, TailTells
  <2>2. frame[f].live # {} => frame[f].life # "dead" BY <1>4 DEF FrameInv
  <2> QED BY <1>1, <1>3, <1>6, <1>8, <2>1, <2>2 DEF Readable
<1> QED BY <1>2, <1>3, <1>5, <1>7, <1>8, HandleFrame

LEMMA HandleSession ==
    ASSUME RefsAssumption, RefInv, Refs!Handle, NEW f \in TabFrames, Head(queue).frame = f,
           Head(queue).kind = "session"
    PROVE  HandledWell(Head(queue))
<1> DEFINE e == Head(queue)
<1>1. /\ queue # <<>> /\ queue' = Tail(queue) /\ queue \in Seq(RefEvents) /\ frame' = frame
      /\ f # None /\ table \in [TabFrames -> Entries]
      /\ orphan \in [TabFrames -> Refs!Sess \cup {None}]
      /\ e = queue[1] /\ 1 \in DOMAIN queue /\ e \in RefEvents
  BY Behind DEF Refs!Handle, RefInv, RefTypes, RefsAssumption
<1>2. e.sess \in Refs!Sess /\ e.sess # None BY <1>1, EventFacts DEF RefsAssumption
<1>3. FrameInv(queue, frame[f], table[f], orphan[f], f) BY DEF RefInv, FramesOk
<1>4. Drawn(frame[f], e.sess) /\ Accounted(queue, frame[f], f, e.sess, 1)
  BY <1>1, <1>3 DEF FrameInv
<1>5. Accounted(queue', frame[f], f, e.sess, 0)
  <2>1. EndTold(queue, f, 0 + 1) => EndTold(queue', f, 0) BY <1>1, TailTells
  <2> QED BY <1>4, <2>1 DEF Accounted
<1>6. EndTold(queue', f, 0) => FrameLeft(queue', f) BY DEF EndTold, FrameLeft
<1>7. orphan[f] # None => Accounted(queue', frame[f], f, orphan[f], 0)
  <2>1. EndTold(queue, f, 0) => EndTold(queue', f, 0) BY <1>1, TailTells
  <2> QED BY <1>3, <2>1 DEF Accounted, FrameInv
<1>8. ASSUME table[f].known PROVE HandledWell(e)
  <2>1. /\ table' = [table EXCEPT ![f].sess = e.sess]
        /\ orphan' = orphan
        /\ store' = store
    BY <1>1, <1>8 DEF Refs!Handle
  <2>2. /\ table' \in [TabFrames -> Entries] /\ orphan' \in [TabFrames -> Refs!Sess \cup {None}]
        /\ table'[f].known /\ table'[f].sess = e.sess
        /\ \A g \in TabFrames \ {f} : table'[g] = table[g] /\ orphan'[g] = orphan[g]
    BY <1>1, <1>2, <1>8, <2>1 DEF Entries
  <2>3. FrameInv(queue', frame'[f], table'[f], orphan'[f], f)
    <3>1. Drawn(frame[f], orphan[f]) BY <1>3 DEF FrameInv
    <3> QED BY <1>1, <1>3, <1>4, <1>7, <2>1, <2>2, <3>1, AccountedBehind
  <2>4. FrameSpared(f)
    <3> SUFFICES ASSUME NEW d, FrameKept(queue, frame[f], table[f].sess, orphan[f], f, d)
                 PROVE  FrameKept(queue', frame[f], e.sess, orphan[f], f, d)
      BY <1>1, <2>1, <2>2 DEF FrameSpared
    <3>1. \A s \in Refs!Sess : MayBe(Tail(queue), e.sess, orphan[f], f, s)
                            => MayBe(queue, table[f].sess, orphan[f], f, s)
      BY <1>1, MayBeBehind
    <3>2. frame[f].life = "there" => e.sess \in frame[f].live \/ FrameLeft(Tail(queue), f)
      BY <1>1, <1>5, <1>6 DEF Accounted
    <3> QED BY <1>1, <1>2, <3>1, <3>2, KeptBehind
  <2>5. ASSUME NEW s, Readable(queue, frame[f], table[f].sess, f, s)
        PROVE  Readable(queue', frame'[f], table'[f].sess, f, s)
    <3>1. frame[f].live # {} => frame[f].life # "dead" BY <1>3 DEF FrameInv
    <3> QED BY <1>1, <1>2, <1>5, <1>6, <2>2, <2>5, <3>1 DEF Readable, Accounted
  <2> QED BY <2>1, <2>2, <2>3, <2>4, <2>5, HandleFrame
<1>9. ASSUME ~table[f].known PROVE HandledWell(e)
  <2>1. /\ table' = table
        /\ orphan' = [orphan EXCEPT ![f] = e.sess]
        /\ store' = store
    BY <1>1, <1>9 DEF Refs!Handle
  <2>2. /\ orphan' \in [TabFrames -> Refs!Sess \cup {None}] /\ orphan'[f] = e.sess
        /\ \A g \in TabFrames \ {f} : orphan'[g] = orphan[g]
    BY <1>1, <1>2, <2>1
  <2>3. FrameInv(queue', frame'[f], table'[f], orphan'[f], f)
    <3>1. (table[f].sess # None => table[f].known) /\ Drawn(frame[f], table[f].sess)
      BY <1>3 DEF FrameInv
    <3> QED BY <1>1, <1>3, <1>4, <1>5, <2>1, <2>2, <3>1, AccountedBehind
  <2>4. table[f].sess = None BY <1>3, <1>9 DEF FrameInv
  <2>5. FrameSpared(f) BY <2>4 DEF FrameSpared, FrameKept
  <2>6. ASSUME NEW s, Readable(queue, frame[f], table[f].sess, f, s)
        PROVE  Readable(queue', frame'[f], table'[f].sess, f, s)
    BY <2>4, <2>6 DEF Readable
  <2> QED BY <1>1, <2>1, <2>2, <2>3, <2>5, <2>6, HandleFrame
<1> QED BY <1>8, <1>9

LEMMA HandleGone ==
    ASSUME RefsAssumption, RefInv, Refs!Handle, NEW f \in TabFrames, Head(queue).frame = f,
           Head(queue).kind \in {"detached", "ended"}
    PROVE  HandledWell(Head(queue))
<1> DEFINE e == Head(queue)
<1>1. /\ queue # <<>> /\ queue' = Tail(queue) /\ queue \in Seq(RefEvents) /\ frame' = frame
      /\ f # None /\ table \in [TabFrames -> Entries]
      /\ orphan \in [TabFrames -> Refs!Sess \cup {None}]
  BY DEF Refs!Handle, RefInv, RefTypes, RefsAssumption
<1>2. Refs!Unknown \in Entries /\ Refs!Unknown.sess = None BY DEF Refs!Unknown, Entries
<1>3. FrameInv(queue, frame[f], table[f], orphan[f], f) BY DEF RefInv, FramesOk
<1>4. /\ table' = [table EXCEPT ![f] = Refs!Unknown]
      /\ orphan' = IF e.kind = "ended" THEN [orphan EXCEPT ![f] = None] ELSE orphan
      /\ \/ store' = Refs!InvalidatedFrame(f)
         \/ store' = store /\ ~table[f].known
  BY <1>1 DEF Refs!Handle
<1>5. /\ table' \in [TabFrames -> Entries] /\ orphan' \in [TabFrames -> Refs!Sess \cup {None}]
      /\ table'[f] = Refs!Unknown /\ orphan'[f] = IF e.kind = "ended" THEN None ELSE orphan[f]
      /\ \A g \in TabFrames \ {f} : table'[g] = table[g] /\ orphan'[g] = orphan[g]
  BY <1>1, <1>2, <1>4
<1>6. FrameInv(queue', frame'[f], table'[f], orphan'[f], f)
  <2>1. EndTold(queue, f, 0) => EndTold(queue', f, 0) \/ e.kind = "ended" BY <1>1, TailTells
  <2>2. orphan'[f] # None => Accounted(queue', frame[f], f, orphan'[f], 0)
    BY <1>3, <1>5, <2>1 DEF FrameInv, Accounted
  <2>3. Drawn(frame[f], Refs!Unknown.sess) /\ Drawn(frame[f], orphan'[f])
    BY <1>2, <1>3, <1>5 DEF FrameInv, Drawn
  <2> QED BY <1>1, <1>2, <1>3, <1>5, <2>2, <2>3, AccountedBehind
<1>7. ~table[f].known => FrameSpared(f) BY <1>3 DEF FrameInv, FrameSpared, FrameKept
<1>8. Refs!TakesOut(e) BY DEF Refs!TakesOut
<1> QED BY <1>4, <1>5, <1>6, <1>7, <1>8, HandleFrame

LEMMA HandleKeeps ==
    ASSUME RefsAssumption, RefInv, Refs!Handle
    PROVE  RefInv'
<1> DEFINE e == Head(queue)
<1>1. /\ queue # <<>> /\ queue' = Tail(queue) /\ queue \in Seq(RefEvents) /\ e \in RefEvents
      /\ UNCHANGED <<doc, frame, overtaken>> /\ frame \in [TabFrames -> FrameState]
      /\ snap' = IF snap.pc # "idle" /\ Refs!TakesOut(e)
                 THEN [snap EXCEPT !.overtaken = TRUE] ELSE snap
  BY Behind DEF Refs!Handle, RefInv, RefTypes
<1>2. HandledWell(e)
  <2>1. CASE e.frame = None BY <2>1, HandlePage
  <2>2. CASE e.frame # None
    <3>1. e.frame \in TabFrames BY <1>1, <2>2, EventFacts
    <3>2. e.kind \in {"updated", "session", "attached", "detached", "ended"}
      BY <1>1, <2>2, EventFacts
    <3> QED BY <3>1, <3>2, HandleUpdated, HandleAttached, HandleSession, HandleGone
  <2> QED BY <2>1, <2>2
<1>3. /\ snap'.pc = snap.pc /\ snap'.orphans = snap.orphans /\ snap'.at = snap.at
      /\ snap'.sess = snap.sess /\ snap'.refs = snap.refs /\ snap'.with = snap.with
      /\ snap.pc # "idle" /\ Refs!TakesOut(e) => snap'.overtaken
      /\ ~(snap.pc # "idle" /\ Refs!TakesOut(e)) => snap'.overtaken = snap.overtaken
      /\ snap' \in Snapshots /\ snap.refs \subseteq TabRefs
  BY <1>1 DEF Snapshots, RefInv, RefTypes
<1> HIDE DEF e
<1>4. RefTypes'
  <2>1. queue' \in Seq(RefEvents) BY <1>1, Behind
  <2> QED BY <1>1, <1>2, <1>3, <2>1 DEF RefTypes, RefInv, HandledWell
<1>5. StoreOk' BY <1>1, <1>2 DEF HandledWell, StoreOk, RefInv, Spared
<1>6. AskingOk' BY <1>1, <1>2, <1>3 DEF HandledWell, AskingOk, RefInv
<1>7. SnapOk'
  <2>1. ~snap'.overtaken => \A r \in snap'.refs : Kept(r)'
    <3>1. SUFFICES ASSUME ~snap'.overtaken, NEW r \in snap.refs PROVE Kept(r)' BY <1>3
    <3>2. snap.pc # "idle" BY DEF RefInv, SnapOk
    <3>3. ~snap.overtaken /\ ~Refs!TakesOut(e) BY <1>3, <3>1, <3>2
    <3>4. Kept(r) BY <3>3 DEF RefInv, SnapOk
    <3> QED BY <1>2, <1>3, <3>3, <3>4 DEF HandledWell, Spared
  <2>2. snap'.pc = "frames" /\ ~snap'.overtaken =>
           \A f \in TabFrames : Readable(queue', frame'[f], table'[f].sess, f, snap'.with[f])
    BY <1>2, <1>3 DEF HandledWell, RefInv, SnapOk
  <2> QED BY <1>1, <1>3, <2>1, <2>2 DEF RefInv, SnapOk
<1> QED BY <1>2, <1>4, <1>5, <1>6, <1>7 DEF RefInv, HandledWell

-----------------------------------------------------------------------------
(* What the browser does.                                                    *)

LEMMA BrowserKeeps ==
    ASSUME RefsAssumption, RefInv, doc' \in Nat, frame' \in [TabFrames -> FrameState],
           queue' \in Seq(RefEvents), UNCHANGED <<table, orphan, store, snap, overtaken>>,
           FramesOk', \A r \in TabRefs : Spared(r),
           \A f \in TabFrames : frame[f].drawn <= frame'[f].drawn,
           \A f \in TabFrames : \A s \in Refs!Sess \cup {None} :
               Readable(queue, frame[f], table[f].sess, f, s)
                 => Readable(queue', frame'[f], table[f].sess, f, s)
    PROVE  RefInv'
<1>1. RefTypes' BY DEF RefInv, RefTypes
<1>2. StoreOk'
  <2>1. store # None => store.refs \subseteq TabRefs BY DEF RefInv, RefTypes
  <2> QED BY <2>1 DEF RefInv, StoreOk, Spared
<1>3. AskingOk' BY DEF RefInv, AskingOk
<1>4. SnapOk'
  <2>1. snap \in Snapshots BY DEF RefInv, RefTypes
  <2>2. \A f \in TabFrames : \A s \in Refs!Sess \cup {None} :
           Drawn(frame[f], s) => Drawn(frame'[f], s)
    <3> SUFFICES ASSUME NEW f \in TabFrames, NEW s \in Refs!Sess, s <= frame[f].drawn
                 PROVE  s <= frame'[f].drawn
      BY DEF Drawn
    <3>1. frame[f].drawn \in Nat /\ frame'[f].drawn \in Nat
      BY DEF RefInv, RefTypes, FrameState, RefsAssumption
    <3> QED BY <3>1 DEF Refs!Sess, RefsAssumption
  <2>3. \A f \in TabFrames : Drawn(frame'[f], snap.orphans[f])
    BY <2>1, <2>2 DEF RefInv, SnapOk, Snapshots
  <2>4. snap.pc \in {"attach", "register"} => snap.at # None /\ Drawn(frame'[snap.at], snap.sess)
    BY <2>1, <2>2 DEF RefInv, SnapOk, Snapshots
  <2>5. ~snap.overtaken => \A r \in snap.refs : Kept(r)'
    BY <2>1 DEF RefInv, SnapOk, Snapshots, Spared
  <2>6. snap.pc = "frames" /\ ~snap.overtaken =>
           \A f \in TabFrames : Readable(queue', frame'[f], table[f].sess, f, snap.with[f])
    BY <2>1 DEF RefInv, SnapOk, Snapshots
  <2> QED BY <2>3, <2>4, <2>5, <2>6 DEF RefInv, SnapOk
<1> QED BY <1>1, <1>2, <1>3, <1>4 DEF RefInv

\* Events are told behind the others.
LEMMA AccountedAhead ==
    ASSUME RefsAssumption, NEW q \in Seq(RefEvents), NEW more \in Seq(RefEvents),
           NEW f \in TabFrames,
           NEW x \in FrameState, NEW y \in FrameState, NEW entry \in Entries,
           NEW other \in Refs!Sess \cup {None}, FrameInv(q, x, entry, other, f),
           x.drawn <= y.drawn, y.live \subseteq 1..y.drawn, y.life # "there" => y.live = {},
           \A s \in x.live : s \in y.live \/ y.life = "dead" \/ EndTold(more, f, 0),
           x.life = "dead" => y.life = "dead",
           \A i \in DOMAIN more : more[i].kind = "session" /\ more[i].frame = f =>
              more[i].sess <= y.drawn /\ more[i].sess \in y.live
    PROVE  FrameInv(q \o more, y, entry, other, f)
<1> DEFINE all == q \o more
<1>1. /\ Len(q) \in Nat /\ DOMAIN q = 1..Len(q) /\ q \in Seq(RefEvents)
      /\ \A i \in DOMAIN q : all[i] = q[i]
      /\ \A i \in DOMAIN all : i \in DOMAIN q \/ (i - Len(q) \in DOMAIN more /\ i > Len(q))
      /\ \A i \in DOMAIN all \ DOMAIN q : all[i] = more[i - Len(q)]
  BY Joined
<1>2. /\ \A i : EndTold(q, f, i) => EndTold(all, f, i)
      /\ EndTold(more, f, 0) => \A i \in 0..Len(q) : EndTold(all, f, i)
  BY StillTold
<1> HIDE DEF all
<1>3. \A s : \A i \in 0..Len(q) : Accounted(q, x, f, s, i) => Accounted(all, y, f, s, i)
  BY <1>2 DEF Accounted
<1>4. \A s \in Refs!Sess \cup {None} : Drawn(x, s) => Drawn(y, s)
  <2>1. x.drawn \in Nat /\ y.drawn \in Nat /\ \A s \in Refs!Sess : s \in Nat
    BY DEF FrameState, Refs!Sess, RefsAssumption
  <2> QED BY <2>1 DEF Drawn
<1>5. other # None => Accounted(all, y, f, other, 0)
  <2>1. 0 \in 0..Len(q) BY <1>1
  <2> QED BY <1>3, <2>1 DEF FrameInv
<1>6. ASSUME NEW i \in DOMAIN all, all[i].kind = "session", all[i].frame = f
      PROVE  Drawn(y, all[i].sess) /\ Accounted(all, y, f, all[i].sess, i)
  <2>1. CASE i \in DOMAIN q
    <3>1. q[i] \in RefEvents /\ q[i].kind = "session" /\ q[i].frame = f /\ all[i] = q[i]
      BY <1>1, <1>6, <2>1
    <3>2. q[i].sess \in Refs!Sess BY <3>1, EventFacts DEF RefsAssumption
    <3>3. Drawn(x, q[i].sess) /\ Accounted(q, x, f, q[i].sess, i) BY <2>1, <3>1 DEF FrameInv
    <3>4. i \in 0..Len(q) BY <1>1, <2>1
    <3> QED BY <1>3, <1>4, <3>1, <3>2, <3>3, <3>4
  <2>2. CASE i \notin DOMAIN q BY <1>1, <1>6, <2>2 DEF Drawn, Accounted
  <2> QED BY <2>1, <2>2
<1>7. entry.sess \in Refs!Sess \cup {None} BY DEF Entries
<1> QED BY <1>4, <1>5, <1>6, <1>7 DEF FrameInv, all

LEMMA KeptAhead ==
    ASSUME NEW q \in Seq(RefEvents), NEW more \in Seq(RefEvents), NEW f, NEW x, NEW y,
           NEW own, NEW other, NEW d, FrameKept(q, x, own, other, f, d),
           \/ FrameLeft(more, f)
           \/ x.life = "there" /\ own \in x.live =>
                 /\ y.life = "there" /\ own \in y.live /\ y.doc = x.doc
                 /\ \A i \in DOMAIN more : ~Brings(more[i], f)
    PROVE  FrameKept(q \o more, y, own, other, f, d)
<1>1. FrameLeft(q, f) \/ FrameLeft(more, f) => FrameLeft(q \o more, f) BY StillTold
<1>2. CASE FrameLeft(q, f) \/ FrameLeft(more, f) BY <1>1, <1>2 DEF FrameKept
<1>3. CASE ~FrameLeft(q, f) /\ ~FrameLeft(more, f)
  <2>1. \A i \in DOMAIN more : ~Brings(more[i], f) BY <1>3 DEF FrameKept
  <2>2. UpdateTold(q, own, other, f) => UpdateTold(q \o more, own, other, f)
    BY <2>1, StillUpdated
  <2> QED BY <1>3, <2>2 DEF FrameKept
<1> QED BY <1>2, <1>3

LEMMA ReadableAhead ==
    ASSUME RefsAssumption, NEW q \in Seq(RefEvents), NEW more \in Seq(RefEvents),
           NEW f \in TabFrames,
           NEW x \in FrameState, NEW y \in FrameState, NEW own, NEW s \in Refs!Sess \cup {None},
           Readable(q, x, own, f, s), x.drawn <= y.drawn,
           s <= x.drawn /\ s \in y.live => s \in x.live,
           FrameLeft(more, f) \/ (own \in x.live /\ y.live # {} => own \in y.live)
    PROVE  Readable(q \o more, y, own, f, s)
<1>1. FrameLeft(q, f) \/ FrameLeft(more, f) => FrameLeft(q \o more, f) BY StillTold
<1>2. s # None => s <= y.drawn
  <2>1. x.drawn \in Nat /\ y.drawn \in Nat /\ (s \in Refs!Sess => s \in Nat)
    BY DEF FrameState, Refs!Sess, RefsAssumption
  <2> QED BY <2>1 DEF Readable
<1> QED BY <1>1, <1>2 DEF Readable

LEMMA Glued ==
    ASSUME NEW q \in Seq(RefEvents), NEW a \in Seq(RefEvents), NEW b \in Seq(RefEvents)
    PROVE  /\ q \o a \o b = q \o (a \o b)
           /\ (\A i \in DOMAIN a : a[i].kind # "session") =>
                 ((\A i \in DOMAIN b : b[i].kind # "session") =>
                    \A i \in DOMAIN (a \o b) : (a \o b)[i].kind # "session")
<1>1. q \o a \o b = q \o (a \o b) OBVIOUS
<1>2. \A i \in DOMAIN (a \o b) : \/ i \in DOMAIN a /\ (a \o b)[i] = a[i]
                                 \/ i - Len(a) \in DOMAIN b /\ (a \o b)[i] = b[i - Len(a)]
  <2>1. \A i \in DOMAIN (a \o b) : i \in DOMAIN a \/ (i - Len(a) \in DOMAIN b /\ i > Len(a))
    BY Joined
  <2>2. /\ \A i \in DOMAIN a : (a \o b)[i] = a[i]
        /\ \A i \in DOMAIN (a \o b) \ DOMAIN a : (a \o b)[i] = b[i - Len(a)]
    BY Joined
  <2> QED BY <2>1, <2>2
<1> QED BY <1>1, <1>2

\* Counting is the same in every module.
LEMMA CountsAlike == ASSUME NEW S PROVE Refs!Cardinality(S) = Cardinality(S)
BY DEF Refs!Cardinality, Cardinality

LEMMA FrameFacts ==
    ASSUME RefsAssumption, NEW x \in FrameState
    PROVE  x.drawn \in Nat /\ x.live \subseteq Refs!Sess /\ IsFiniteSet(x.live)
<1>1. x.drawn \in Nat /\ x.live \subseteq Refs!Sess BY DEF FrameState, RefsAssumption
<1>2. IsFiniteSet(Refs!Sess) BY FS_Interval DEF RefsAssumption, Refs!Sess
<1> QED BY <1>1, <1>2, FS_Subset

LEMMA NewDocumentKeeps ==
    ASSUME RefsAssumption, RefInv, Refs!NewDocument
    PROVE  RefInv'
<1>1. /\ doc \in Nat /\ frame \in [TabFrames -> FrameState] /\ queue \in Seq(RefEvents)
      /\ table \in [TabFrames -> Entries] /\ orphan \in [TabFrames -> Refs!Sess \cup {None}]
      /\ UNCHANGED <<table, orphan, store, snap, overtaken>>
  BY DEF RefInv, RefTypes, Refs!NewDocument
<1>2. doc' \in Nat
  <2>1. doc \in Nat BY DEF RefInv, RefTypes
  <2>2. doc' = doc + 1 BY DEF Refs!NewDocument
  <2> QED BY <2>1, <2>2
<1>3. frame' = [f \in TabFrames |-> IF frame[f].life = "new" THEN frame[f]
                                    ELSE [frame[f] EXCEPT !.life = "dead", !.live = {}]]
  BY DEF Refs!NewDocument
\* Whatever is told of the frames, the new document is told of.
<1>4. \E more \in Seq(RefEvents) : /\ queue' = queue \o more /\ PageLeft(more)
                                   /\ \A i \in DOMAIN more : more[i].kind # "session"
  <2>1. PICK told \in SUBSET Refs!There, how \in {"navigated", "opened", "updated"} :
           \E batch \in
                 [1..Refs!Cardinality(told) -> {Refs!Event("detached", f, None) : f \in told}] :
              \/ queue' = queue \o batch \o <<Refs!Event(how, None, None)>>
              \/ queue' = queue \o <<Refs!Event(how, None, None)>> \o batch
    BY DEF Refs!NewDocument
  <2>2. PICK batch \in
                 [1..Refs!Cardinality(told) -> {Refs!Event("detached", f, None) : f \in told}] :
              \/ queue' = queue \o batch \o <<Refs!Event(how, None, None)>>
              \/ queue' = queue \o <<Refs!Event(how, None, None)>> \o batch
    BY <2>1
  <2>3. told \subseteq TabFrames BY DEF Refs!There
  <2>4. Refs!Cardinality(told) \in Nat
    BY <2>3, CountsAlike, FS_Subset, FS_CardinalityType DEF RefsAssumption
  <2> DEFINE out == {Refs!Event("detached", f, None) : f \in told}
             new == Refs!Event(how, None, None)
  <2>5. \A e \in out : e \in RefEvents /\ e.kind = "detached"
    BY <2>3 DEF Refs!Event, RefEvents
  <2>6. new \in RefEvents /\ new.kind # "session" /\ new.frame = None
    BY DEF Refs!Event, RefEvents
  <2> HIDE DEF out, new
  <2>7. batch \in Seq(RefEvents) /\ \A i \in DOMAIN batch : batch[i].kind # "session"
    <3>1. batch \in [1..Refs!Cardinality(told) -> out] BY <2>2 DEF out
    <3> QED BY <2>4, <2>5, <3>1
  <2>8. ASSUME queue' = queue \o batch \o <<new>>
        PROVE  \E more \in Seq(RefEvents) : /\ queue' = queue \o more /\ PageLeft(more)
                                   /\ \A i \in DOMAIN more : more[i].kind # "session"
    <3> DEFINE more == batch \o <<new>>
    <3>1. <<new>> \in Seq(RefEvents) /\ \A i \in DOMAIN <<new>> : <<new>>[i].kind # "session"
      BY <2>6
    <3>2. more \in Seq(RefEvents) BY <2>7, <3>1
    <3>3. queue' = queue \o more BY <1>1, <2>7, <2>8, <3>1, Glued
    <3>4. more \in Seq(RefEvents) /\ queue' = queue \o more BY <3>2, <3>3
    <3>5. more[Len(batch) + 1].frame = None /\ Len(batch) + 1 \in DOMAIN more
      BY <2>6, <2>7
    <3>6. \A i \in DOMAIN more : more[i].kind # "session" BY <1>1, <2>7, <3>1, Glued
    <3> HIDE DEF more
    <3>7. PageLeft(more) BY <3>5 DEF PageLeft
    <3> QED BY <3>4, <3>6, <3>7
  <2>9. ASSUME queue' = queue \o <<new>> \o batch
        PROVE  \E more \in Seq(RefEvents) : /\ queue' = queue \o more /\ PageLeft(more)
                                   /\ \A i \in DOMAIN more : more[i].kind # "session"
    <3> DEFINE more == <<new>> \o batch
    <3>1. <<new>> \in Seq(RefEvents) /\ \A i \in DOMAIN <<new>> : <<new>>[i].kind # "session"
      BY <2>6
    <3>2. more \in Seq(RefEvents) BY <2>7, <3>1
    <3>3. queue' = queue \o more BY <1>1, <2>7, <2>9, <3>1, Glued
    <3>4. more \in Seq(RefEvents) /\ queue' = queue \o more BY <3>2, <3>3
    <3>5. more[1].frame = None /\ 1 \in DOMAIN more BY <2>6, <2>7
    <3>6. \A i \in DOMAIN more : more[i].kind # "session" BY <1>1, <2>7, <3>1, Glued
    <3> HIDE DEF more
    <3>7. PageLeft(more) BY <3>5 DEF PageLeft
    <3> QED BY <3>4, <3>6, <3>7
  <2> QED BY <2>2, <2>8, <2>9 DEF new
<1>5. PICK more \in Seq(RefEvents) : /\ queue' = queue \o more /\ PageLeft(more)
                                     /\ \A i \in DOMAIN more : more[i].kind # "session"
  BY <1>4
<1>6. queue' \in Seq(RefEvents) /\ doc' \in Nat BY <1>1, <1>2, <1>5, Joined
<1>7. PageLeft(queue') /\ \A f : FrameLeft(more, f) BY <1>1, <1>5, StillTold DEF FrameLeft
<1>8. \A f \in TabFrames : /\ frame'[f] \in FrameState /\ frame'[f].drawn = frame[f].drawn
                           /\ frame[f].live = {} \/ frame'[f].life = "dead"
                           /\ frame[f].life = "dead" => frame'[f].life = "dead"
                           /\ frame'[f].live \subseteq 1..frame'[f].drawn
                           /\ frame'[f].live = {}
                           /\ FrameInv(queue, frame[f], table[f], orphan[f], f)
  <2> SUFFICES ASSUME NEW f \in TabFrames
               PROVE  /\ frame'[f] \in FrameState /\ frame'[f].drawn = frame[f].drawn
                      /\ frame[f].live = {} \/ frame'[f].life = "dead"
                      /\ frame[f].life = "dead" => frame'[f].life = "dead"
                      /\ frame'[f].live \subseteq 1..frame'[f].drawn
                      /\ frame'[f].live = {}
                      /\ FrameInv(queue, frame[f], table[f], orphan[f], f)
    OBVIOUS
  <2>1. FrameInv(queue, frame[f], table[f], orphan[f], f) BY DEF RefInv, FramesOk
  <2>2. frame[f].life # "there" => frame[f].live = {} BY <2>1 DEF FrameInv
  <2> QED BY <1>1, <1>3, <2>1, <2>2 DEF FrameState
<1>9. frame' \in [TabFrames -> FrameState] BY <1>3, <1>8
<1>10. FramesOk'
  <2> SUFFICES ASSUME NEW f \in TabFrames
               PROVE  FrameInv(queue', frame'[f], table[f], orphan[f], f)
    BY <1>1 DEF FramesOk
  <2>1. frame[f].drawn <= frame'[f].drawn BY <1>1, <1>8, FrameFacts
  <2>2. table[f] \in Entries /\ orphan[f] \in Refs!Sess \cup {None} /\ frame[f] \in FrameState
    BY <1>1
  <2>3. \A s \in frame[f].live : frame'[f].life = "dead" BY <1>8
  <2> QED BY <1>1, <1>5, <1>8, <2>1, <2>2, <2>3, AccountedAhead
<1>11. \A r \in TabRefs : Spared(r)
  <2> SUFFICES ASSUME NEW r \in TabRefs, Kept(r) PROVE Kept(r)' BY DEF Spared
  <2>1. FrameLeft(queue', r.in) BY <1>7 DEF FrameLeft
  <2> QED BY <1>1, <1>7, <2>1 DEF Kept, FrameKept
<1>12. \A f \in TabFrames : \A s \in Refs!Sess \cup {None} :
          Readable(queue, frame[f], table[f].sess, f, s)
            => Readable(queue', frame'[f], table[f].sess, f, s)
  BY <1>8 DEF Readable
<1>13. \A f \in TabFrames : frame[f].drawn <= frame'[f].drawn
  BY <1>1, <1>8, FrameFacts
<1> QED BY <1>1, <1>6, <1>9, <1>10, <1>11, <1>12, <1>13, BrowserKeeps

\* One frame changes, and only events about it are told.
LEMMA OneFrame ==
    ASSUME RefsAssumption, RefInv, NEW f \in TabFrames, NEW y \in FrameState,
           NEW more \in Seq(RefEvents), frame' = [frame EXCEPT ![f] = y], queue' = queue \o more,
           UNCHANGED <<doc, table, orphan, store, snap, overtaken>>,
           \A i \in DOMAIN more : more[i].frame = f,
           frame[f].drawn <= y.drawn,
           FrameInv(queue \o more, y, table[f], orphan[f], f),
           \A d : FrameKept(queue, frame[f], table[f].sess, orphan[f], f, d)
                    => FrameKept(queue \o more, y, table[f].sess, orphan[f], f, d),
           \A s \in Refs!Sess \cup {None} : Readable(queue, frame[f], table[f].sess, f, s)
                                         => Readable(queue \o more, y, table[f].sess, f, s)
    PROVE  RefInv'
<1>1. /\ frame \in [TabFrames -> FrameState] /\ queue \in Seq(RefEvents)
      /\ table \in [TabFrames -> Entries] /\ orphan \in [TabFrames -> Refs!Sess \cup {None}]
      /\ doc' \in Nat
  BY DEF RefInv, RefTypes
<1>2. /\ frame' \in [TabFrames -> FrameState] /\ frame'[f] = y
      /\ \A g \in TabFrames \ {f} : frame'[g] = frame[g]
  BY <1>1
<1>3. ASSUME NEW g \in TabFrames \ {f}
      PROVE  /\ frame[g] \in FrameState /\ frame[g].drawn <= frame[g].drawn
             /\ FrameInv(queue, frame[g], table[g], orphan[g], g)
             /\ \A i \in DOMAIN more : ~Brings(more[i], g)
             /\ \A i \in DOMAIN more : more[i].frame # g
  BY <1>1, FrameFacts DEF RefInv, FramesOk, Brings
<1>4. FramesOk'
  <2> SUFFICES ASSUME NEW g \in TabFrames \ {f}
               PROVE  FrameInv(queue \o more, frame[g], table[g], orphan[g], g)
    BY <1>2 DEF FramesOk
  <2>1. /\ table[g] \in Entries /\ orphan[g] \in Refs!Sess \cup {None}
        /\ frame[g].live \subseteq 1..frame[g].drawn
        /\ frame[g].life # "there" => frame[g].live = {}
    BY <1>1, <1>3 DEF FrameInv
  <2> QED BY <1>1, <1>3, <2>1, AccountedAhead
<1>5. \A r \in TabRefs : Spared(r)
  <2> SUFFICES ASSUME NEW r \in TabRefs, Kept(r) PROVE Kept(r)' BY DEF Spared
  <2>1. CASE r.in = None
    <3>1. PageLeft(queue) => PageLeft(queue') BY <1>1, StillTold
    <3> QED BY <2>1, <3>1 DEF Kept
  <2>2. CASE r.in = f /\ r.in # None BY <1>2, <2>2 DEF Kept
  <2>3. CASE r.in # f /\ r.in # None
    <3>1. r.in \in TabFrames \ {f} BY <2>3 DEF TabRefs
    <3>2. FrameKept(queue, frame[r.in], table[r.in].sess, orphan[r.in], r.in, r.doc)
      BY <2>3 DEF Kept
    <3>3. FrameKept(queue', frame[r.in], table[r.in].sess, orphan[r.in], r.in, r.doc)
      BY <1>1, <1>3, <3>1, <3>2, KeptAhead
    <3> QED BY <1>2, <2>3, <3>1, <3>3 DEF Kept
  <2> QED BY <2>1, <2>2, <2>3
<1>6. ASSUME NEW g \in TabFrames, NEW s \in Refs!Sess \cup {None},
             Readable(queue, frame[g], table[g].sess, g, s)
      PROVE  Readable(queue', frame'[g], table[g].sess, g, s)
  <2>1. CASE g = f BY <1>2, <1>6, <2>1
  <2>2. CASE g # f
    <3>1. FrameLeft(queue, g) => FrameLeft(queue', g) BY <1>1, StillTold
    <3> QED BY <1>2, <1>6, <2>2, <3>1 DEF Readable
  <2> QED BY <2>1, <2>2
<1>7. \A g \in TabFrames : frame[g].drawn <= frame'[g].drawn BY <1>2, <1>3
<1> QED BY <1>1, <1>2, <1>4, <1>5, <1>6, <1>7, Joined, BrowserKeeps

LEMMA Tuples ==
    ASSUME NEW a \in RefEvents, NEW b \in RefEvents, NEW c \in RefEvents
    PROVE  /\ <<a, b>> \in Seq(RefEvents) /\ DOMAIN <<a, b>> = 1..2
           /\ \A i \in DOMAIN <<a, b>> : <<a, b>>[i] \in {a, b}
           /\ <<a, b, c>> \in Seq(RefEvents) /\ DOMAIN <<a, b, c>> = 1..3
           /\ \A i \in DOMAIN <<a, b, c>> : <<a, b, c>>[i] \in {a, b, c}
OBVIOUS

LEMMA FrameComesKeeps ==
    ASSUME RefsAssumption, RefInv, NEW f \in TabFrames, Refs!FrameComes(f)
    PROVE  RefInv'
<1> DEFINE x == frame[f]
           new == x.drawn + 1
           y == [x EXCEPT !.life = "there", !.live = {new}, !.drawn = new]
           in == Refs!Event("attached", f, None)
           made == Refs!Event("session", f, new)
           swap == Refs!Event("detached", f, None)
<1>1. /\ frame \in [TabFrames -> FrameState] /\ queue \in Seq(RefEvents)
      /\ table[f] \in Entries /\ orphan[f] \in Refs!Sess \cup {None} /\ x \in FrameState
  BY DEF RefInv, RefTypes
<1>2. /\ x.life \in {"new", "out"} /\ x.drawn < MaxSess
      /\ frame' = [frame EXCEPT ![f].life = "there", ![f].live = {new}, ![f].drawn = @ + 1]
      /\ UNCHANGED <<doc, table, orphan, store, snap, overtaken>>
      /\ \E batch \in {<<in, made>>, <<made, in>>, <<in, made, swap>>,
                        <<in, swap, made>>, <<swap, made>>, <<made, swap>>} :
            queue' = queue \o batch
  BY DEF Refs!FrameComes
<1>3. x.drawn \in Nat /\ new \in Refs!Sess /\ x.drawn <= new
  BY <1>1, <1>2, FrameFacts DEF Refs!Sess, RefsAssumption
<1>4. /\ y \in FrameState /\ y.life = "there" /\ y.live = {new} /\ y.drawn = new
      /\ frame' = [frame EXCEPT ![f] = y]
  <2>1. new \in 0..MaxSess /\ {new} \subseteq Refs!Sess BY <1>3 DEF Refs!Sess, RefsAssumption
  <2>2. y = [x EXCEPT !.life = "there", !.live = {new}, !.drawn = new] OBVIOUS
  <2>3. frame' = [frame EXCEPT ![f] = y] BY <1>1, <1>2
  <2> HIDE DEF y, new
  <2> QED BY <1>1, <2>1, <2>2, <2>3 DEF FrameState
<1>5. PICK more \in Seq(RefEvents) :
         /\ queue' = queue \o more
         /\ \A i \in DOMAIN more : /\ more[i].frame = f
                                   /\ more[i].kind = "session" => more[i].sess = new
  <2>1. /\ in \in RefEvents /\ made \in RefEvents /\ swap \in RefEvents
        /\ in.frame = f /\ made.frame = f /\ swap.frame = f
        /\ in.kind # "session" /\ swap.kind # "session" /\ made.sess = new
    BY <1>3 DEF Refs!Event, RefEvents
  <2> HIDE DEF in, made, swap
  <2> DEFINE Fit(batch) == /\ batch \in Seq(RefEvents)
                            /\ \A i \in DOMAIN batch : batch[i] \in {in, made, swap}
  <2>2. /\ Fit(<<in, made>>) /\ Fit(<<made, in>>)
        /\ Fit(<<swap, made>>) /\ Fit(<<made, swap>>)
    BY <2>1, Tuples
  <2>3. Fit(<<in, made, swap>>) /\ Fit(<<in, swap, made>>) BY <2>1, Tuples
  <2> HIDE DEF Fit
  <2>4. PICK batch : queue' = queue \o batch /\ Fit(batch) BY <1>2, <2>2, <2>3
  <2> QED BY <2>1, <2>4 DEF Fit
<1> HIDE DEF y, in, made, swap
<1>6. FrameInv(queue, x, table[f], orphan[f], f) BY DEF RefInv, FramesOk
<1>7. x.live = {} /\ x.life # "dead" /\ x.life # "there" BY <1>2, <1>6 DEF FrameInv
<1>8. FrameInv(queue \o more, y, table[f], orphan[f], f)
  <2>1. y.live \subseteq 1..y.drawn /\ x.drawn <= y.drawn BY <1>3, <1>4
  <2>2. \A i \in DOMAIN more : more[i].kind = "session" /\ more[i].frame = f =>
              more[i].sess <= y.drawn /\ more[i].sess \in y.live
    BY <1>3, <1>4, <1>5
  <2> QED BY <1>1, <1>4, <1>5, <1>6, <1>7, <2>1, <2>2, AccountedAhead
<1>9. ASSUME NEW d, FrameKept(queue, x, table[f].sess, orphan[f], f, d)
      PROVE  FrameKept(queue \o more, y, table[f].sess, orphan[f], f, d)
  BY <1>1, <1>5, <1>7, <1>9, KeptAhead
<1>10. ASSUME NEW s \in Refs!Sess \cup {None}, Readable(queue, x, table[f].sess, f, s)
       PROVE  Readable(queue \o more, y, table[f].sess, f, s)
  <2>1. s <= x.drawn => s # new \/ s = None
    <3>1. s \in Refs!Sess => s \in Nat BY DEF Refs!Sess
    <3> QED BY <1>3, <3>1
  <2>2. new # None BY <1>3 DEF RefsAssumption
  <2> QED BY <1>1, <1>3, <1>4, <1>5, <1>7, <1>10, <2>1, <2>2, ReadableAhead
<1>11. x.drawn <= y.drawn /\ \A i \in DOMAIN more : more[i].frame = f BY <1>3, <1>4, <1>5
<1>12. UNCHANGED <<doc, table, orphan, store, snap, overtaken>> BY <1>2
<1> QED BY <1>4, <1>5, <1>8, <1>9, <1>10, <1>11, <1>12, OneFrame

\* Events in some order are every one of them.
LEMMA EveryOne ==
    ASSUME NEW S, IsFiniteSet(S), NEW batch, Refs!InSomeOrder(S, batch)
    PROVE  /\ Cardinality(S) \in Nat /\ DOMAIN batch = 1..Cardinality(S)
           /\ batch \in [1..Cardinality(S) -> S]
           /\ \A e \in S : \E i \in DOMAIN batch : batch[i] = e
<1> DEFINE n == Cardinality(S)
<1>1. n \in Nat BY FS_CardinalityType
<1>2. batch \in [1..n -> S] /\ \A i, j \in 1..n : i # j => batch[i] # batch[j]
  BY CountsAlike DEF Refs!InSomeOrder
<1>3. Cardinality(1..n) = n BY <1>1, FS_Interval
<1> HIDE DEF n
<1>4. batch \in Injection(1..n, S) BY <1>2 DEF Injection, IsInjective
<1>5. batch \in Surjection(1..n, S) BY <1>3, <1>4, FS_Injection DEF n
<1>6. \A e \in S : \E i \in 1..n : batch[i] = e BY <1>5 DEF Surjection
<1> QED BY <1>1, <1>2, <1>6 DEF n

LEMMA FrameNavigatesKeeps ==
    ASSUME RefsAssumption, RefInv, NEW f \in TabFrames, Refs!FrameNavigates(f)
    PROVE  RefInv'
<1> DEFINE x == frame[f]
           y == [x EXCEPT !.doc = x.doc + 1]
           S == {Refs!Event("updated", f, s) : s \in x.live}
<1>1. /\ frame \in [TabFrames -> FrameState] /\ queue \in Seq(RefEvents)
      /\ table[f] \in Entries /\ orphan[f] \in Refs!Sess \cup {None} /\ x \in FrameState
  BY DEF RefInv, RefTypes
<1>2. /\ x.life = "there" /\ frame' = [frame EXCEPT ![f].doc = @ + 1]
      /\ UNCHANGED <<doc, table, orphan, store, snap, overtaken>>
      /\ \E batch : Refs!InSomeOrder(S, batch) /\ queue' = queue \o batch
  BY DEF Refs!FrameNavigates
<1>3. /\ y \in FrameState /\ y.life = x.life /\ y.live = x.live /\ y.drawn = x.drawn
      /\ frame' = [frame EXCEPT ![f] = y]
  <2>1. x.doc + 1 \in Nat BY <1>1 DEF FrameState
  <2>2. frame' = [frame EXCEPT ![f] = y] BY <1>1, <1>2
  <2> QED BY <1>1, <2>1, <2>2 DEF FrameState
<1>4. IsFiniteSet(x.live) /\ x.live \subseteq Refs!Sess /\ x.drawn \in Nat BY <1>1, FrameFacts
<1>5. IsFiniteSet(S)
  <2> DEFINE told == [s \in x.live |-> Refs!Event("updated", f, s)]
  <2>1. told \in Surjection(x.live, S) BY DEF Surjection
  <2> QED BY <1>4, <2>1, FS_Surjection
<1>6. \A e \in S : /\ e \in RefEvents /\ e.frame = f /\ e.kind = "updated"
  BY <1>4 DEF Refs!Event, RefEvents
<1>7. \A s \in x.live : /\ Refs!Event("updated", f, s) \in S
                        /\ Refs!Event("updated", f, s).sess = s
  BY DEF Refs!Event
<1> HIDE DEF y, S
<1>8. PICK more : Refs!InSomeOrder(S, more) /\ queue' = queue \o more BY <1>2
<1>9. /\ more \in Seq(RefEvents)
      /\ \A i \in DOMAIN more : more[i].frame = f /\ more[i].kind = "updated"
      /\ \A s \in x.live : \E i \in DOMAIN more : more[i].sess = s
  <2>1. /\ Cardinality(S) \in Nat /\ more \in [1..Cardinality(S) -> S]
        /\ \A e \in S : \E i \in DOMAIN more : more[i] = e
    BY <1>5, <1>8, EveryOne
  <2>2. more \in Seq(S) BY <2>1
  <2> QED BY <1>6, <1>7, <2>1, <2>2
<1>10. FrameInv(queue, x, table[f], orphan[f], f) BY DEF RefInv, FramesOk
<1>11. FrameInv(queue \o more, y, table[f], orphan[f], f)
  <2>1. y.live \subseteq 1..y.drawn /\ x.drawn <= y.drawn /\ (y.life # "there" => y.live = {})
    BY <1>3, <1>4, <1>10 DEF FrameInv
  <2> QED BY <1>1, <1>3, <1>9, <1>10, <2>1, AccountedAhead
<1>12. ASSUME NEW d, FrameKept(queue, x, table[f].sess, orphan[f], f, d)
       PROVE  FrameKept(queue \o more, y, table[f].sess, orphan[f], f, d)
  <2> DEFINE all == queue \o more
             own == table[f].sess
  <2>1. /\ Len(queue) \in Nat /\ DOMAIN queue = 1..Len(queue)
        /\ \A i \in DOMAIN queue : i \in DOMAIN all /\ all[i] = queue[i]
        /\ \A i \in DOMAIN more : /\ i + Len(queue) \in DOMAIN all /\ i \in Nat /\ i > 0
                                  /\ all[i + Len(queue)] = more[i]
        /\ \A i \in DOMAIN all \ DOMAIN queue : i - Len(queue) \in DOMAIN more
                                                /\ all[i] = more[i - Len(queue)]
    <3>1. DOMAIN more = 1..Len(more) /\ Len(more) \in Nat BY <1>1, <1>9, Joined
    <3> QED BY <1>1, <1>9, <3>1, Joined
  <2> HIDE DEF all, own
  <2>2. FrameLeft(queue, f) => FrameLeft(all, f) BY <1>1, <1>9, StillTold DEF all
  <2>3. CASE FrameLeft(queue, f) BY <1>12, <2>2, <2>3 DEF FrameKept, all
  <2>4. CASE ~FrameLeft(queue, f)
    <3>1. own # None /\ own \in x.live BY <1>12, <2>4 DEF FrameKept, own
    <3>2. \A i : ~EndTold(queue, f, i) BY <2>4 DEF EndTold, FrameLeft
    <3>3. \A i \in DOMAIN all \ DOMAIN queue : all[i].frame = f /\ all[i].kind = "updated"
      BY <1>9, <2>1
    <3>4. ASSUME NEW s \in Refs!Sess, MayBe(all, own, orphan[f], f, s) PROVE s \in x.live
      <4>1. CASE s = own BY <3>1, <4>1
      <4>2. CASE s = orphan[f]
        <5>1. s # None BY DEF RefsAssumption
        <5>2. Accounted(queue, x, f, s, 0) BY <1>10, <4>2, <5>1 DEF FrameInv
        <5> QED BY <1>2, <3>2, <5>2 DEF Accounted
      <4>3. CASE s # own /\ s # orphan[f]
        <5>1. PICK i \in DOMAIN all :
                 all[i].frame = f /\ all[i].kind = "session" /\ all[i].sess = s
          BY <3>4, <4>3 DEF MayBe
        <5>2. i \in DOMAIN queue BY <3>3, <5>1
        <5>3. Accounted(queue, x, f, s, i) BY <1>10, <2>1, <5>1, <5>2 DEF FrameInv
        <5> QED BY <1>2, <3>2, <5>3 DEF Accounted
      <4> QED BY <4>1, <4>2, <4>3
    <3>5. ASSUME NEW s \in Refs!Sess, MayBe(all, own, orphan[f], f, s)
          PROVE  \E i \in DOMAIN all : UpdateAt(all, f, s, i)
      <4>1. PICK i \in DOMAIN more : more[i].sess = s BY <1>9, <3>4, <3>5
      <4>2. \A j \in DOMAIN all : Brings(all[j], f) => j \in DOMAIN queue
        BY <3>3 DEF Brings
      <4>3. \A j \in DOMAIN queue : j < i + Len(queue) BY <2>1
      <4>4. UpdateAt(all, f, s, i + Len(queue)) BY <1>9, <2>1, <4>1, <4>2, <4>3 DEF UpdateAt
      <4> QED BY <2>1, <4>4
    <3>6. UpdateTold(all, own, orphan[f], f) BY <3>5 DEF UpdateTold
    <3> QED BY <1>2, <1>3, <3>1, <3>6 DEF FrameKept, all, own
  <2> QED BY <2>3, <2>4
<1>13. ASSUME NEW s \in Refs!Sess \cup {None}, Readable(queue, x, table[f].sess, f, s)
       PROVE  Readable(queue \o more, y, table[f].sess, f, s)
  <2>1. FrameLeft(queue, f) => FrameLeft(queue \o more, f) BY <1>1, <1>9, StillTold
  <2> QED BY <1>3, <1>13, <2>1 DEF Readable
<1>14. x.drawn <= y.drawn BY <1>3, <1>4
<1>15. UNCHANGED <<doc, table, orphan, store, snap, overtaken>> BY <1>2
<1> QED BY <1>3, <1>8, <1>9, <1>11, <1>12, <1>13, <1>14, <1>15, OneFrame

LEMMA FrameGoesKeeps ==
    ASSUME RefsAssumption, RefInv, NEW f \in TabFrames, Refs!FrameGoes(f)
    PROVE  RefInv'
<1> DEFINE x == frame[f]
           y == [x EXCEPT !.life = "out", !.live = {}]
           left == Refs!Event("detached", f, None)
           ended == Refs!Event("ended", f, None)
           n == Refs!Cardinality(x.live)
           ends == [i \in 1..n |-> ended]
<1>1. /\ frame \in [TabFrames -> FrameState] /\ queue \in Seq(RefEvents)
      /\ table[f] \in Entries /\ orphan[f] \in Refs!Sess \cup {None} /\ x \in FrameState
  BY DEF RefInv, RefTypes
<1>2. /\ x.life = "there" /\ frame' = [frame EXCEPT ![f].life = "out", ![f].live = {}]
      /\ UNCHANGED <<doc, table, orphan, store, snap, overtaken>>
      /\ \/ queue' = queue \o (<<left>> \o ends)
         \/ queue' = queue \o (ends \o <<left>>)
         \/ queue' = queue \o ends /\ ends # <<>>
  BY DEF Refs!FrameGoes
<1>3. x.drawn \in Nat /\ IsFiniteSet(x.live) BY <1>1, FrameFacts
<1>4. n \in Nat /\ (x.live # {} => n > 0)
  BY <1>3, CountsAlike, FS_CardinalityType, FS_EmptySet
<1>5. /\ y \in FrameState /\ y.life = "out" /\ y.live = {} /\ y.drawn = x.drawn
      /\ frame' = [frame EXCEPT ![f] = y]
  BY <1>1, <1>2 DEF FrameState
<1>6. /\ left \in RefEvents /\ left.frame = f /\ left.kind = "detached"
      /\ ended \in RefEvents /\ ended.frame = f /\ ended.kind = "ended"
  BY DEF Refs!Event, RefEvents
<1> HIDE DEF y, left, ended, n
<1>7. PICK more \in Seq(RefEvents) :
         /\ queue' = queue \o more
         /\ \A i \in DOMAIN more : more[i].frame = f /\ more[i].kind \in {"detached", "ended"}
         /\ 1 \in DOMAIN more
         /\ x.live # {} => EndTold(more, f, 0)
  <2> DEFINE Fit(more) ==
         /\ more \in Seq(RefEvents)
         /\ \A i \in DOMAIN more : more[i].frame = f /\ more[i].kind \in {"detached", "ended"}
         /\ 1 \in DOMAIN more
         /\ x.live # {} => EndTold(more, f, 0)
  <2>1. ends \in Seq(RefEvents) /\ DOMAIN ends = 1..n /\ Len(ends) = n BY <1>4, <1>6
  <2>2. \A i \in DOMAIN ends : ends[i] = ended OBVIOUS
  <2>3. /\ <<left>> \in Seq(RefEvents) /\ DOMAIN <<left>> = 1..1 /\ Len(<<left>>) = 1
        /\ <<left>>[1] = left
    BY <1>6
  <2>4. x.live # {} => 1 \in DOMAIN ends BY <1>4, <2>1
  <2> HIDE DEF ends
  <2>5. Fit(<<left>> \o ends)
    <3> DEFINE all == <<left>> \o ends
    <3>1. /\ all \in Seq(RefEvents) /\ 1 \in DOMAIN all
          /\ \A i \in DOMAIN ends : i + 1 \in DOMAIN all /\ all[i + 1] = ended
          /\ \A i \in DOMAIN all : all[i] \in {left, ended}
      BY <2>1, <2>2, <2>3, Joined
    <3> HIDE DEF all
    <3>2. x.live # {} => EndTold(all, f, 0) BY <1>6, <2>4, <3>1 DEF EndTold
    <3> QED BY <1>6, <3>1, <3>2 DEF all
  <2>6. Fit(ends \o <<left>>)
    <3> DEFINE all == ends \o <<left>>
    <3>1. /\ all \in Seq(RefEvents) /\ 1 \in DOMAIN all
          /\ \A i \in DOMAIN ends : i \in DOMAIN all /\ all[i] = ended
          /\ \A i \in DOMAIN all : all[i] \in {left, ended}
      BY <1>4, <2>1, <2>2, <2>3, Joined
    <3> HIDE DEF all
    <3>2. x.live # {} => EndTold(all, f, 0) BY <1>6, <2>4, <3>1 DEF EndTold
    <3> QED BY <1>6, <3>1, <3>2 DEF all
  <2>7. ends # <<>> => Fit(ends)
    <3>1. ends # <<>> => 1 \in DOMAIN ends BY <1>4, <2>1
    <3>2. x.live # {} => EndTold(ends, f, 0) BY <1>6, <2>2, <2>4 DEF EndTold
    <3> QED BY <1>6, <2>1, <2>2, <3>1, <3>2
  <2> HIDE DEF Fit
  <2>8. PICK more : queue' = queue \o more /\ Fit(more)
    BY <1>2, <2>5, <2>6, <2>7 DEF ends
  <2> QED BY <2>8 DEF Fit
<1>8. FrameLeft(more, f) BY <1>7 DEF FrameLeft
<1>9. FrameInv(queue, x, table[f], orphan[f], f) BY DEF RefInv, FramesOk
<1>10. FrameInv(queue \o more, y, table[f], orphan[f], f)
  <2>1. y.live \subseteq 1..y.drawn /\ x.drawn <= y.drawn BY <1>3, <1>5
  <2> QED BY <1>1, <1>2, <1>5, <1>7, <1>9, <2>1, AccountedAhead
<1>11. ASSUME NEW d, FrameKept(queue, x, table[f].sess, orphan[f], f, d)
       PROVE  FrameKept(queue \o more, y, table[f].sess, orphan[f], f, d)
  BY <1>1, <1>8, <1>11, KeptAhead
<1>12. ASSUME NEW s \in Refs!Sess \cup {None}, Readable(queue, x, table[f].sess, f, s)
       PROVE  Readable(queue \o more, y, table[f].sess, f, s)
  <2>1. x.drawn <= y.drawn BY <1>3, <1>5
  <2> QED BY <1>1, <1>5, <1>7, <1>8, <1>12, <2>1, ReadableAhead
<1>13. x.drawn <= y.drawn BY <1>3, <1>5
<1>14. UNCHANGED <<doc, table, orphan, store, snap, overtaken>> BY <1>2
<1> QED BY <1>5, <1>7, <1>10, <1>11, <1>12, <1>13, <1>14, OneFrame

-----------------------------------------------------------------------------
(* The steps of a snapshot.                                                  *)

\* As long as the sessions stay, what is kept is kept.
LEMMA TabStays ==
    ASSUME RefsAssumption, RefInv, UNCHANGED <<doc, frame, queue, orphan>>,
           table' \in [TabFrames -> Entries],
           \A f \in TabFrames :
              table'[f].sess = table[f].sess /\ (table[f].known => table'[f].known)
    PROVE  /\ FramesOk'
           /\ \A r \in TabRefs : Kept(r)' <=> Kept(r)
<1>1. FramesOk'
  <2> SUFFICES ASSUME NEW f \in TabFrames
               PROVE  FrameInv(queue, frame[f], table'[f], orphan[f], f)
    BY DEF FramesOk
  <2>1. FrameInv(queue, frame[f], table[f], orphan[f], f) BY DEF RefInv, FramesOk
  <2> QED BY <2>1 DEF FrameInv
<1>2. ASSUME NEW r \in TabRefs PROVE Kept(r)' <=> Kept(r)
  <2>1. CASE r.in = None BY <2>1 DEF Kept
  <2>2. CASE r.in # None
    <3>1. r.in \in TabFrames BY <2>2 DEF TabRefs
    <3>2. table'[r.in].sess = table[r.in].sess BY <3>1
    <3> QED BY <2>2, <3>2 DEF Kept
  <2> QED BY <2>1, <2>2
<1> QED BY <1>1, <1>2

LEMMA SnapMoves ==
    ASSUME RefsAssumption, RefInv, UNCHANGED <<doc, frame, queue, orphan, store, overtaken>>,
           table' \in [TabFrames -> Entries], snap' \in Snapshots,
           \A f \in TabFrames :
              table'[f].sess = table[f].sess /\ (table[f].known => table'[f].known),
           \/ snap'.pc \notin {"attach", "register"} \/ (snap'.pc = "register" /\ snap'.sess = None)
           \/ store # None /\ ~overtaken =>
                 \A r \in store.refs : r.in = snap'.at => r.stale \/ ~Kept(r),
           \A f \in TabFrames : Drawn(frame[f], snap'.orphans[f]),
           snap'.pc \in {"attach", "register"} =>
              snap'.at # None /\ Drawn(frame[snap'.at], snap'.sess),
           snap'.pc = "idle" => snap'.refs = {},
           snap'.pc \notin {"frames", "replace"} => \A r \in snap'.refs : r.in = None,
           ~snap'.overtaken => \A r \in snap'.refs : Kept(r),
           snap'.pc = "frames" /\ ~snap'.overtaken =>
              \A f \in TabFrames : Readable(queue, frame[f], table[f].sess, f, snap'.with[f])
    PROVE  RefInv'
<1>1. FramesOk' /\ \A r \in TabRefs : Kept(r)' <=> Kept(r) BY TabStays
<1>2. RefTypes' BY DEF RefInv, RefTypes
<1>3. store # None => store.refs \subseteq TabRefs BY DEF RefInv, RefTypes
<1>4. StoreOk' BY <1>1, <1>3 DEF RefInv, StoreOk
<1>5. AskingOk' BY DEF RefInv, StoreOk, AskingOk
<1>6. SnapOk'
  <2>1. snap'.refs \subseteq TabRefs BY DEF Snapshots
  <2> QED BY <1>1, <2>1 DEF SnapOk
<1> QED BY <1>1, <1>2, <1>4, <1>5, <1>6 DEF RefInv

LEMMA SnapFacts ==
    ASSUME RefInv
    PROVE  /\ snap \in Snapshots /\ table \in [TabFrames -> Entries]
           /\ orphan \in [TabFrames -> Refs!Sess \cup {None}]
           /\ frame \in [TabFrames -> FrameState] /\ doc \in Nat
           /\ store # None => store.refs \subseteq TabRefs
           /\ \A f \in TabFrames : Drawn(frame[f], snap.orphans[f])
           /\ snap.pc \notin {"frames", "replace"} => \A r \in snap.refs : r.in = None
           /\ ~snap.overtaken => \A r \in snap.refs : Kept(r)
           /\ snap.pc = "idle" => snap.refs = {}
           /\ snap.pc \in {"attach", "register"} =>
                 snap.at # None /\ Drawn(frame[snap.at], snap.sess)
           /\ queue \in Seq(RefEvents)
BY DEF RefInv, RefTypes, SnapOk

LEMMA SnapBegins == ASSUME RefsAssumption, RefInv, Refs!Snap PROVE RefInv'
<1>1. /\ snap' = [snap EXCEPT !.pc = "read"] /\ snap.pc = "idle"
      /\ UNCHANGED <<doc, frame, queue, table, orphan, store, overtaken>>
  BY DEF Refs!Snap, Refs!SnapTo
<1>2. snap' \in Snapshots /\ snap'.pc = "read" /\ snap'.refs = {} /\ snap'.orphans = snap.orphans
  BY <1>1, SnapFacts DEF Snapshots, Refs!Pcs
<1> QED BY <1>1, <1>2, SnapFacts, SnapMoves

LEMMA ReadPageKeeps == ASSUME RefsAssumption, RefInv, Refs!ReadPage PROVE RefInv'
<1>1. UNCHANGED <<doc, frame, queue, table, orphan, store, overtaken>>
  BY DEF Refs!ReadPage, Refs!OnlySnap
<1> DEFINE read == [in |-> None, doc |-> doc, stale |-> FALSE]
<1>2. CASE snap' = [snap EXCEPT !.pc = "targets", !.refs = {read}]
  <2>1. read \in TabRefs /\ read.in = None /\ Kept(read) BY SnapFacts DEF TabRefs, Kept
  <2> HIDE DEF read
  <2>2. /\ snap' \in Snapshots /\ snap'.pc = "targets" /\ snap'.refs = {read}
        /\ snap'.orphans = snap.orphans
    BY <1>2, <2>1, SnapFacts DEF Snapshots, Refs!Pcs
  <2> QED BY <1>1, <2>1, <2>2, SnapFacts, SnapMoves
<1>3. CASE snap' = Refs!Idle
  <2>1. /\ snap' \in Snapshots /\ snap'.pc = "idle" /\ snap'.refs = {}
        /\ \A f \in TabFrames : snap'.orphans[f] = None
    BY <1>3 DEF Refs!Idle, Snapshots, Refs!Pcs
  <2> QED BY <1>1, <2>1, SnapFacts, SnapMoves DEF Drawn
<1> QED BY <1>2, <1>3 DEF Refs!ReadPage

LEMMA AskTargetsKeeps == ASSUME RefsAssumption, RefInv, Refs!AskTargets PROVE RefInv'
<1>1. /\ UNCHANGED <<doc, frame, queue, table, orphan, store, overtaken>> /\ snap.pc = "targets"
      /\ snap' = [snap EXCEPT !.pc = IF Refs!There = {} THEN "collect" ELSE "owner",
                              !.todo = Refs!There, !.orphans = orphan]
  BY DEF Refs!AskTargets, Refs!OnlySnap
<1>2. Refs!There \in SUBSET TabFrames BY DEF Refs!There
<1>3. /\ snap' \in Snapshots /\ snap'.pc \in {"collect", "owner"} /\ snap'.refs = snap.refs
      /\ snap'.orphans = orphan /\ snap'.overtaken = snap.overtaken
  BY <1>1, <1>2, SnapFacts DEF Snapshots, Refs!Pcs
<1>4. \A f \in TabFrames : Drawn(frame[f], orphan[f]) BY DEF RefInv, FramesOk, FrameInv
<1> QED BY <1>1, <1>3, <1>4, SnapFacts, SnapMoves

\* A frame without a session of its own has no reference that may be used.
LEMMA AskOwnerKeeps ==
    ASSUME RefsAssumption, RefInv, NEW f \in TabFrames, Refs!AskOwner(f) PROVE RefInv'
<1>1. UNCHANGED <<doc, frame, queue, table, orphan, store, overtaken>> /\ snap.pc = "owner"
  BY DEF Refs!AskOwner, Refs!OnlySnap
<1>2. CASE snap' = [snap EXCEPT !.todo = @ \ {f}]
  <2>1. /\ snap' \in Snapshots /\ snap'.pc = "owner" /\ snap'.refs = snap.refs
        /\ snap'.orphans = snap.orphans /\ snap'.overtaken = snap.overtaken
    BY <1>1, <1>2, SnapFacts DEF Snapshots, Refs!Pcs
  <2> QED BY <1>1, <2>1, SnapFacts, SnapMoves
<1>3. CASE snap' = [snap EXCEPT !.pc = IF table[f].sess = None /\ snap.orphans[f] = None
                                       THEN "attach" ELSE "register",
                                !.todo = @ \ {f}, !.at = f,
                                !.sess = IF table[f].sess = None THEN snap.orphans[f] ELSE None]
  <2> DEFINE pc == IF table[f].sess = None /\ snap.orphans[f] = None THEN "attach" ELSE "register"
             sess == IF table[f].sess = None THEN snap.orphans[f] ELSE None
  <2>1. /\ pc \in {"attach", "register"} /\ sess \in Refs!Sess \cup {None}
        /\ pc = "attach" => table[f].sess = None
        /\ sess # None => table[f].sess = None
        /\ Drawn(frame[f], sess)
    BY SnapFacts DEF Snapshots, Drawn
  <2> HIDE DEF pc, sess
  <2>2. snap' = [snap EXCEPT !.pc = pc, !.todo = @ \ {f}, !.at = f, !.sess = sess]
    BY <1>3 DEF pc, sess
  <2>3. /\ snap' \in Snapshots /\ snap'.pc = pc /\ snap'.refs = snap.refs /\ snap'.at = f
        /\ snap'.sess = sess /\ snap'.orphans = snap.orphans /\ snap'.overtaken = snap.overtaken
    BY <1>1, <2>1, <2>2, SnapFacts DEF Snapshots, Refs!Pcs
  <2>4. table[f].sess = None => \A r \in store.refs : r.in = f => ~Kept(r)
    BY DEF Kept, FrameKept, RefsAssumption
  <2> QED BY <1>1, <2>1, <2>3, <2>4, SnapFacts, SnapMoves DEF RefsAssumption
<1> QED BY <1>2, <1>3 DEF Refs!AskOwner

LEMMA AllAskedKeeps == ASSUME RefsAssumption, RefInv, Refs!AllAsked PROVE RefInv'
<1>1. /\ UNCHANGED <<doc, frame, queue, table, orphan, store, overtaken>> /\ snap.pc = "owner"
      /\ snap' = [snap EXCEPT !.pc = "collect"]
  BY DEF Refs!AllAsked, Refs!OnlySnap, Refs!SnapTo
<1>2. /\ snap' \in Snapshots /\ snap'.pc = "collect" /\ snap'.refs = snap.refs
      /\ snap'.orphans = snap.orphans /\ snap'.overtaken = snap.overtaken
  BY <1>1, SnapFacts DEF Snapshots, Refs!Pcs
<1> QED BY <1>1, <1>2, SnapFacts, SnapMoves

LEMMA CollectKeeps == ASSUME RefsAssumption, RefInv, Refs!Collect PROVE RefInv'
<1> DEFINE with == [f \in TabFrames |-> table[f].sess]
           todo == {f \in TabFrames : table[f].sess # None}
<1>1. /\ UNCHANGED <<doc, frame, queue, table, orphan, store, overtaken>> /\ snap.pc = "collect"
      /\ snap' = [snap EXCEPT !.pc = "frames", !.todo = todo, !.with = with]
  BY DEF Refs!Collect, Refs!OnlySnap
<1>2. with \in [TabFrames -> Refs!Sess \cup {None}] /\ todo \in SUBSET TabFrames
  BY SnapFacts DEF Entries
<1> HIDE DEF with, todo
<1>3. /\ snap' \in Snapshots /\ snap'.pc = "frames" /\ snap'.refs = snap.refs
      /\ snap'.with = with /\ snap'.orphans = snap.orphans /\ snap'.overtaken = snap.overtaken
  BY <1>1, <1>2, SnapFacts DEF Snapshots, Refs!Pcs
<1>4. \A f \in TabFrames : Readable(queue, frame[f], table[f].sess, f, with[f])
  <2>1. \A f \in TabFrames : Drawn(frame[f], table[f].sess) BY DEF RefInv, FramesOk, FrameInv
  <2> QED BY <2>1 DEF Readable, with, Drawn
<1> QED BY <1>1, <1>3, <1>4, SnapFacts, SnapMoves

LEMMA ReadFrameKeeps ==
    ASSUME RefsAssumption, RefInv, NEW f \in TabFrames, Refs!ReadFrame(f) PROVE RefInv'
<1>1. UNCHANGED <<doc, frame, queue, orphan, store, overtaken>> /\ snap.pc = "frames"
  BY DEF Refs!ReadFrame, Refs!OnlySnap
<1>2. PICK found \in BOOLEAN :
        /\ snap' = [snap EXCEPT !.todo = @ \ {f},
                                !.refs =
                     IF found /\ snap.with[f] \in frame[f].live
                     THEN @ \cup {[in |-> f, doc |-> frame[f].doc, stale |-> FALSE]} ELSE @]
        /\ table' = [table EXCEPT ![f].owner = found /\ table[f].known]
  BY DEF Refs!ReadFrame
<1> DEFINE read == [in |-> f, doc |-> frame[f].doc, stale |-> FALSE]
           refs == IF found /\ snap.with[f] \in frame[f].live
                   THEN snap.refs \cup {read} ELSE snap.refs
           owner == found /\ table[f].known
<1>3. /\ table' \in [TabFrames -> Entries]
      /\ \A g \in TabFrames : table'[g].sess = table[g].sess /\ (table[g].known => table'[g].known)
  <2>1. owner \in BOOLEAN BY SnapFacts DEF Entries
  <2> HIDE DEF owner
  <2>2. table' = [table EXCEPT ![f].owner = owner] BY <1>2 DEF owner
  <2> QED BY <2>1, <2>2, SnapFacts DEF Entries
<1>4. read \in TabRefs BY SnapFacts DEF TabRefs, FrameState
<1>5. ~snap.overtaken /\ snap.with[f] \in frame[f].live => Kept(read)
  <2> SUFFICES ASSUME ~snap.overtaken, snap.with[f] \in frame[f].live PROVE Kept(read)
    OBVIOUS
  <2>1. Readable(queue, frame[f], table[f].sess, f, snap.with[f]) BY <1>1 DEF RefInv, SnapOk
  <2>2. snap.with[f] # None BY SnapFacts, FrameFacts DEF RefsAssumption
  <2>3. frame[f].life = "there" BY DEF RefInv, FramesOk, FrameInv
  <2>4. FrameKept(queue, frame[f], table[f].sess, orphan[f], f, frame[f].doc)
    BY <2>1, <2>2, <2>3 DEF Readable, FrameKept
  <2> QED BY <2>4 DEF Kept, RefsAssumption
<1> HIDE DEF read
<1>6. /\ refs \subseteq TabRefs /\ (~snap.overtaken => \A r \in refs : Kept(r))
  <2>1. snap.refs \subseteq TabRefs BY SnapFacts DEF Snapshots
  <2> QED BY <1>4, <1>5, <2>1, SnapFacts
<1>7. snap' = [snap EXCEPT !.todo = @ \ {f}, !.refs = refs] BY <1>2 DEF read
<1> HIDE DEF refs
<1>8. /\ snap' \in Snapshots /\ snap'.pc = "frames" /\ snap'.refs = refs
      /\ snap'.with = snap.with /\ snap'.orphans = snap.orphans
      /\ snap'.overtaken = snap.overtaken
  BY <1>1, <1>6, <1>7, SnapFacts DEF Snapshots, Refs!Pcs
<1>9. ~snap.overtaken =>
         \A g \in TabFrames : Readable(queue, frame[g], table[g].sess, g, snap.with[g])
  BY <1>1 DEF RefInv, SnapOk
<1> QED BY <1>1, <1>3, <1>6, <1>8, <1>9, SnapFacts, SnapMoves

LEMMA ReadAllKeeps == ASSUME RefsAssumption, RefInv, Refs!ReadAll PROVE RefInv'
<1>1. /\ UNCHANGED <<doc, frame, queue, table, orphan, store, overtaken>> /\ snap.pc = "frames"
      /\ snap' = [snap EXCEPT !.pc = "replace"]
  BY DEF Refs!ReadAll, Refs!OnlySnap, Refs!SnapTo
<1>2. /\ snap' \in Snapshots /\ snap'.pc = "replace" /\ snap'.refs = snap.refs
      /\ snap'.orphans = snap.orphans /\ snap'.overtaken = snap.overtaken
  BY <1>1, SnapFacts DEF Snapshots, Refs!Pcs
<1> QED BY <1>1, <1>2, SnapFacts, SnapMoves

LEMMA AttachKeeps ==
    ASSUME RefsAssumption, RefInv, NEW f \in TabFrames, Refs!Attach(f) PROVE RefInv'
<1> DEFINE x == frame[f]
           new == x.drawn + 1
           y == [x EXCEPT !.live = @ \cup {new}, !.drawn = new]
<1>1. /\ UNCHANGED <<doc, queue, table, orphan, store, overtaken>>
      /\ snap.pc = "attach" /\ snap.at = f
  BY DEF Refs!Attach
<1>2. x \in FrameState /\ x.drawn \in Nat /\ x.live \subseteq Refs!Sess BY SnapFacts, FrameFacts
<1>3. ~overtaken /\ store # None => \A r \in store.refs : r.in = f => r.stale
  BY <1>1 DEF RefInv, AskingOk
<1>4. CASE Refs!SnapTo("register") /\ UNCHANGED frame
  <2>1. /\ snap' \in Snapshots /\ snap'.pc = "register" /\ snap'.refs = snap.refs
        /\ snap'.at = f /\ snap'.sess = snap.sess
        /\ snap'.orphans = snap.orphans /\ snap'.overtaken = snap.overtaken
    BY <1>1, <1>4, SnapFacts DEF Snapshots, Refs!Pcs, Refs!SnapTo
  <2> QED BY <1>1, <1>3, <1>4, <2>1, SnapFacts, SnapMoves
\* One more session, which the table gets with the registration.
<1>5. CASE /\ x.life = "there" /\ x.drawn < MaxSess
           /\ frame' = [frame EXCEPT ![f].live = @ \cup {new}, ![f].drawn = @ + 1]
           /\ snap' = [snap EXCEPT !.pc = "register", !.sess = new]
  <2>1. new \in Refs!Sess /\ new \in 0..MaxSess /\ x.drawn <= new
    BY <1>2, <1>5 DEF Refs!Sess, RefsAssumption
  <2>2. frame' = [frame EXCEPT ![f] = y] BY <1>5, SnapFacts
  <2> HIDE DEF new
  <2>3. /\ y \in FrameState /\ y.life = "there" /\ y.live = x.live \cup {new} /\ y.drawn = new
        /\ y.doc = x.doc
    BY <1>2, <1>5, <2>1 DEF FrameState
  <2> HIDE DEF y
  <2>4. /\ snap' \in Snapshots /\ snap'.pc = "register" /\ snap'.refs = snap.refs
        /\ snap'.at = f /\ snap'.sess = new
        /\ snap'.orphans = snap.orphans /\ snap'.overtaken = snap.overtaken
    BY <1>1, <1>5, <2>1, SnapFacts DEF Snapshots, Refs!Pcs
  <2>5. /\ frame' \in [TabFrames -> FrameState] /\ frame'[f] = y
        /\ \A g \in TabFrames \ {f} : frame'[g] = frame[g]
    BY <2>2, <2>3, SnapFacts
  <2>6. queue \o <<>> = queue /\ <<>> \in Seq(RefEvents) /\ DOMAIN <<>> = {}
        /\ queue \in Seq(RefEvents)
    <3>1. queue \in Seq(RefEvents) BY SnapFacts
    <3> QED BY <3>1
  <2>7. FrameInv(queue, x, table[f], orphan[f], f) BY DEF RefInv, FramesOk
  <2>8. FrameInv(queue, y, table[f], orphan[f], f)
    <3>1. y.live \subseteq 1..y.drawn
      <4>1. x.live \subseteq 1..x.drawn BY <2>7 DEF FrameInv
      <4>2. 1..x.drawn \subseteq 1..new /\ new \in 1..new BY <1>2, <2>1 DEF new
      <4> QED BY <2>3, <4>1, <4>2
    <3>2. table[f] \in Entries /\ orphan[f] \in Refs!Sess \cup {None} BY SnapFacts
    <3>3. \A i \in DOMAIN <<>> : <<>>[i].kind = "session" /\ <<>>[i].frame = f =>
             <<>>[i].sess <= y.drawn /\ <<>>[i].sess \in y.live
      BY <2>6
    <3>4. FrameInv(queue \o <<>>, y, table[f], orphan[f], f)
      BY <1>2, <1>5, <2>1, <2>3, <2>6, <2>7, <3>1, <3>2, <3>3, AccountedAhead
    <3> QED BY <2>6, <3>4
  <2>9. FramesOk' BY <1>1, <2>5, <2>8 DEF RefInv, FramesOk, Refs!Attach
  <2>10. ASSUME NEW r \in TabRefs, Kept(r) PROVE Kept(r)'
    <3>1. CASE r.in # f \/ r.in = None
      <4>1. r.in # None => r.in \in TabFrames \ {f} BY <3>1 DEF TabRefs
      <4> QED BY <1>1, <2>5, <2>10, <4>1 DEF Kept, Refs!Attach
    <3>2. CASE r.in = f /\ r.in # None
      <4>1. FrameKept(queue, x, table[f].sess, orphan[f], f, r.doc) BY <2>10, <3>2 DEF Kept
      <4>2. FrameKept(queue, y, table[f].sess, orphan[f], f, r.doc)
        BY <2>3, <4>1 DEF FrameKept
      <4> QED BY <1>1, <2>5, <3>2, <4>2 DEF Kept, Refs!Attach
    <3> QED BY <3>1, <3>2
  <2>11. orphan' = orphan BY DEF Refs!Attach
  <2>12. RefTypes' BY <1>1, <2>4, <2>5, <2>11 DEF RefInv, RefTypes
  <2>13. StoreOk' BY <1>1, <2>10, SnapFacts DEF RefInv, StoreOk
  <2>14. AskingOk' BY <1>1, <1>3, <2>4 DEF AskingOk
  <2>15. SnapOk'
    <3>1. snap.refs \subseteq TabRefs BY SnapFacts DEF Snapshots
    <3>2. \A g \in TabFrames : Drawn(frame'[g], snap.orphans[g])
      <4> SUFFICES ASSUME NEW g \in TabFrames PROVE Drawn(frame'[g], snap.orphans[g]) OBVIOUS
      <4>1. Drawn(frame[g], snap.orphans[g]) BY SnapFacts
      <4>2. snap.orphans[g] \in Refs!Sess \cup {None} BY SnapFacts DEF Snapshots
      <4>3. \A s \in Refs!Sess : s \in Nat BY DEF Refs!Sess
      <4>4. CASE g = f
        <5>1. snap.orphans[f] # None => snap.orphans[f] <= new
          <6> SUFFICES ASSUME NEW s \in Refs!Sess, s = snap.orphans[f] PROVE s <= new BY <4>2, <4>4
          <6>1. s <= x.drawn BY <4>1, <4>4 DEF Drawn, RefsAssumption
          <6> HIDE DEF x
          <6> QED BY <1>2, <2>1, <4>3, <6>1
        <5> QED BY <2>3, <2>5, <4>4, <5>1 DEF Drawn
      <4> QED BY <2>5, <4>1, <4>4
    <3>3. f # None /\ Drawn(frame'[f], new)
      <4>1. new <= new BY <2>1 DEF Refs!Sess
      <4> QED BY <2>3, <2>5, <4>1 DEF Drawn, RefsAssumption
    <3> QED BY <1>1, <2>4, <2>10, <3>1, <3>2, <3>3, SnapFacts DEF SnapOk
  <2> QED BY <2>9, <2>12, <2>13, <2>14, <2>15 DEF RefInv
<1> QED BY <1>4, <1>5 DEF Refs!Attach

LEMMA RegisterKeeps ==
    ASSUME RefsAssumption, RefInv, NEW f \in TabFrames, Refs!Register(f) PROVE RefInv'
<1> DEFINE sess == IF snap.sess # None THEN snap.sess ELSE table[f].sess
           entry == [table[f] EXCEPT !.known = TRUE, !.owner = TRUE, !.sess = sess]
<1>1. /\ UNCHANGED <<doc, frame, queue, orphan, store, overtaken>>
      /\ snap.pc = "register" /\ snap.at = f
      /\ table' = [table EXCEPT ![f].known = TRUE, ![f].owner = TRUE,
                                ![f].sess = IF snap.sess # None THEN snap.sess ELSE @]
      /\ snap' = [snap EXCEPT !.pc = "owner", !.at = None, !.sess = None]
  BY DEF Refs!Register, Refs!OnlySnap
<1>2. table \in [TabFrames -> Entries] /\ snap.sess \in Refs!Sess \cup {None}
  BY SnapFacts DEF Snapshots
<1>3. table' = [table EXCEPT ![f] = entry] BY <1>1, <1>2
<1>4. entry \in Entries /\ entry.sess = sess /\ entry.known
  <2>1. sess \in Refs!Sess \cup {None} /\ table[f] \in Entries BY <1>2 DEF Entries
  <2> HIDE DEF sess
  <2> QED BY <2>1 DEF Entries
<1> HIDE DEF entry
<1>5. /\ table' \in [TabFrames -> Entries] /\ table'[f] = entry
      /\ \A g \in TabFrames \ {f} : table'[g] = table[g]
  BY <1>2, <1>3, <1>4
<1>6. /\ snap' \in Snapshots /\ snap'.pc = "owner" /\ snap'.refs = snap.refs
      /\ snap'.orphans = snap.orphans /\ snap'.overtaken = snap.overtaken
  BY <1>1, SnapFacts DEF Snapshots, Refs!Pcs
<1>7. FrameInv(queue, frame[f], table[f], orphan[f], f) BY DEF RefInv, FramesOk
<1>8. FrameInv(queue, frame[f], entry, orphan[f], f)
  <2>1. Drawn(frame[f], sess) BY <1>1, <1>7, SnapFacts DEF FrameInv
  <2> QED BY <1>4, <1>7, <2>1 DEF FrameInv
<1>9. FramesOk' BY <1>1, <1>5, <1>8 DEF RefInv, FramesOk
<1>10. ASSUME NEW r \in TabRefs, r.in # f \/ snap.sess = None, Kept(r) PROVE Kept(r)'
  <2>1. CASE r.in = None BY <1>1, <1>10, <2>1 DEF Kept
  <2>2. CASE r.in # None
    <3>1. r.in \in TabFrames BY <2>2 DEF TabRefs
    <3>2. table'[r.in].sess = table[r.in].sess BY <1>4, <1>5, <1>10, <3>1
    <3> QED BY <1>1, <1>10, <2>2, <3>2 DEF Kept
  <2> QED BY <2>1, <2>2
<1>11. RefTypes' BY <1>1, <1>5, <1>6 DEF RefInv, RefTypes
<1>12. StoreOk'
  <2>1. snap.sess # None /\ ~overtaken /\ store # None =>
           \A r \in store.refs : r.in = f => r.stale
    BY <1>1 DEF RefInv, AskingOk
  <2> QED BY <1>1, <1>10, <2>1, SnapFacts DEF RefInv, StoreOk
<1>13. AskingOk' BY <1>6 DEF AskingOk
<1>14. SnapOk'
  <2>1. snap.refs \subseteq TabRefs /\ \A r \in snap.refs : r.in = None
    BY <1>1, SnapFacts DEF Snapshots
  <2>2. f # None BY DEF RefsAssumption
  <2>3. ~snap.overtaken => \A r \in snap.refs : Kept(r)' BY <1>10, <2>1, <2>2, SnapFacts
  <2> QED BY <1>1, <1>6, <2>1, <2>3, SnapFacts DEF SnapOk
<1> QED BY <1>9, <1>11, <1>12, <1>13, <1>14 DEF RefInv

LEMMA ReplaceKeeps == ASSUME RefsAssumption, RefInv, Refs!Replace PROVE RefInv'
<1>1. /\ UNCHANGED <<doc, frame, queue, table, orphan>>
      /\ store' = [refs |-> snap.refs, stale |-> FALSE]
      /\ overtaken' = snap.overtaken /\ snap' = Refs!Idle
  BY DEF Refs!Replace, Refs!Replaced
<1>2. snap.refs \in SUBSET TabRefs /\ snap.overtaken \in BOOLEAN BY SnapFacts DEF Snapshots
<1>3. /\ snap' \in Snapshots /\ snap'.pc = "idle" /\ snap'.refs = {}
      /\ \A f \in TabFrames : snap'.orphans[f] = None
  BY <1>1 DEF Refs!Idle, Snapshots, Refs!Pcs
<1>4. /\ store' \in [refs : SUBSET TabRefs, stale : BOOLEAN] /\ store'.refs = snap.refs
  BY <1>1, <1>2
<1>5. FramesOk' /\ \A r \in TabRefs : Kept(r)' <=> Kept(r)
  BY <1>1, SnapFacts, TabStays
<1>6. RefTypes' BY <1>1, <1>2, <1>3, <1>4 DEF RefInv, RefTypes
<1>7. StoreOk' BY <1>1, <1>2, <1>4, <1>5, SnapFacts DEF StoreOk
<1>8. AskingOk' BY <1>3 DEF AskingOk
<1>9. SnapOk' BY <1>3 DEF SnapOk, Drawn
<1> QED BY <1>5, <1>6, <1>7, <1>8, <1>9 DEF RefInv

LEMMA InitRefs == ASSUME RefsAssumption, Refs!Init PROVE RefInv
<1>1. PICK seen \in SUBSET Early :
         frame = [f \in TabFrames |->
                     [Refs!NoFrame EXCEPT !.life = IF f \in seen THEN "there" ELSE "new"]]
  BY DEF Refs!Init
<1>2. /\ frame \in [TabFrames -> FrameState]
      /\ \A f \in TabFrames : frame[f].live = {}
  BY <1>1 DEF Refs!NoFrame, FrameState, RefsAssumption
<1>3. /\ queue = <<>> /\ queue \in Seq(RefEvents) /\ DOMAIN queue = {}
      /\ table \in [TabFrames -> Entries] /\ orphan \in [TabFrames -> Refs!Sess \cup {None}]
      /\ \A f \in TabFrames : table[f].sess = None /\ orphan[f] = None
  BY DEF Refs!Init, Refs!Unknown, Entries
<1>4. snap \in Snapshots /\ snap.pc = "idle" /\ snap.refs = {}
      /\ \A f \in TabFrames : snap.orphans[f] = None
  BY DEF Refs!Init, Refs!Idle, Snapshots, Refs!Pcs
<1>5. RefTypes BY <1>2, <1>3, <1>4 DEF Refs!Init, RefTypes
<1>6. FramesOk BY <1>2, <1>3 DEF FramesOk, FrameInv, Drawn
<1>7. StoreOk /\ AskingOk BY <1>4 DEF Refs!Init, StoreOk, AskingOk
<1>8. SnapOk BY <1>4 DEF SnapOk, Drawn
<1> QED BY <1>5, <1>6, <1>7, <1>8 DEF RefInv

LEMMA StepKeepsRefs ==
    ASSUME RefsAssumption, RefInv, [Refs!Next]_(Refs!vars) PROVE RefInv'
<1>1. CASE UNCHANGED Refs!vars
  <2>1. UNCHANGED <<doc, frame, queue, table, orphan, store, snap, overtaken>> BY <1>1 DEF Refs!vars
  <2> QED BY <2>1 DEF RefInv, RefTypes, FramesOk, StoreOk, AskingOk, SnapOk, Kept
<1>2. CASE Refs!NewDocument BY <1>2, NewDocumentKeeps
<1>3. ASSUME NEW f \in TabFrames,
             Refs!FrameComes(f) \/ Refs!FrameNavigates(f) \/ Refs!FrameGoes(f)
      PROVE  RefInv'
  BY <1>3, FrameComesKeeps, FrameNavigatesKeeps, FrameGoesKeeps
<1>4. CASE Refs!Handle BY <1>4, HandleKeeps
<1>5. CASE \/ Refs!Snap \/ Refs!ReadPage \/ Refs!AskTargets \/ Refs!AllAsked
           \/ Refs!Collect \/ Refs!ReadAll \/ Refs!Replace
  BY <1>5, SnapBegins, ReadPageKeeps, AskTargetsKeeps, AllAskedKeeps, CollectKeeps, ReadAllKeeps,
     ReplaceKeeps
<1>6. ASSUME NEW f \in TabFrames,
             Refs!AskOwner(f) \/ Refs!Attach(f) \/ Refs!Register(f) \/ Refs!ReadFrame(f)
      PROVE  RefInv'
  BY <1>6, AskOwnerKeeps, AttachKeeps, RegisterKeeps, ReadFrameKeeps
<1> QED BY <1>1, <1>2, <1>3, <1>4, <1>5, <1>6 DEF Refs!Next

LEMMA RefInvImplies == ASSUME RefsAssumption, RefInv PROVE Refs!RefsDescribeThePage
<1> SUFFICES ASSUME store # None, ~overtaken, NEW r \in store.refs, ~r.stale
             PROVE  Refs!Current(r) \/ Refs!Announced(r)
  BY DEF Refs!RefsDescribeThePage
<1>1. Kept(r) /\ r \in TabRefs BY SnapFacts DEF RefInv, StoreOk
<1>2. CASE r.in = None BY <1>1, <1>2 DEF Kept, PageLeft, Refs!Current, Refs!Announced
<1>3. CASE r.in # None
  <2> DEFINE f == r.in
  <2>1. f \in TabFrames BY <1>1, <1>3 DEF TabRefs
  <2>2. FrameKept(queue, frame[f], table[f].sess, orphan[f], f, r.doc) BY <1>1, <1>3 DEF Kept
  <2>3. CASE FrameLeft(queue, f) BY <2>3 DEF FrameLeft, PageLeft, Refs!Announced
  <2>4. CASE frame[f].life = "there" /\ r.doc = frame[f].doc BY <1>3, <2>4 DEF Refs!Current
  <2>5. CASE UpdateTold(queue, table[f].sess, orphan[f], f)
    <3>1. table[f].sess \in Refs!Sess /\ MayBe(queue, table[f].sess, orphan[f], f, table[f].sess)
      BY <2>1, <2>2, SnapFacts DEF Entries, FrameKept, MayBe
    <3>2. PICK i \in DOMAIN queue : queue[i].frame = f /\ queue[i].kind = "updated"
      BY <2>5, <3>1 DEF UpdateTold, UpdateAt
    <3> QED BY <3>2 DEF Refs!Announced
  <2> QED BY <2>2, <2>3, <2>4, <2>5 DEF FrameKept
<1> QED BY <1>2, <1>3

-----------------------------------------------------------------------------
\* Where the tools aim.  Sessions are never used again, so a frame whose session the
\* table has is held by one whose session it has too, or that lives with the page.
Calling ==
    [pc : Aim!Pcs, tool : Aim!Tools, ref : BOOLEAN, doc : Aim!Documents,
     old : {None} \cup Aim!Sessions, frame : {None} \cup Aim!Frames,
     sess : {None} \cup Aim!Sessions, at : Nat, up : {None} \cup Aim!Frames,
     hit : {None} \cup Aim!Documents, calm : BOOLEAN, ok : BOOLEAN]
AimTypes ==
    /\ moves \in 0..MaxMoves
    /\ there \in [Aim!Frames -> {None, Aim!Local} \cup 1..(moves + 1)]
    /\ aimTable \in [Aim!Frames -> [known : BOOLEAN, sess : {None} \cup 1..(moves + 1),
                                   held : BOOLEAN]]
    /\ box \in [Aim!Frames -> Aim!Boxes]

TableFollows ==
    /\ \A f \in Aim!Frames : aimTable[f].sess # None => aimTable[f].known
    /\ \A f \in Aim!Frames :
          there[f] = None => moves >= 1 /\ aimTable[f].sess \in {None} \cup 1..moves
    /\ \A f \in Aim!Frames : there[f] = 1 => aimTable[f].sess = 1
    /\ there["inner"] # None => there["outer"] # None
    /\ there["inner"] # Aim!Local
    /\ there["inner"] # None /\ aimTable["inner"].sess = there["inner"] =>
          \/ there["outer"] = Aim!Local
          \/ /\ aimTable["inner"].held /\ aimTable["outer"].known
             /\ aimTable["outer"].sess = there["outer"]

\* The session commands go to is that of the node, or the page's.
Aimed ==
    aim.pc = "point" \/ (aim.pc = "act" /\ aim.tool # "click") =>
        IF aim.frame = None THEN aim.tool = "shot" \/ aim.doc = Aim!Main ELSE aim.frame = aim.doc
Asked ==
    /\ aim.pc \in {"owner", "quad", "check"} => aim.tool = "click" /\ aim.up \in Aim!Frames
    /\ aim.pc = "select" => aim.doc = Aim!Main /\ aim.frame = None
    /\ aim.pc = "entry" => aim.frame = None
    /\ aim.pc = "entry" /\ aim.calm /\ aim.doc # Aim!Main =>
          aim.old \in {None, 1, aimTable[aim.doc].sess}
    /\ aim.pc = "point" /\ aim.frame # None =>
          /\ aim.sess # None
          /\ aim.calm => aim.sess \in {1, aimTable[aim.frame].sess}

\* A click on its way through the boxes, in a page that stands still.
Climbing ==
    aim.calm /\ aim.pc \in {"owner", "quad", "check"} =>
        /\ aim.up = aim.doc \/ (aim.doc = "inner" /\ aim.up = "outer")
        /\ aim.up = aim.doc => there[aim.up] # None /\ aimTable[aim.up].sess = there[aim.up]
        /\ aim.pc \in {"owner", "quad"} =>
              IF aim.up = aim.doc THEN aim.at = 0
              ELSE \/ Aim!CountedTwice
                   \/ there["outer"] # Aim!Local /\ aim.at = Aim!Projected("inner", 0)
        /\ aim.pc = "check" =>
              IF aim.up = aim.doc THEN aim.at = Aim!Projected(aim.doc, 0)
              ELSE Aim!CountedTwice \/ aim.at = Aim!InPage("inner")
Arrived ==
    aim.calm /\ aim.pc = "act" /\ aim.tool = "click" =>
        aim.at = Aim!InPage(aim.doc) \/ (aim.doc = "inner" /\ Aim!CountedTwice)

CallInv ==
    /\ aim \in Calling /\ Aimed /\ Asked /\ Climbing /\ Arrived
    /\ aim.pc # "idle" => ~aim.ok
    /\ Aim!AimIsTrue

AimInv == AimTypes /\ TableFollows /\ CallInv

AimAssumption ==
    None \notin 0..(MaxMoves + 1) /\ MaxMoves \in Nat /\ None \notin {"outer", "inner"}

LEMMA IdleAim == Aim!Idle \in Calling
  BY DEF Aim!Idle, Calling, Aim!Pcs, Aim!Tools, Aim!Documents, Aim!Main

LEMMA InitAim == AimAssumption /\ Aim!Init => AimInv
<1> SUFFICES ASSUME AimAssumption, Aim!Init PROVE AimInv OBVIOUS
<1>1. AimTypes /\ TableFollows
  <2>1. PICK s \in {1, Aim!Local} : there = [outer |-> s, inner |-> 1]
    BY DEF Aim!Init
  <2>2. there["outer"] = s /\ there["inner"] = 1 /\ DOMAIN there = Aim!Frames
    BY <2>1 DEF Aim!Frames
  <2>3. PICK h \in Aim!Held("inner") :
           aimTable = [outer |-> [known |-> TRUE, sess |-> Aim!OwnSession("outer"), held |-> TRUE],
                       inner |-> [known |-> TRUE, sess |-> 1, held |-> h]]
    BY DEF Aim!Init
  <2>4. h \in BOOLEAN /\ (s # Aim!Local => h) BY <2>2 DEF Aim!Held
  <2>5. /\ aimTable["inner"] = [known |-> TRUE, sess |-> 1, held |-> h]
        /\ aimTable["outer"] = [known |-> TRUE, sess |-> IF s = Aim!Local THEN None ELSE s,
                                held |-> TRUE]
        /\ DOMAIN aimTable = Aim!Frames
    BY <2>2, <2>3 DEF Aim!OwnSession, Aim!Frames
  <2>6. moves = 0 /\ box \in [Aim!Frames -> Aim!Boxes] BY DEF Aim!Init, Aim!Boxes
  <2>7. there \in [Aim!Frames -> {None, Aim!Local} \cup 1..(moves + 1)]
    BY <2>1, <2>2, <2>6 DEF Aim!Frames
  <2>8. aimTable \in [Aim!Frames -> [known : BOOLEAN, sess : {None} \cup 1..(moves + 1),
                                    held : BOOLEAN]]
    <3>1. \A f \in Aim!Frames :
             aimTable[f] \in [known : BOOLEAN, sess : {None} \cup 1..(moves + 1), held : BOOLEAN]
      <4> DEFINE Entry == [known : BOOLEAN, sess : {None} \cup 1..(moves + 1), held : BOOLEAN]
      <4>1. 1 \in 1..(moves + 1) BY <2>6
      <4>2. aimTable["inner"] \in Entry BY <2>4, <2>5, <4>1
      <4>3. s # Aim!Local => s = 1 BY <2>1
      <4>4. aimTable["outer"] \in Entry BY <2>5, <4>1, <4>3
      <4> QED BY <4>2, <4>4 DEF Aim!Frames
    <3> QED BY <2>3, <2>5, <3>1 DEF Aim!Frames
  <2>9. AimTypes BY <2>6, <2>7, <2>8 DEF AimAssumption, AimTypes
  <2> QED BY <2>2, <2>4, <2>5, <2>9 DEF AimAssumption, TableFollows, Aim!Frames, Aim!Local
<1>2. aim = Aim!Idle BY DEF Aim!Init
<1>3. aim \in Calling BY <1>2, IdleAim
<1>4. aim.pc = "idle" /\ ~aim.ok BY <1>2 DEF Aim!Idle
<1> QED BY <1>1, <1>3, <1>4 DEF AimInv, CallInv, Aimed, Asked, Climbing, Arrived, Aim!AimIsTrue

\* A call that fails or is cut leaves nothing behind.
LEMMA AimFails == ASSUME aim' = Aim!Idle PROVE CallInv'
<1>1. aim'.pc = "idle" /\ ~aim'.ok BY DEF Aim!Idle
<1> QED BY <1>1, IdleAim DEF CallInv, Aimed, Asked, Climbing, Arrived, Aim!AimIsTrue

\* Whatever the page does, a call under way is not judged any more by what it meets.
LEMMA AimDisturbed == ASSUME CallInv, Aim!Disturbed PROVE CallInv'
<1>1. CASE aim.pc = "idle" BY <1>1, AimFails DEF Aim!Disturbed
<1>2. CASE aim.pc # "idle"
  <2>1. aim' = [aim EXCEPT !.calm = FALSE] BY <1>2 DEF Aim!Disturbed
  <2>2. aim' \in Calling /\ ~aim'.calm BY <2>1 DEF CallInv, Calling
  <2>3. /\ aim'.pc = aim.pc /\ aim'.tool = aim.tool /\ aim'.doc = aim.doc /\ aim'.frame = aim.frame
        /\ aim'.sess = aim.sess /\ aim'.up = aim.up /\ aim'.ok = aim.ok
    BY <2>1 DEF CallInv, Calling
  <2> QED
    BY <2>2, <2>3 DEF CallInv, Aimed, Asked, Climbing, Arrived, Aim!AimIsTrue
<1> QED BY <1>1, <1>2

LEMMA PageKeepsAim ==
    ASSUME AimAssumption, AimInv, NEW f \in Aim!Frames,
           Aim!FrameGoes(f) \/ Aim!FrameReturns(f) \/ Aim!BoxMoves(f) \/ Aim!Noticed(f)
    PROVE  AimInv'
<1>1. Aim!Disturbed
  BY DEF Aim!FrameGoes, Aim!FrameReturns, Aim!BoxMoves, Aim!Noticed
<1>2. CallInv' BY <1>1, AimDisturbed DEF AimInv
<1>3. CASE Aim!FrameGoes(f)
  <2>1. /\ there' = [g \in Aim!Frames |-> IF g = f \/ f = "outer" THEN None ELSE there[g]]
        /\ moves < MaxMoves /\ moves' = moves + 1 /\ UNCHANGED <<box, aimTable>>
    BY <1>3 DEF Aim!FrameGoes
  <2>2. /\ \A g \in Aim!Frames : there'[g] = IF g = f \/ f = "outer" THEN None ELSE there[g]
        /\ \A g \in Aim!Frames : there'[g] \in {None, there[g]}
    BY <2>1
  <2>3. moves \in Nat /\ moves' \in 0..MaxMoves /\ moves' >= 1
    BY <2>1 DEF AimAssumption, AimInv, AimTypes
  <2>4. AimTypes' BY <2>1, <2>2, <2>3 DEF AimInv, AimTypes
  <2>5. None # 1 /\ None # Aim!Local BY <2>3 DEF AimAssumption, Aim!Local
  <2>6. \A g \in Aim!Frames : aimTable[g].sess \in {None} \cup 1..moves'
    BY <2>1 DEF AimInv, AimTypes
  <2>7. TableFollows'
    BY <2>1, <2>2, <2>3, <2>5, <2>6 DEF AimInv, TableFollows, Aim!Frames
  <2> QED BY <1>2, <2>4, <2>7 DEF AimInv
<1>4. CASE Aim!FrameReturns(f)
  <2>1. PICK s \in IF f = "outer" THEN {moves + 1, Aim!Local} ELSE {moves + 1} :
           there' = [there EXCEPT ![f] = s]
    BY <1>4 DEF Aim!FrameReturns
  <2>2. /\ there[f] = None /\ UNCHANGED <<box, aimTable, moves>>
        /\ f = "inner" => there["outer"] # None
    BY <1>4 DEF Aim!FrameReturns, Aim!Holder, Aim!Main
  <2>3. moves >= 1 /\ aimTable[f].sess \in {None} \cup 1..moves
    BY <2>2 DEF AimInv, TableFollows
  <2>4. AimTypes' BY <2>1, <2>2 DEF AimInv, AimTypes
  <2>5. /\ there'[f] = s /\ \A g \in Aim!Frames : g # f => there'[g] = there[g]
        /\ s # None /\ s # 1 /\ s # aimTable[f].sess /\ (f = "inner" => s # Aim!Local)
    BY <2>1, <2>3 DEF AimAssumption, AimInv, AimTypes, Aim!Local
  <2>6. TableFollows' BY <2>2, <2>5 DEF AimInv, TableFollows, Aim!Frames
  <2> QED BY <1>2, <2>4, <2>6 DEF AimInv
<1>5. CASE Aim!BoxMoves(f)
  BY <1>5, <1>2 DEF AimAssumption, AimInv, AimTypes, TableFollows, Aim!BoxMoves, Aim!Frames
<1>6. CASE Aim!Noticed(f)
  <2> DEFINE Own == IF there[f] = Aim!Local THEN None ELSE there[f]
  <2>1. UNCHANGED <<there, box, moves>> BY <1>6 DEF Aim!Noticed
  <2>2. PICK e \in [known : BOOLEAN, sess : {None} \cup 1..(moves + 1), held : BOOLEAN] :
           /\ aimTable' = [aimTable EXCEPT ![f] = e]
           /\ e.sess # None => e.known
           /\ there[f] = None => e.sess = None
           /\ there[f] # None /\ aimTable[f].known /\ aimTable[f].sess = Own => e = aimTable[f]
           /\ there[f] # None /\ e # aimTable[f] =>
                 e.known /\ e.sess \in {None, Own} /\ e.held \in Aim!Held(f)
    <3>1. CASE there[f] = None
      <4>1. aimTable' = [aimTable EXCEPT ![f] = [aimTable[f] EXCEPT !.known = FALSE, !.sess = None]]
        BY <1>6, <3>1 DEF Aim!Noticed
      <4> QED BY <3>1, <4>1 DEF AimInv, AimTypes
    <3>2. CASE there[f] # None
      <4>1. PICK e \in Aim!Entries(f) : aimTable' = [aimTable EXCEPT ![f] = e]
        BY <1>6, <3>2 DEF Aim!Noticed
      <4>2. Aim!OwnSession(f) = Own /\ Own \in {None} \cup 1..(moves + 1)
        BY <3>2 DEF Aim!OwnSession, AimInv, AimTypes
      <4>3. aimTable[f] \in [known : BOOLEAN, sess : {None} \cup 1..(moves + 1), held : BOOLEAN]
            /\ (aimTable[f].sess # None => aimTable[f].known)
        BY DEF AimInv, AimTypes, TableFollows
      <4>4. Aim!Held(f) \subseteq BOOLEAN BY DEF Aim!Held
      <4> QED BY <3>2, <4>1, <4>2, <4>3, <4>4 DEF Aim!Entries
    <3> QED BY <3>1, <3>2
  <2>3. AimTypes' BY <2>1, <2>2 DEF AimInv, AimTypes
  <2>4. aimTable'[f] = e /\ \A g \in Aim!Frames : g # f => aimTable'[g] = aimTable[g]
    BY <2>2 DEF AimInv, AimTypes
  <2>5. f = "inner" /\ there["inner"] # None /\ there["outer"] # Aim!Local =>
           aimTable["outer"].known /\ aimTable["outer"].sess = there["outer"]
    BY <1>6 DEF Aim!Noticed
  <2>6. \A g \in Aim!Frames : aimTable'[g].sess # None => aimTable'[g].known
    BY <2>2, <2>4 DEF AimInv, TableFollows
  <2>7. \A g \in Aim!Frames :
           there[g] = None => moves >= 1 /\ aimTable'[g].sess \in {None} \cup 1..moves
    BY <2>2, <2>4 DEF AimInv, TableFollows
  <2>8. \A g \in Aim!Frames : there[g] = 1 => aimTable'[g].sess = 1
    <3>1. there[f] = 1 => aimTable[f].sess = 1 /\ aimTable[f].known /\ Own = 1
      BY DEF AimInv, TableFollows, AimAssumption, Aim!Local
    <3>2. there[f] = 1 => e.sess = 1 BY <2>2, <3>1 DEF AimAssumption
    <3> QED BY <2>4, <3>2 DEF AimInv, TableFollows
  <2>9. there["inner"] # None /\ aimTable'["inner"].sess = there["inner"] =>
           \/ there["outer"] = Aim!Local
           \/ /\ aimTable'["inner"].held /\ aimTable'["outer"].known
              /\ aimTable'["outer"].sess = there["outer"]
    <3> SUFFICES ASSUME there["inner"] # None, aimTable'["inner"].sess = there["inner"],
                        there["outer"] # Aim!Local
                 PROVE  /\ aimTable'["inner"].held /\ aimTable'["outer"].known
                        /\ aimTable'["outer"].sess = there["outer"]
      OBVIOUS
    <3>1. CASE f = "inner"
      <4>1. aimTable'["outer"] = aimTable["outer"] BY <2>4, <3>1 DEF Aim!Frames
      <4>2. e # aimTable["inner"] => e.held BY <2>2, <3>1 DEF Aim!Held
      <4>3. e = aimTable["inner"] => e.held BY <2>4, <3>1 DEF AimInv, TableFollows
      <4> QED BY <2>4, <2>5, <3>1, <4>1, <4>2, <4>3
    <3>2. CASE f = "outer"
      <4>1. aimTable'["inner"] = aimTable["inner"] BY <2>4, <3>2 DEF Aim!Frames
      <4>2. aimTable["inner"].held /\ aimTable["outer"].known
            /\ aimTable["outer"].sess = there["outer"] /\ there["outer"] # None
        BY <4>1 DEF AimInv, TableFollows
      <4> QED BY <2>2, <2>4, <3>2, <4>1, <4>2
    <3> QED BY <3>1, <3>2 DEF Aim!Frames
  <2>10. TableFollows' BY <2>1, <2>6, <2>7, <2>8, <2>9 DEF AimInv, TableFollows
  <2> QED BY <1>2, <2>3, <2>10 DEF AimInv
<1> QED BY <1>3, <1>4, <1>5, <1>6

\* A step of a tool is one of its call alone.
LEMMA OnlyTheCall ==
    ASSUME AimInv, Aim!OnlyAim, CallInv'
    PROVE  AimInv'
  BY DEF AimInv, AimTypes, TableFollows, Aim!OnlyAim

LEMMA ToolBegins ==
    ASSUME AimAssumption, AimInv, NEW tool \in Aim!Tools, NEW ref \in BOOLEAN,
           NEW d \in Aim!Documents, Aim!Begin(tool, ref, d)
    PROVE  AimInv'
<1>1. PICK old \in (IF d = Aim!Main THEN {None} ELSE {None, 1, aimTable[d].sess}) :
         aim' = [Aim!Idle EXCEPT !.pc = IF ref THEN "entry" ELSE "select", !.tool = tool,
                                 !.ref = ref, !.doc = d, !.old = old]
  BY DEF Aim!Begin
<1>2. old \in {None} \cup Aim!Sessions
  BY <1>1 DEF AimAssumption, AimInv, AimTypes, Aim!Sessions, Aim!Documents, Aim!Main, Aim!Frames
<1>3. aim' \in Calling BY <1>1, <1>2, IdleAim DEF Calling, Aim!Pcs
<1>4. /\ aim'.pc \in {"entry", "select"} /\ aim'.frame = None /\ ~aim'.ok
      /\ aim'.pc = "select" => aim'.doc = Aim!Main
      /\ aim'.doc # Aim!Main => aim'.old \in {None, 1, aimTable'[aim'.doc].sess}
  BY <1>1 DEF Aim!Idle, Aim!Begin, Aim!OnlyAim
<1> QED BY <1>3, <1>4, OnlyTheCall
  DEF Aim!Begin, CallInv, Aimed, Asked, Climbing, Arrived, Aim!AimIsTrue

LEMMA ToolEnters == ASSUME AimAssumption, AimInv, Aim!Entry PROVE AimInv'
<1>1. CASE aim' = Aim!Idle BY <1>1, AimFails, OnlyTheCall DEF Aim!Entry
<1>2. CASE Aim!SessionFor = None /\ aim' = [aim EXCEPT !.pc = "point", !.frame = None]
  <2>1. aim' \in Calling BY <1>2 DEF AimInv, CallInv, Calling, Aim!Pcs
  <2>2. /\ aim'.pc = "point" /\ aim'.frame = None /\ aim'.tool = aim.tool /\ aim'.doc = aim.doc
        /\ ~aim'.ok
    BY <1>2 DEF AimInv, CallInv, Calling, Aim!Entry
  <2>3. aim.tool = "shot" \/ aim.doc = Aim!Main
    BY <1>2 DEF Aim!SessionFor, AimInv, CallInv, Calling, Aim!Documents, AimAssumption, Aim!Frames
  <2> QED BY <2>1, <2>2, <2>3, OnlyTheCall
    DEF Aim!Entry, CallInv, Aimed, Asked, Climbing, Arrived, Aim!AimIsTrue
<1>3. CASE /\ Aim!SessionFor # None /\ Aim!LiveSession(Aim!SessionFor) # None
           /\ aim' = [aim EXCEPT !.pc = "point", !.frame = Aim!SessionFor,
                                 !.sess = Aim!LiveSession(Aim!SessionFor)]
  <2> DEFINE f == aim.doc
             s == Aim!LiveSession(f)
  <2>1. Aim!SessionFor = f /\ f \in Aim!Frames
    BY <1>3 DEF Aim!SessionFor, AimInv, CallInv, Calling, Aim!Documents, Aim!Main
  <2>2. s \in Aim!Sessions /\ s # None
    BY <1>3, <2>1
    DEF Aim!LiveSession, AimInv, AimTypes, CallInv, Calling, Aim!Sessions, AimAssumption
  <2>3. aim.calm => s \in {1, aimTable[f].sess}
    BY <1>3, <2>1, <2>2
    DEF Aim!LiveSession, AimInv, CallInv, Asked, Aim!Entry, Aim!Main, Aim!Frames
  <2>4. aim' = [aim EXCEPT !.pc = "point", !.frame = f, !.sess = s] BY <1>3, <2>1
  <2>5. aim' \in Calling BY <2>1, <2>2, <2>4 DEF AimInv, CallInv, Calling, Aim!Pcs
  <2>6. /\ aim'.pc = "point" /\ aim'.frame = f /\ aim'.sess = s /\ aim'.doc = f /\ ~aim'.ok
        /\ aim'.calm = aim.calm /\ UNCHANGED aimTable
    BY <2>4 DEF AimInv, CallInv, Calling, Aim!Entry, Aim!OnlyAim
  <2> QED BY <2>1, <2>2, <2>3, <2>5, <2>6, OnlyTheCall
    DEF Aim!Entry, CallInv, Aimed, Asked, Climbing, Arrived, Aim!AimIsTrue, AimAssumption,
      Aim!Frames
<1> QED BY <1>1, <1>2, <1>3 DEF Aim!Entry, Aim!Fail

LEMMA ToolSelects == ASSUME AimInv, Aim!Select PROVE AimInv'
<1>1. CASE aim' = Aim!Idle BY <1>1, AimFails, OnlyTheCall DEF Aim!Select
<1>2. CASE Aim!Goto("point")
  <2>1. aim' = [aim EXCEPT !.pc = "point"] BY <1>2 DEF Aim!Goto
  <2>2. aim' \in Calling BY <2>1 DEF AimInv, CallInv, Calling, Aim!Pcs
  <2>3. aim'.pc = "point" /\ aim'.frame = None /\ aim'.doc = Aim!Main /\ ~aim'.ok
    BY <2>1 DEF AimInv, CallInv, Calling, Asked, Aim!Select
  <2> QED BY <2>2, <2>3, OnlyTheCall
    DEF Aim!Select, CallInv, Aimed, Asked, Climbing, Arrived, Aim!AimIsTrue
<1> QED BY <1>1, <1>2 DEF Aim!Select, Aim!Fail

LEMMA ToolPoints == ASSUME AimAssumption, AimInv, Aim!Point PROVE AimInv'
<1>1. CASE aim' = Aim!Idle BY <1>1, AimFails, OnlyTheCall DEF Aim!Point
<1>2. CASE /\ Aim!Reaches(aim.frame, aim.sess)
           /\ aim' = [aim EXCEPT !.at = 0, !.up = aim.frame,
                                 !.pc = IF aim.tool = "click" /\ aim.frame # None THEN "owner"
                                        ELSE "act"]
  <2>1. aim' \in Calling BY <1>2 DEF AimInv, CallInv, Calling, Aim!Pcs
  <2>2. /\ aim'.pc = IF aim.tool = "click" /\ aim.frame # None THEN "owner" ELSE "act"
        /\ aim'.at = 0 /\ aim'.up = aim.frame /\ aim'.tool = aim.tool /\ aim'.doc = aim.doc
        /\ aim'.frame = aim.frame /\ aim'.calm = aim.calm /\ ~aim'.ok
    BY <1>2 DEF AimInv, CallInv, Calling, Aim!Point
  <2>3. IF aim.frame = None THEN aim.tool = "shot" \/ aim.doc = Aim!Main ELSE aim.frame = aim.doc
    BY DEF AimInv, CallInv, Aimed, Aim!Point
  <2>4. aim.frame # None =>
          /\ aim.frame \in Aim!Frames /\ there[aim.frame] # None
          /\ aim.calm => aimTable[aim.frame].sess = there[aim.frame]
    BY <1>2 DEF AimInv, TableFollows, CallInv, Asked, Aim!Point, Aim!Reaches, Calling
  <2>5. UNCHANGED <<there, box, aimTable>> BY DEF Aim!Point, Aim!OnlyAim
  <2>6. Aim!InPage(Aim!Main)' = 0 BY DEF Aim!InPage, Aim!Main
  <2>7. Aimed' BY <2>2, <2>3 DEF Aimed
  <2>8. Asked' BY <2>2, <2>4 DEF Asked
  <2>9. Climbing' BY <2>2, <2>3, <2>4, <2>5 DEF Climbing
  <2>10. Arrived' BY <2>2, <2>3, <2>6 DEF Arrived
  <2> QED BY <2>1, <2>2, <2>7, <2>8, <2>9, <2>10, OnlyTheCall
    DEF Aim!Point, CallInv, Aim!AimIsTrue
<1> QED BY <1>1, <1>2 DEF Aim!Point, Aim!Fail

\* One step up: the element that owns the frame.
LEMMA ToolFindsOwner == ASSUME AimAssumption, AimInv, Aim!Owner PROVE AimInv'
<1>1. CASE aim' = Aim!Idle BY <1>1, AimFails, OnlyTheCall DEF Aim!Owner
<1>2. CASE /\ aimTable[aim.up].known /\ there[aim.up] # None
           /\ aim' = [aim EXCEPT !.pc = "quad", !.frame = Aim!ParentFrame(aim.up),
                                 !.sess = Aim!ParentSession(aim.up)]
  <2>1. Aim!ParentFrame(aim.up) \in {None} \cup Aim!Frames
    BY DEF Aim!ParentFrame, Aim!ParentSession, Aim!Holder, Aim!Main, Aim!Frames
  <2>2. Aim!ParentSession(aim.up) \in {None} \cup Aim!Sessions
    BY DEF Aim!ParentSession, Aim!Holder, Aim!Main, Aim!Frames, AimInv, AimTypes, AimAssumption,
      Aim!Sessions
  <2>3. aim' \in Calling BY <1>2, <2>1, <2>2 DEF AimInv, CallInv, Calling, Aim!Pcs
  <2>4. /\ aim'.pc = "quad" /\ aim'.at = aim.at /\ aim'.up = aim.up /\ aim'.tool = aim.tool
        /\ aim'.doc = aim.doc /\ aim'.calm = aim.calm /\ ~aim'.ok
    BY <1>2 DEF AimInv, CallInv, Calling, Aim!Owner
  <2>5. UNCHANGED <<there, box, aimTable>> BY DEF Aim!Owner, Aim!OnlyAim
  <2>6. Climbing'
    BY <1>2, <2>4, <2>5
    DEF Climbing, AimInv, CallInv, Aim!Owner, Aim!Projected, Aim!Corner, Aim!CountedTwice
  <2>7. Asked' BY <2>4 DEF Asked, AimInv, CallInv, Aim!Owner
  <2> QED BY <2>3, <2>4, <2>6, <2>7, OnlyTheCall
    DEF Aim!Owner, CallInv, Aimed, Arrived, Aim!AimIsTrue
<1> QED BY <1>1, <1>2 DEF Aim!Owner, Aim!Fail

\* The place is moved by the corner of the box.
LEMMA ToolProjects == ASSUME AimAssumption, AimInv, Aim!Quad PROVE AimInv'
<1>1. CASE aim' = Aim!Idle BY <1>1, AimFails, OnlyTheCall DEF Aim!Quad
<1>2. CASE /\ there[aim.up] # None
           /\ aim' = [aim EXCEPT !.pc = "check", !.at = Aim!Projected(aim.up, aim.at)]
  <2>1. Aim!Projected(aim.up, aim.at) \in Nat
    BY DEF Aim!Projected, Aim!Corner, Aim!Frames, Aim!Quad, Aim!Boxes, Aim!Width, AimInv, AimTypes,
      CallInv, Asked, Calling
  <2>2. aim' \in Calling BY <1>2, <2>1 DEF AimInv, CallInv, Calling, Aim!Pcs
  <2>3. /\ aim'.pc = "check" /\ aim'.at = Aim!Projected(aim.up, aim.at) /\ aim'.up = aim.up
        /\ aim'.tool = aim.tool /\ aim'.doc = aim.doc /\ aim'.calm = aim.calm /\ ~aim'.ok
    BY <1>2 DEF AimInv, CallInv, Calling, Aim!Quad
  <2>4. UNCHANGED <<there, box, aimTable>> BY DEF Aim!Quad, Aim!OnlyAim
  <2>5. there["outer"] # Aim!Local =>
           Aim!InPage("inner") = Aim!Projected("outer", Aim!Projected("inner", 0))
    BY DEF Aim!InPage, Aim!Main
  <2>6. /\ Aim!InPage("inner")' = Aim!InPage("inner") /\ Aim!CountedTwice' = Aim!CountedTwice
        /\ \A d \in {"outer", "inner"} : Aim!Projected(d, 0)' = Aim!Projected(d, 0)
    BY <2>4 DEF Aim!InPage, Aim!Projected, Aim!Corner, Aim!CountedTwice
  <2>7. Climbing'
    BY <2>3, <2>4, <2>5, <2>6 DEF Climbing, AimInv, CallInv, Asked, Aim!Quad, Aim!Frames
  <2>8. Asked' BY <2>3 DEF Asked, AimInv, CallInv, Aim!Quad
  <2> QED BY <2>2, <2>3, <2>7, <2>8, OnlyTheCall
    DEF Aim!Quad, CallInv, Aimed, Arrived, Aim!AimIsTrue
<1> QED BY <1>1, <1>2 DEF Aim!Quad, Aim!Fail

\* At the root it has arrived; below it the frame that holds this one is next.
LEMMA ToolChecks == ASSUME AimAssumption, AimInv, Aim!Check PROVE AimInv'
<1>1. aim.pc = "check" /\ aim.tool = "click" /\ aim.up \in Aim!Frames
  BY DEF Aim!Check, AimInv, CallInv, Asked
<1>2. UNCHANGED <<there, box, aimTable>> BY DEF Aim!Check, Aim!OnlyAim
<1>3. /\ Aim!InPage("outer")' = Aim!Projected("outer", 0)
      /\ Aim!InPage("inner")' = Aim!InPage("inner")
      /\ Aim!Projected("inner", 0)' = Aim!Projected("inner", 0)
      /\ Aim!CountedTwice' = Aim!CountedTwice
  BY <1>2 DEF Aim!InPage, Aim!Projected, Aim!Corner, Aim!CountedTwice, Aim!Main
<1>4. CASE Aim!AtRoot(aim.up)
  <2>1. aim' = [aim EXCEPT !.pc = "act"] BY <1>4 DEF Aim!Check, Aim!Goto
  <2>2. aim' \in Calling BY <2>1 DEF AimInv, CallInv, Calling, Aim!Pcs
  <2>3. /\ aim'.pc = "act" /\ aim'.at = aim.at /\ aim'.tool = "click" /\ aim'.doc = aim.doc
        /\ aim'.calm = aim.calm /\ ~aim'.ok
    BY <1>1, <2>1 DEF AimInv, CallInv, Calling
  <2>4. ASSUME aim.calm
        PROVE  \/ aim.doc = "inner" /\ (aim.at = Aim!InPage("inner") \/ Aim!CountedTwice)
               \/ aim.doc = "outer" /\ aim.at = Aim!Projected("outer", 0)
    <3>1. CASE aim.up # aim.doc BY <1>1, <2>4, <3>1 DEF AimInv, CallInv, Climbing
    <3>2. CASE aim.up = aim.doc
      <4>1. /\ aim.at = Aim!Projected(aim.doc, 0) /\ there[aim.up] # None
            /\ aimTable[aim.up].sess = there[aim.up]
        BY <1>1, <2>4, <3>2 DEF AimInv, CallInv, Climbing
      <4>2. aim.doc = "inner" => there["outer"] = Aim!Local
        BY <1>4, <3>2, <4>1 DEF Aim!AtRoot, Aim!Holder, Aim!Main, AimInv, TableFollows
      <4>3. aim.doc = "inner" => aim.at = Aim!InPage("inner")
        BY <4>1, <4>2 DEF Aim!InPage, Aim!Main
      <4> QED BY <1>1, <3>2, <4>1, <4>3 DEF Aim!Frames
    <3> QED BY <3>1, <3>2
  <2>5. Arrived' BY <1>3, <2>3, <2>4 DEF Arrived
  <2> QED BY <2>2, <2>3, <2>5, OnlyTheCall
    DEF Aim!Check, CallInv, Aimed, Asked, Climbing, Aim!AimIsTrue
<1>5. CASE ~Aim!AtRoot(aim.up)
  <2>1. aim.up = "inner" /\ Aim!Holder(aim.up) = "outer"
    BY <1>1, <1>5 DEF Aim!AtRoot, Aim!Holder, Aim!Main, Aim!Frames
  <2>2. aim' = [aim EXCEPT !.pc = "owner", !.up = "outer"] BY <1>5, <2>1 DEF Aim!Check
  <2>3. aim' \in Calling BY <2>2 DEF AimInv, CallInv, Calling, Aim!Pcs, Aim!Frames
  <2>4. /\ aim'.pc = "owner" /\ aim'.up = "outer" /\ aim'.at = aim.at /\ aim'.tool = "click"
        /\ aim'.doc = aim.doc /\ aim'.calm = aim.calm /\ ~aim'.ok
    BY <1>1, <2>2 DEF AimInv, CallInv, Calling
  <2>5. aim.calm => aim.doc = "inner" /\ aim.at = Aim!Projected("inner", 0)
    BY <1>1, <2>1 DEF AimInv, CallInv, Climbing
  <2>6. there["outer"] = Aim!Local => Aim!CountedTwice
    BY <1>1, <1>5, <2>1 DEF Aim!CountedTwice, Aim!AtRoot, Aim!Main
  <2>7. Climbing' BY <1>2, <1>3, <2>4, <2>5, <2>6 DEF Climbing
  <2> QED BY <2>3, <2>4, <2>7, OnlyTheCall
    DEF Aim!Check, CallInv, Aimed, Asked, Arrived, Aim!AimIsTrue, Aim!Frames
<1> QED BY <1>4, <1>5

LEMMA ToolActs == ASSUME AimAssumption, AimInv, Aim!Act PROVE AimInv'
<1>1. CASE aim' = Aim!Idle BY <1>1, AimFails, OnlyTheCall DEF Aim!Act
<1>2. CASE aim' = [Aim!Idle EXCEPT !.ok = TRUE, !.calm = aim.calm, !.tool = aim.tool,
                                   !.doc = aim.doc, !.at = aim.at,
                                   !.hit = IF aim.frame = None THEN Aim!Main ELSE aim.frame]
  <2> DEFINE hit == IF aim.frame = None THEN Aim!Main ELSE aim.frame
  <2>0. hit \in Aim!Documents BY DEF AimInv, CallInv, Calling, Aim!Documents
  <2> HIDE DEF hit
  <2>1. aim' \in Calling
    <3>1. aim' = [Aim!Idle EXCEPT !.ok = TRUE, !.calm = aim.calm, !.tool = aim.tool,
                                  !.doc = aim.doc, !.at = aim.at, !.hit = hit]
      BY <1>2 DEF hit
    <3> QED BY <2>0, <3>1, IdleAim DEF AimInv, CallInv, Calling
  <2>2. /\ aim'.pc = "idle" /\ aim'.calm = aim.calm /\ aim'.tool = aim.tool /\ aim'.doc = aim.doc
        /\ aim'.at = aim.at /\ aim'.hit = IF aim.frame = None THEN Aim!Main ELSE aim.frame
    BY <1>2 DEF Aim!Idle
  <2>3. Aim!CountedTwice' = Aim!CountedTwice /\ \A d : Aim!InPage(d)' = Aim!InPage(d)
    BY DEF Aim!Act, Aim!OnlyAim, Aim!InPage, Aim!Projected, Aim!Corner, Aim!CountedTwice
  <2>4. Aim!AimIsTrue'
    BY <2>2, <2>3 DEF Aim!AimIsTrue, Aim!Act, AimInv, CallInv, Arrived, Aimed
  <2> QED BY <2>1, <2>2, <2>4, OnlyTheCall
    DEF Aim!Act, CallInv, Aimed, Asked, Climbing, Arrived
<1> QED BY <1>1, <1>2 DEF Aim!Act, Aim!Fail

LEMMA StepKeepsAim == AimAssumption /\ AimInv /\ [Aim!Next]_(Aim!vars) => AimInv'
<1> SUFFICES ASSUME AimAssumption, AimInv, [Aim!Next]_(Aim!vars) PROVE AimInv' OBVIOUS
<1>1. CASE UNCHANGED Aim!vars
  <2>1. UNCHANGED <<there, box, aimTable, aim, moves>> BY <1>1 DEF Aim!vars
  <2>2. AimTypes' /\ TableFollows' BY <2>1 DEF AimInv, AimTypes, TableFollows
  <2>3. /\ Aim!CountedTwice' = Aim!CountedTwice
        /\ \A d : Aim!InPage(d)' = Aim!InPage(d)
        /\ \A f, at : Aim!Projected(f, at)' = Aim!Projected(f, at)
    BY <2>1 DEF Aim!InPage, Aim!Projected, Aim!Corner, Aim!CountedTwice
  <2>4. Climbing' BY <2>1, <2>3 DEF AimInv, CallInv, Climbing
  <2>5. Arrived' /\ Aim!AimIsTrue' BY <2>1, <2>3 DEF AimInv, CallInv, Arrived, Aim!AimIsTrue
  <2>6. aim' \in Calling /\ Aimed' /\ Asked' /\ (aim'.pc # "idle" => ~aim'.ok)
    BY <2>1 DEF AimInv, CallInv, Aimed, Asked, Calling
  <2> QED BY <2>2, <2>4, <2>5, <2>6 DEF AimInv, CallInv
<1>2. CASE Aim!Cut BY <1>2, AimFails, OnlyTheCall DEF Aim!Cut, Aim!Fail
<1> QED
  BY <1>1, <1>2, PageKeepsAim, ToolBegins, ToolEnters, ToolSelects, ToolPoints, ToolFindsOwner,
    ToolProjects, ToolChecks, ToolActs DEF Aim!Next

-----------------------------------------------------------------------------
\* The commands that go on for several steps.  Both instances are seen as one: with every
\* command, and all that any of them may be asked for.
Either == INSTANCE PageCommands WITH
             MaxCalls <- MaxEmulations, call <- command, calls <- emulated

CommandsAssumption == MaxClicks \subseteq Nat /\ MaxEmulations \in Nat

\* What a call of each kind remembers, and what is so at its steps.
Waiting ==
    /\ command = [pc |-> command.pc, result |-> command.result, state |-> command.state,
                  timeout |-> command.timeout, seen |-> command.seen, wake |-> command.wake]
    /\ command.pc \in {"look", "decide", "sleep", "done"}
    /\ command.result \in IF command.pc = "done" THEN {"ok", "timeout"} ELSE {"none"}
    /\ command.result = "timeout" =>
          clock >= command.timeout /\ ~Either!Matches(command.seen, command.state)
Loading ==
    /\ command = [pc |-> command.pc, result |-> command.result, max |-> command.max,
                  clicks |-> command.clicks, pressed |-> command.pressed, probe |-> command.probe]
    /\ command.pc \in {"exists", "click", "again", "check", "done"}
    /\ command.result \in IF command.pc = "done" THEN {"gone", "present"} ELSE {"none"}
    /\ command.clicks \in Nat /\ command.max \in Nat /\ command.clicks = command.pressed
    /\ command.pc \in {"exists", "click"} => command.clicks < command.max
    /\ command.pc = "again" => command.clicks <= command.max
    /\ command.pc = "check" => command.clicks = command.max
    /\ command.result = "gone" => command.probe = "detached"
    /\ command.result = "present" => command.probe # "detached" /\ command.clicks = command.max
Emulating ==
    /\ command = [pc |-> command.pc, result |-> command.result, asked |-> command.asked]
    /\ command.pc \in {"metrics", "ua", "touch", "done"}
    /\ command.result = IF command.pc = "done" THEN "set" ELSE "none"
    /\ command.asked \in Either!Devices
    /\ command.pc # "done" => wanted = None
    /\ command.pc \in {"ua", "touch"} =>
          device.size = command.asked.size /\ device.mobile = command.asked.mobile
    /\ command.pc = "touch" => device.ua = command.asked.ua

CommandInv ==
    /\ emulated \in Nat
    /\ device \in Either!Devices
    /\ wanted # None => device = wanted
    /\ command = Either!Idle \/ Waiting \/ Loading \/ Emulating

LEMMA ResolvedIsADevice ==
    ASSUME NEW r \in Either!Requests, Either!Resolved(r) # None
    PROVE  Either!Resolved(r) \in Either!Devices
<1> USE DEF Either!Devices
<1>1. \A v, w : Either!Or(v, w) = v \/ Either!Or(v, w) = w BY DEF Either!Or
<1>2. Either!Plain \in Either!Devices BY DEF Either!Plain
<1>3. \A p \in DOMAIN Either!Presets : Either!Presets[p] \in Either!Devices
  <2>1. DOMAIN Either!Presets = {"phone", "desk"} BY DEF Either!Presets
  <2>2. Either!Presets["phone"] \in Either!Devices /\ Either!Presets["desk"] \in Either!Devices
    BY DEF Either!Presets
  <2> QED BY <2>1, <2>2
<1>4. CASE r.off BY <1>2, <1>4 DEF Either!Resolved
<1>5. CASE ~r.off /\ r.preset # None BY <1>3, <1>5 DEF Either!Resolved
<1>6. CASE ~r.off /\ r.preset = None /\ r.viewport = 1
  <2>1. Either!Resolved(r) = [size |-> "given", mobile |-> Either!Or(r.mobile, FALSE),
                              ua |-> Either!Or(r.ua, "own"), touch |-> Either!Or(r.touch, FALSE)]
    BY <1>6 DEF Either!Resolved
  <2> DEFINE m == Either!Or(r.mobile, FALSE)
             t == Either!Or(r.touch, FALSE)
             u == Either!Or(r.ua, "own")
  <2>2. m \in BOOLEAN /\ t \in BOOLEAN /\ u \in {"own", "given"}
    BY DEF Either!Or, Either!Requests, Either!Maybe
  <2> HIDE DEF m, t, u
  <2>3. [size |-> "given", mobile |-> m, ua |-> u, touch |-> t] \in Either!Devices BY <2>2
  <2> QED BY <2>1, <2>3 DEF m, t, u
<1> QED BY <1>4, <1>5, <1>6 DEF Either!Resolved

LEMMA InitCommands == CommandsAssumption /\ Either!Init => CommandInv
  BY DEF Either!Init, CommandInv, Either!Plain, Either!Devices

\* Where a call is says which kind it is.
LEMMA KindOfCall ==
    ASSUME CommandInv
    PROVE  /\ command.pc \in {"look", "decide", "sleep"} => Waiting
           /\ command.pc \in {"exists", "click", "again", "check"} => Loading
           /\ command.pc \in {"metrics", "ua", "touch"} => Emulating
  BY DEF CommandInv, Waiting, Loading, Emulating, Either!Idle

LEMMA CommandEnds ==
    ASSUME CommandInv, command' = Either!Idle, UNCHANGED <<device, wanted, emulated>>
    PROVE  CommandInv'
  BY DEF CommandInv

LEMMA WaitKeeps ==
    ASSUME CommandInv,
           \/ \E state \in Either!Waited, timeout \in Timeouts : Either!Wait(state, timeout)
           \/ Either!Look \/ Either!Decide \/ Either!Wake
    PROVE  CommandInv'
<1>1. UNCHANGED <<element, clock, device, emulated, wanted>>
  BY DEF Either!Wait, Either!Look, Either!Decide, Either!Wake, Either!OnlyCall
<1>2. ASSUME NEW state \in Either!Waited, NEW timeout \in Timeouts, Either!Wait(state, timeout)
      PROVE  Waiting'
  BY <1>2 DEF Either!Wait, Waiting
<1>3. ASSUME Either!Look PROVE Waiting'
  <2>1. Waiting BY <1>3, KindOfCall DEF Either!Look
  <2>2. PICK seen \in {element, "detached", "unknown"} :
           command' = [command EXCEPT !.pc = "decide", !.seen = seen]
    BY <1>3 DEF Either!Look
  <2>3. command' = [pc |-> "decide", result |-> command.result, state |-> command.state,
                    timeout |-> command.timeout, seen |-> seen, wake |-> command.wake]
    BY <2>1, <2>2 DEF Waiting
  <2> QED BY <1>3, <2>1, <2>3 DEF Waiting, Either!Look
<1>4. ASSUME Either!Decide PROVE Waiting'
  <2>1. Waiting /\ command.pc = "decide" BY <1>4, KindOfCall DEF Either!Decide
  <2>2. CASE Either!Matches(command.seen, command.state)
    <3>1. command' = [pc |-> "done", result |-> "ok", state |-> command.state,
                      timeout |-> command.timeout, seen |-> command.seen, wake |-> command.wake]
      BY <1>4, <2>1, <2>2 DEF Waiting, Either!Decide, Either!End
    <3> QED BY <3>1 DEF Waiting
  <2>3. CASE ~Either!Matches(command.seen, command.state) /\ Either!Expired
    <3>1. command' = [pc |-> "done", result |-> "timeout", state |-> command.state,
                      timeout |-> command.timeout, seen |-> command.seen, wake |-> command.wake]
      BY <1>4, <2>1, <2>3 DEF Waiting, Either!Decide, Either!End
    <3> QED BY <1>1, <2>3, <3>1 DEF Waiting, Either!Expired, Either!Matches
  <2>4. CASE ~Either!Matches(command.seen, command.state) /\ ~Either!Expired
    <3>1. command' = [pc |-> "sleep", result |-> command.result, state |-> command.state,
                      timeout |-> command.timeout, seen |-> command.seen, wake |-> command'.wake]
      BY <1>4, <2>1, <2>4 DEF Waiting, Either!Decide
    <3>2. command.result = "none" BY <2>1 DEF Waiting
    <3> QED BY <3>1, <3>2 DEF Waiting
  <2> QED BY <2>2, <2>3, <2>4
<1>5. ASSUME Either!Wake PROVE Waiting'
  <2>1. Waiting /\ command.pc = "sleep" BY <1>5, KindOfCall DEF Either!Wake
  <2>2. command' = [pc |-> "look", result |-> command.result, state |-> command.state,
                    timeout |-> command.timeout, seen |-> command.seen, wake |-> command.wake]
    BY <1>5, <2>1 DEF Waiting, Either!Wake
  <2> QED BY <2>1, <2>2 DEF Waiting
<1> QED BY <1>1, <1>2, <1>3, <1>4, <1>5 DEF CommandInv

LEMMA LoadAllKeeps ==
    ASSUME CommandsAssumption, CommandInv,
           \/ \E max \in MaxClicks : Either!LoadAll(max)
           \/ Either!Exists \/ Either!Click \/ Either!Again \/ Either!CheckAgain
    PROVE  CommandInv'
<1>1. UNCHANGED <<clock, device, emulated, wanted>>
  BY DEF Either!LoadAll, Either!Exists, Either!Click, Either!Again, Either!CheckAgain,
    Either!OnlyCall
<1> DEFINE next(pc, result, clicks, pressed, probe) ==
             [pc |-> pc, result |-> result, max |-> command.max, clicks |-> clicks,
              pressed |-> pressed, probe |-> probe]
<1>2. ASSUME NEW max \in MaxClicks, Either!LoadAll(max) PROVE Loading'
  BY <1>2 DEF Either!LoadAll, Loading, CommandsAssumption
<1>3. ASSUME Either!Exists, command' # Either!Idle PROVE Loading'
  <2>1. Loading /\ command.pc = "exists" BY <1>3, KindOfCall DEF Either!Exists
  <2>2. \/ command' = next("done", "gone", command.clicks, command.pressed, "detached")
        \/ command' = next("click", command.result, command.clicks, command.pressed, command.probe)
    BY <1>3, <2>1 DEF Either!Exists, Loading
  <2> QED BY <2>1, <2>2 DEF Loading
<1>4. ASSUME Either!Click, command' # Either!Idle PROVE Loading'
  <2>1. Loading /\ command.pc = "click" BY <1>4, KindOfCall DEF Either!Click
  <2>2. command' = next("again", command.result, command.clicks + 1, command.pressed + 1,
                        command.probe)
    BY <1>4, <2>1 DEF Either!Click, Either!Clicked, Loading
  <2> QED BY <2>1, <2>2 DEF Loading
<1>5. ASSUME Either!Again PROVE Loading'
  <2>1. Loading /\ command.pc = "again" BY <1>5, KindOfCall DEF Either!Again
  <2>2. command' = next(IF command.clicks < command.max THEN "exists" ELSE "check",
                        command.result, command.clicks, command.pressed, command.probe)
    BY <1>5, <2>1 DEF Either!Again, Loading
  <2> QED BY <2>1, <2>2 DEF Loading
<1>6. ASSUME Either!CheckAgain, command' # Either!Idle PROVE Loading'
  <2>1. Loading /\ command.pc = "check" BY <1>6, KindOfCall DEF Either!CheckAgain
  <2>2. command' = next("done", IF element = "detached" THEN "gone" ELSE "present",
                        command.clicks, command.pressed, element)
    BY <1>6, <2>1 DEF Either!CheckAgain, Loading
  <2> QED BY <2>1, <2>2 DEF Loading
<1> QED BY <1>1, <1>2, <1>3, <1>4, <1>5, <1>6, CommandEnds DEF CommandInv

LEMMA EmulateKeeps ==
    ASSUME CommandInv,
           \/ \E d \in {Either!Resolved(r) : r \in Either!Requests} : Either!Emulate(d)
           \/ Either!Metrics \/ Either!Ua \/ Either!Touch
    PROVE  CommandInv'
<1>1. ASSUME NEW r \in Either!Requests, Either!Emulate(Either!Resolved(r)) PROVE CommandInv'
  <2>1. Either!Resolved(r) \in Either!Devices BY <1>1, ResolvedIsADevice DEF Either!Emulate
  <2> QED BY <1>1, <2>1 DEF Either!Emulate, Emulating, CommandInv
\* The command failed, carried out or not: nothing is claimed of the overrides.
<1>2. ASSUME Emulating, command.pc # "done", command' = Either!Idle, device' \in Either!Devices,
             UNCHANGED <<wanted, emulated>>
      PROVE  CommandInv'
  BY <1>2 DEF Emulating, CommandInv
<1>3. ASSUME Either!Metrics PROVE CommandInv'
  <2> DEFINE after == [device EXCEPT !.size = command.asked.size, !.mobile = command.asked.mobile]
  <2>1. Emulating /\ command.pc = "metrics" BY <1>3, KindOfCall DEF Either!Metrics, Either!Sends
  <2>2. after \in Either!Devices BY <2>1 DEF CommandInv, Emulating, Either!Devices
  <2>3. CASE device' = after /\ command' = [command EXCEPT !.pc = "ua"] /\ UNCHANGED wanted
    <3>1. command' = [pc |-> "ua", result |-> command.result, asked |-> command.asked]
      BY <2>1, <2>3 DEF Emulating
    <3>2. device'.size = command.asked.size /\ device'.mobile = command.asked.mobile
      BY <2>3 DEF CommandInv, Either!Devices
    <3> QED BY <1>3, <2>1, <2>2, <2>3, <3>1, <3>2
      DEF CommandInv, Emulating, Either!Metrics, Either!Sends
  <2> QED BY <1>2, <1>3, <2>1, <2>2, <2>3 DEF Either!Metrics, Either!Sends, CommandInv
<1>4. ASSUME Either!Ua PROVE CommandInv'
  <2> DEFINE after == [device EXCEPT !.ua = command.asked.ua]
  <2>1. Emulating /\ command.pc = "ua" BY <1>4, KindOfCall DEF Either!Ua, Either!Sends
  <2>2. after \in Either!Devices BY <2>1 DEF CommandInv, Emulating, Either!Devices
  <2>3. CASE device' = after /\ command' = [command EXCEPT !.pc = "touch"] /\ UNCHANGED wanted
    <3>1. command' = [pc |-> "touch", result |-> command.result, asked |-> command.asked]
      BY <2>1, <2>3 DEF Emulating
    <3>2. /\ device'.size = device.size /\ device'.mobile = device.mobile
          /\ device'.ua = command.asked.ua
      BY <2>3 DEF CommandInv, Either!Devices
    <3> QED BY <1>4, <2>1, <2>2, <2>3, <3>1, <3>2
      DEF CommandInv, Emulating, Either!Ua, Either!Sends
  <2> QED BY <1>2, <1>4, <2>1, <2>2, <2>3 DEF Either!Ua, Either!UaSent, Either!Sends, CommandInv
<1>5. ASSUME Either!Touch PROVE CommandInv'
  <2> DEFINE after == [device EXCEPT !.touch = command.asked.touch]
  <2>1. Emulating /\ command.pc = "touch" BY <1>5, KindOfCall DEF Either!Touch, Either!Sends
  <2>2. after \in Either!Devices BY <2>1 DEF CommandInv, Emulating, Either!Devices
  <2>3. after = command.asked BY <2>1 DEF CommandInv, Emulating, Either!Devices
  <2>4. CASE /\ device' = after /\ wanted' = command.asked
             /\ command' = [command EXCEPT !.pc = "done", !.result = "set"]
    <3>1. command' = [pc |-> "done", result |-> "set", asked |-> command.asked]
      BY <2>1, <2>4 DEF Emulating
    <3> QED BY <1>5, <2>1, <2>2, <2>3, <2>4, <3>1
      DEF CommandInv, Emulating, Either!Touch, Either!Sends
  <2> QED BY <1>2, <1>5, <2>1, <2>2, <2>4
    DEF Either!Touch, Either!Sends, Either!End, CommandInv
<1> QED BY <1>1, <1>3, <1>4, <1>5

LEMMA StepKeepsCommands ==
    CommandsAssumption /\ CommandInv /\ [Either!Next]_(Either!vars) => CommandInv'
<1> SUFFICES ASSUME CommandsAssumption, CommandInv, [Either!Next]_(Either!vars) PROVE CommandInv'
  OBVIOUS
<1>1. CASE UNCHANGED Either!vars
  BY <1>1 DEF Either!vars, CommandInv, Waiting, Loading, Emulating
<1>2. CASE Either!ElementChanges \/ Either!Return \/ Either!Cut
  BY <1>2 DEF Either!ElementChanges, Either!Return, Either!Cut, CommandInv, Waiting, Loading,
    Emulating
<1>3. CASE Either!Tick
  BY <1>3 DEF Either!Tick, CommandInv, Waiting, Loading, Emulating, Either!Idle
<1>4. CASE Either!Rebuilt
  BY <1>4 DEF Either!Rebuilt, CommandInv, Waiting, Loading, Emulating, Either!Idle, Either!Plain,
    Either!Devices
<1> QED
  BY <1>1, <1>2, <1>3, <1>4, WaitKeeps, LoadAllKeeps, EmulateKeeps DEF Either!Next

LEMMA CommandInvImplies == CommandInv => Either!CommandsTellTheTruth
  BY DEF CommandInv, Waiting, Loading, Emulating, Either!Idle, Either!CommandsTellTheTruth,
    Either!WaitGivesItsTime, Either!LoadAllCounts, Either!EmulationIsWhole

\* What the one instance does the other may do too.
LEMMA WaitsAreCommands == CommandsAssumption /\ emulated \in Nat /\ Waits!Next => Either!Next
<1> SUFFICES ASSUME CommandsAssumption, emulated \in Nat, Waits!Next PROVE Either!Next OBVIOUS
<1>1. ASSUME NEW d, Waits!Emulate(d) PROVE FALSE BY <1>1 DEF Waits!Emulate
<1>2. Waits!ElementChanges \/ Waits!Tick \/ Waits!Rebuilt \/ Waits!Return \/ Waits!Cut =>
        Either!Next
  BY DEF Either!Next, Waits!ElementChanges, Waits!Tick, Waits!Rebuilt, Waits!Return, Waits!Cut,
    Either!ElementChanges, Either!Tick, Either!Rebuilt, Either!Return, Either!Cut,
    Waits!Elements, Either!Elements, Waits!Plain, Either!Plain, Waits!Idle, Either!Idle
<1>3. ASSUME NEW state \in Waits!Waited, NEW timeout \in Timeouts, Waits!Wait(state, timeout)
      PROVE  Either!Next
  BY <1>3 DEF Either!Next, Waits!Wait, Either!Wait, Waits!OnlyCall, Either!OnlyCall,
    Waits!Waited, Either!Waited, Waits!Elements, Either!Elements
<1>4. Waits!Look \/ Waits!Decide \/ Waits!Wake => Either!Next
  BY DEF Either!Next, Waits!Look, Waits!Decide, Waits!Wake, Either!Look, Either!Decide, Either!Wake,
    Waits!OnlyCall, Either!OnlyCall, Waits!End, Either!End, Waits!Matches, Either!Matches,
    Waits!Expired, Either!Expired
<1>5. ASSUME NEW max \in MaxClicks, Waits!LoadAll(max) PROVE Either!Next
  BY <1>5 DEF Either!Next, Waits!LoadAll, Either!LoadAll, Waits!OnlyCall, Either!OnlyCall
<1>6. Waits!Exists \/ Waits!Click \/ Waits!Again \/ Waits!CheckAgain => Either!Next
  BY DEF Either!Next, Waits!Exists, Waits!Click, Waits!Again, Waits!CheckAgain, Either!Exists,
    Either!Click, Either!Again, Either!CheckAgain, Waits!OnlyCall, Either!OnlyCall, Waits!Idle,
    Either!Idle, Waits!Clicked, Either!Clicked, Waits!Elements, Either!Elements
<1>7. Waits!Metrics \/ Waits!Ua \/ Waits!Touch => Either!Next
  BY DEF Either!Next, Waits!Metrics, Waits!Ua, Waits!Touch, Either!Metrics, Either!Ua, Either!Touch,
    Waits!Sends, Either!Sends, Waits!End, Either!End, Waits!Idle, Either!Idle, Waits!UaSent,
    Either!UaSent
<1> QED BY <1>1, <1>2, <1>3, <1>4, <1>5, <1>6, <1>7 DEF Waits!Next

LEMMA DevicesAreCommands == Devices!Next => Either!Next
<1> SUFFICES ASSUME Devices!Next PROVE Either!Next OBVIOUS
<1>1. ASSUME NEW d \in {Devices!Resolved(r) : r \in Devices!Requests}, Devices!Emulate(d)
      PROVE  Either!Next
  BY <1>1 DEF Either!Next, Devices!Emulate, Either!Emulate, Devices!Resolved, Either!Resolved,
    Devices!Requests, Either!Requests, Devices!Fields, Either!Fields, Devices!Or, Either!Or,
    Devices!Plain, Either!Plain, Devices!Presets, Either!Presets, Devices!Maybe, Either!Maybe
<1>2. Devices!ElementChanges \/ Devices!Tick \/ Devices!Rebuilt \/ Devices!Return \/ Devices!Cut
         => Either!Next
  BY DEF Either!Next, Devices!ElementChanges, Devices!Tick, Devices!Rebuilt, Devices!Return,
    Devices!Cut, Either!ElementChanges, Either!Tick, Either!Rebuilt, Either!Return, Either!Cut,
    Devices!Elements, Either!Elements, Devices!Plain, Either!Plain, Devices!Idle, Either!Idle
<1>3. Devices!Look \/ Devices!Decide \/ Devices!Wake => Either!Next
  BY DEF Either!Next, Devices!Look, Devices!Decide, Devices!Wake, Either!Look, Either!Decide,
    Either!Wake, Devices!OnlyCall, Either!OnlyCall, Devices!End, Either!End, Devices!Matches,
    Either!Matches, Devices!Expired, Either!Expired
<1>4. Devices!Exists \/ Devices!Click \/ Devices!Again \/ Devices!CheckAgain => Either!Next
  BY DEF Either!Next, Devices!Exists, Devices!Click, Devices!Again, Devices!CheckAgain,
    Either!Exists, Either!Click, Either!Again, Either!CheckAgain, Devices!OnlyCall,
    Either!OnlyCall, Devices!Idle, Either!Idle, Devices!Clicked, Either!Clicked,
    Devices!Elements, Either!Elements
<1>5. Devices!Metrics \/ Devices!Ua \/ Devices!Touch => Either!Next
  BY DEF Either!Next, Devices!Metrics, Devices!Ua, Devices!Touch, Either!Metrics, Either!Ua,
    Either!Touch, Devices!Sends, Either!Sends, Devices!End, Either!End, Devices!Idle, Either!Idle,
    Devices!UaSent, Either!UaSent
<1> QED BY <1>1, <1>2, <1>3, <1>4, <1>5 DEF Devices!Next

LEMMA BothTellTheTruth ==
    Either!CommandsTellTheTruth => Waits!CommandsTellTheTruth /\ Devices!CommandsTellTheTruth
  BY DEF Either!CommandsTellTheTruth, Waits!CommandsTellTheTruth, Devices!CommandsTellTheTruth,
    Either!WaitGivesItsTime, Waits!WaitGivesItsTime, Devices!WaitGivesItsTime,
    Either!LoadAllCounts, Waits!LoadAllCounts, Devices!LoadAllCounts, Either!EmulationIsWhole,
    Waits!EmulationIsWhole, Devices!EmulationIsWhole, Either!Matches, Waits!Matches,
    Devices!Matches

-----------------------------------------------------------------------------
\* A scan for hovering: what it has missed it will say.
Scan(s) ==
    s = [pc |-> s.pc, list |-> s.list, rules |-> s.rules, cut |-> s.cut, missed |-> s.missed,
         triggers |-> s.triggers, reveals |-> s.reveals, marks |-> s.marks, status |-> s.status]
HoverInv ==
    /\ Scan(scan)
    /\ scan.missed \subseteq {"blank"} \/ scan.cut
    /\ scan.pc = "wait" => scan.missed = {}
    /\ scan.pc # "idle" => scan.status = None
    /\ Hover!ScanIsHonest

HoverAssumption == None \notin {"ok", "skipped"}

\* A scan that goes on may miss something, and then it is cut.
LEMMA ScanGoesOn ==
    ASSUME HoverAssumption, HoverInv, scan.pc \in {"read", "ask"}, Scan(scan'),
           scan'.pc = scan.pc, scan'.status = scan.status,
           \/ scan'.cut = TRUE
           \/ scan'.cut = scan.cut /\ scan'.missed \subseteq scan.missed \cup {"blank"}
    PROVE  HoverInv'
  BY DEF HoverAssumption, HoverInv, Hover!ScanIsHonest, Scan

LEMMA InitHover == Hover!Init => HoverInv
  BY DEF Hover!Init, Hover!Idle, HoverInv, Hover!ScanIsHonest, Scan

LEMMA StepKeepsHover == HoverAssumption /\ HoverInv /\ [Hover!Next]_(Hover!vars) => HoverInv'
<1> SUFFICES ASSUME HoverAssumption, HoverInv, [Hover!Next]_(Hover!vars) PROVE HoverInv' OBVIOUS
<1>1. CASE UNCHANGED scan BY <1>1 DEF HoverInv, Hover!ScanIsHonest, Scan
<1>2. CASE Hover!Return BY <1>2 DEF Hover!Return, Hover!Idle, HoverInv, Hover!ScanIsHonest, Scan
<1>3. CASE Hover!Begin
  BY <1>3 DEF Hover!Begin, Hover!Idle, HoverInv, Hover!ScanIsHonest, Scan
<1>4. CASE Hover!Listed
  <2>1. scan.pc = "wait" /\ scan.missed = {} /\ scan.status = None
    BY <1>4 DEF Hover!Listed, HoverAssumption, HoverInv
  <2>2. CASE Hover!Regular = {}
    <3>1. scan' = [scan EXCEPT !.pc = "idle", !.status = "skipped", !.marks = <<>>]
      BY <1>4, <2>2 DEF Hover!Listed, Hover!End
    <3> QED BY <2>1, <3>1 DEF HoverInv, Hover!ScanIsHonest, Scan
  <2>3. CASE Hover!Regular # {}
    <3> DEFINE all == Hover!SetToSortSeq(Hover!Regular, <)
               over == Hover!Len(all) > MaxSheets
               list == IF over THEN Hover!SubSeq(all, 1, MaxSheets) ELSE all
    <3>1. scan' = [scan EXCEPT !.pc = "read", !.cut = over, !.missed = IF over THEN {"many"} ELSE {},
                                   !.list = list]
      BY <1>4, <2>3 DEF Hover!Listed
    <3> HIDE DEF over, list
    <3> QED BY <2>1, <3>1 DEF HoverAssumption, HoverInv, Hover!ScanIsHonest, Scan
  <2> QED BY <2>2, <2>3
<1>5. CASE Hover!Read
  <2>1. scan.pc = "read" /\ Scan(scan) BY <1>5 DEF Hover!Read, HoverInv
  <2>2. /\ Scan(scan') /\ scan'.pc = scan.pc /\ scan'.status = scan.status
        /\ \/ scan'.cut = TRUE
           \/ scan'.cut = scan.cut /\ scan'.missed \subseteq scan.missed \cup {"blank"}
    BY <1>5, <2>1 DEF Hover!Read, Hover!Unread, Hover!Missing, Scan
  <2> QED BY <2>1, <2>2, ScanGoesOn
<1>6. CASE Hover!Extracted
  BY <1>6 DEF Hover!Extracted, Hover!End, HoverAssumption, HoverInv, Hover!ScanIsHonest, Scan
<1>7. CASE Hover!Ask
  <2>1. scan.pc = "ask" /\ Scan(scan) BY <1>7 DEF Hover!Ask, HoverInv
  <2>2. /\ Scan(scan') /\ scan'.pc = scan.pc /\ scan'.status = scan.status
        /\ \/ scan'.cut = TRUE
           \/ scan'.cut = scan.cut /\ scan'.missed \subseteq scan.missed \cup {"blank"}
    BY <1>7, <2>1 DEF Hover!Ask, Hover!Missing, Scan
  <2> QED BY <2>1, <2>2, ScanGoesOn
<1>8. CASE Hover!Asked
  BY <1>8 DEF Hover!Asked, HoverAssumption, HoverInv, Hover!ScanIsHonest, Scan
<1>9. CASE Hover!Bridge
  BY <1>9 DEF Hover!Bridge, Hover!End, HoverAssumption, HoverInv, Hover!ScanIsHonest, Scan
<1>10. \A s \in Sheets : Hover!SheetTold(s) => UNCHANGED scan BY DEF Hover!SheetTold
<1> QED
  BY <1>1, <1>2, <1>3, <1>4, <1>5, <1>6, <1>7, <1>8, <1>9, <1>10
  DEF Hover!Next, Hover!vars, Hover!WindowCloses, Hover!NewDocument

-----------------------------------------------------------------------------
\* The server that mocks: one is started at a time, and the cell is filled once.
MockTypes ==
    /\ cell \in Mock!Servers \cup {None}
    /\ server \in [Mock!Servers -> {"none", "binding", "told", "listening", "failed"}]
    /\ mock \in [Calls -> [pc : {"idle", "wait", "init", "sent"}, at : Mock!Servers \cup {None}]]
    /\ specs \in [Mock!Servers -> SUBSET Calls]
    /\ asks \in [Calls -> [n : Nat, taken : BOOLEAN, served : Nat, early : BOOLEAN]]
OneStarts ==
    /\ \A c \in Calls : mock[c].pc = "init" => mock[c].at \in Mock!Servers /\ cell = None
    /\ \A c, d \in Calls : mock[c].pc = "init" /\ mock[d].pc = "init" => c = d
    /\ cell # None => server[cell] = "listening"
\* A token is kept until a request takes it, and nobody asks for one that is not sent.
TokensLast ==
    /\ \A c \in Calls : mock[c].pc = "sent" =>
          cell # None /\ mock[c].at = cell /\ (c \in specs[cell] \/ asks[c].taken)
    /\ \A c \in Calls : mock[c].pc # "sent" => ~asks[c].taken /\ asks[c].served = 0
    /\ \A n \in Mock!Servers : \A c \in specs[n] :
          n = cell /\ mock[c].pc = "sent" /\ ~asks[c].taken /\ asks[c].served = 0
    /\ \A c \in Calls : asks[c].served <= 1 /\ ~asks[c].early

MockInv == MockTypes /\ OneStarts /\ TokensLast
MockAssumption == None \notin Mock!Servers

LEMMA InitMock == MockAssumption /\ Mock!Init => MockInv
  BY DEF MockAssumption, Mock!Init, MockInv, MockTypes, OneStarts, TokensLast

LEMMA MockInvImplies == MockAssumption /\ MockInv => Mock!MockAnswersOnce
<1> SUFFICES ASSUME MockAssumption, MockInv PROVE Mock!MockAnswersOnce OBVIOUS
<1>1. \A n \in Mock!Servers : specs[n] # {} => n = cell /\ server[n] = "listening"
  <2> SUFFICES ASSUME NEW n \in Mock!Servers, specs[n] # {}
               PROVE n = cell /\ server[n] = "listening"
    OBVIOUS
  <2>1. PICK c : c \in specs[n] OBVIOUS
  <2> QED BY <2>1 DEF MockInv, OneStarts, TokensLast, MockAssumption
<1> QED BY <1>1 DEF MockInv, TokensLast, Mock!MockAnswersOnce

\* Where callers stand before they register.
LEMMA CallerMoves ==
    ASSUME MockInv, NEW c \in Calls, NEW pc \in {"idle", "wait", "init"},
           NEW at \in Mock!Servers \cup {None}, mock[c].pc # "sent", Mock!Goto(c, pc, at)
    PROVE  /\ mock' \in [Calls -> [pc : {"idle", "wait", "init", "sent"},
                                   at : Mock!Servers \cup {None}]]
           /\ mock'[c].pc = pc /\ mock'[c].at = at
           /\ \A d \in Calls : d # c => mock'[d] = mock[d]
           /\ UNCHANGED <<cell, specs, asks>> => TokensLast'
  BY DEF Mock!Goto, MockInv, MockTypes, TokensLast

LEMMA StartKeeps ==
    ASSUME MockAssumption, MockInv, NEW c \in Calls, NEW n \in Mock!Servers, Mock!Start(c, n)
    PROVE  MockInv'
<1>1. Mock!Goto(c, "init", n) /\ mock[c].pc = "wait" /\ cell = None
      /\ server' = [server EXCEPT ![n] = "binding"] /\ UNCHANGED <<cell, specs, asks>>
  BY DEF Mock!Start
<1>2. OneStarts'
  BY <1>1, CallerMoves DEF Mock!Start, MockInv, OneStarts
<1> QED BY <1>1, <1>2, CallerMoves DEF MockInv, MockTypes

LEMMA StepKeepsMock == MockAssumption /\ MockInv /\ [Mock!Next]_(Mock!vars) => MockInv'
<1> SUFFICES ASSUME MockAssumption, MockInv, [Mock!Next]_(Mock!vars) PROVE MockInv' OBVIOUS
<1>1. CASE UNCHANGED Mock!vars BY <1>1 DEF Mock!vars, MockInv, MockTypes, OneStarts, TokensLast
<1>2. ASSUME NEW c \in Calls, Mock!Ask(c) PROVE MockInv'
  <2>1. OneStarts' BY <1>2, CallerMoves DEF Mock!Ask, MockInv, OneStarts
  <2> QED BY <1>2, <2>1, CallerMoves DEF Mock!Ask, MockInv, MockTypes
<1>3. ASSUME NEW c \in Calls, Mock!Drop(c) PROVE MockInv'
  <2>1. OneStarts' BY <1>3, CallerMoves DEF Mock!Drop, MockInv, OneStarts
  <2> QED BY <1>3, <2>1, CallerMoves DEF Mock!Drop, MockInv, MockTypes
<1>4. ASSUME NEW c \in Calls, Mock!Started(c) PROVE MockInv'
  <2>1. mock[c].pc = "init" /\ mock[c].at \in Mock!Servers /\ cell = None
    BY <1>4 DEF Mock!Started, MockInv, OneStarts
  <2>2. \A d \in Calls : mock[d].pc # "sent" BY <2>1 DEF MockInv, TokensLast
  <2>3. CASE /\ server' = [server EXCEPT ![mock[c].at] = "listening"] /\ cell' = mock[c].at
             /\ Mock!Goto(c, "wait", None)
    <3>1. \A n \in Mock!Servers : specs[n] = {}
      BY <2>2 DEF MockInv, MockTypes, TokensLast
    <3>2. OneStarts'
      BY <2>1, <2>3, CallerMoves DEF MockInv, MockTypes, OneStarts
    <3>3. MockTypes' BY <1>4, <2>1, <2>3, CallerMoves DEF Mock!Started, MockInv, MockTypes
    <3>4. TokensLast'
      BY <1>4, <2>1, <2>2, <2>3, <3>1, CallerMoves DEF Mock!Started, MockInv, TokensLast
    <3> QED BY <3>2, <3>3, <3>4 DEF MockInv
  <2>4. CASE Mock!Goto(c, "idle", None) /\ UNCHANGED <<cell, server>>
    <3>1. OneStarts' BY <2>1, <2>4, CallerMoves DEF MockInv, OneStarts
    <3> QED BY <1>4, <2>1, <2>4, <3>1, CallerMoves DEF Mock!Started, MockInv, MockTypes
  <2> QED BY <1>4, <2>3, <2>4 DEF Mock!Started
<1>5. ASSUME NEW c \in Calls, Mock!Register(c) PROVE MockInv'
  BY <1>5 DEF Mock!Register, Mock!Goto, MockAssumption, MockInv, MockTypes, OneStarts, TokensLast
<1>6. ASSUME NEW n \in Mock!Servers, Mock!Bind(n) PROVE MockInv'
  <2>1. server[n] # "listening" BY <1>6 DEF Mock!Bind
  <2>2. OneStarts' BY <1>6, <2>1 DEF Mock!Bind, MockInv, MockTypes, OneStarts
  <2> QED BY <1>6, <2>2 DEF Mock!Bind, MockInv, MockTypes, TokensLast
<1>7. ASSUME NEW t \in Calls, NEW method \in {"GET", "OPTIONS"}, Mock!Handle(t, method)
      PROVE  MockInv'
  <2> DEFINE ask == asks[t]
  <2>1. /\ mock[t].pc = "sent" /\ cell \in Mock!Servers /\ mock[t].at = cell
        /\ t \in specs[cell] \/ ask.taken
        /\ ask \in [n : Nat, taken : BOOLEAN, served : Nat, early : BOOLEAN]
        /\ UNCHANGED <<cell, server, mock>>
    BY <1>7 DEF Mock!Handle, MockInv, MockTypes, TokensLast
  <2>2. OneStarts' BY <2>1 DEF MockInv, OneStarts
  <2>3. CASE asks' = [asks EXCEPT ![t].n = @ + 1] /\ UNCHANGED specs
    BY <2>1, <2>2, <2>3 DEF MockInv, MockTypes, TokensLast
  <2>4. ASSUME ~(asks' = [asks EXCEPT ![t].n = @ + 1] /\ UNCHANGED specs)
        PROVE  \E heard \in {0, 1} :
                  LET knows == t \in specs[cell]
                      takes == Mock!Consumes(method) /\ knows
                  IN  /\ specs' = [specs EXCEPT ![cell] = IF takes THEN @ \ {t} ELSE @]
                      /\ asks' = [asks EXCEPT ![t] =
                                    [n |-> @.n + 1, taken |-> @.taken \/ method = "GET",
                                     served |-> @.served
                                                  + (IF takes /\ method = "GET" THEN heard ELSE 0),
                                     early |-> @.early \/ (method = "GET" /\ ~knows /\ ~@.taken)]]
    BY <1>7, <2>1, <2>4 DEF Mock!Handle
  <2>5. ASSUME NEW heard \in {0, 1}, method = "OPTIONS",
               specs' = [specs EXCEPT ![cell] = @],
               asks' = [asks EXCEPT ![t] = [n |-> @.n + 1, taken |-> @.taken \/ FALSE,
                                            served |-> @.served + 0, early |-> @.early \/ FALSE]]
        PROVE  MockInv'
    BY <2>1, <2>2, <2>5 DEF MockInv, MockTypes, TokensLast
  <2>6. ASSUME NEW heard \in {0, 1}, method = "GET", t \notin specs[cell],
               specs' = [specs EXCEPT ![cell] = @],
               asks' = [asks EXCEPT ![t] = [n |-> @.n + 1, taken |-> TRUE,
                                            served |-> @.served + 0, early |-> @.early \/ ~@.taken]]
        PROVE  MockInv'
    BY <2>1, <2>2, <2>6 DEF MockInv, MockTypes, TokensLast
  <2>7. ASSUME NEW heard \in {0, 1}, method = "GET", t \in specs[cell],
               specs' = [specs EXCEPT ![cell] = @ \ {t}],
               asks' = [asks EXCEPT ![t] = [n |-> @.n + 1, taken |-> TRUE,
                                            served |-> @.served + heard, early |-> @.early \/ FALSE]]
        PROVE  MockInv'
    BY <2>1, <2>2, <2>7 DEF MockInv, MockTypes, TokensLast
  <2> QED BY <2>3, <2>4, <2>5, <2>6, <2>7 DEF Mock!Consumes
<1> QED
  BY <1>1, <1>2, <1>3, <1>4, <1>5, <1>6, <1>7, StartKeeps DEF Mock!Next

-----------------------------------------------------------------------------
(* The parts side by side.  A behaviour of the whole is one of each part: its *)
(* steps are those of the part or leave it alone.                            *)

LEMMA RestStepsAside ==
    UNCHANGED partVars =>
        /\ UNCHANGED vars /\ UNCHANGED Refs!vars /\ UNCHANGED Input!vars
        /\ UNCHANGED Events!vars /\ UNCHANGED Loads!vars
        /\ UNCHANGED Bodies!vars /\ UNCHANGED Turns!vars /\ UNCHANGED Socket!vars
        /\ UNCHANGED Keys!vars /\ UNCHANGED Aim!vars /\ UNCHANGED Either!vars
        /\ UNCHANGED Hover!vars /\ UNCHANGED Mock!vars /\ UNCHANGED moving
<1> SUFFICES ASSUME UNCHANGED partVars
             PROVE  /\ UNCHANGED vars /\ UNCHANGED refVars /\ UNCHANGED inputVars
                    /\ UNCHANGED eventVars /\ UNCHANGED loadVars /\ UNCHANGED diagVars
                    /\ UNCHANGED socketVars /\ UNCHANGED keyVars /\ UNCHANGED aimVars
                    /\ UNCHANGED commandVars /\ UNCHANGED hoverVars /\ UNCHANGED mockVars
                    /\ UNCHANGED moving
  BY DEF Refs!vars, Input!vars, Events!vars, Loads!vars, Bodies!vars, Turns!vars, Socket!vars,
         Keys!vars, Aim!vars, Either!vars, Hover!vars, Mock!vars,
         refVars, inputVars, eventVars, loadVars, diagVars, socketVars, keyVars,
         aimVars, commandVars, hoverVars, mockVars
<1> QED BY DEF partVars

LEMMA ConnectionMoves == PartsSpec => Spec
<1>1. PartsInit => Init BY DEF PartsInit
<1>2. [PartsNext]_partVars => [Next]_vars BY RestStepsAside DEF PartsNext
<1> QED BY <1>1, <1>2, PTL DEF PartsSpec, Spec

LEMMA RefsMove == PartsSpec => Refs!Spec
<1>1. PartsInit => Refs!Init BY DEF PartsInit
<1>2. [PartsNext]_partVars => [Refs!Next]_(Refs!vars)
  BY RestStepsAside DEF PartsNext, refVars, Refs!vars
<1> QED BY <1>1, <1>2, PTL DEF PartsSpec, Refs!Spec

LEMMA InputMoves == PartsSpec => Input!Spec
<1>1. PartsInit => Input!Init BY DEF PartsInit
<1>2. [PartsNext]_partVars => [Input!Next]_(Input!vars)
  BY RestStepsAside DEF PartsNext, inputVars, Input!vars
<1> QED BY <1>1, <1>2, PTL DEF PartsSpec, Input!Spec

LEMMA EventsMove == PartsSpec => Events!Spec
<1>1. PartsInit => Events!Init BY DEF PartsInit
<1>2. [PartsNext]_partVars => [Events!Next]_(Events!vars)
  BY RestStepsAside DEF PartsNext, eventVars, Events!vars
<1> QED BY <1>1, <1>2, PTL DEF PartsSpec, Events!Spec

LEMMA LoadsMove == PartsSpec => Loads!Spec
<1>1. PartsInit => Loads!Init BY DEF PartsInit
<1>2. [PartsNext]_partVars => [Loads!Next]_(Loads!vars)
  BY RestStepsAside DEF PartsNext, loadVars, Loads!vars
<1> QED BY <1>1, <1>2, PTL DEF PartsSpec, Loads!Spec

LEMMA SocketMoves == PartsSpec => Socket!Spec
<1>1. PartsInit => Socket!Init BY DEF PartsInit
<1>2. [PartsNext]_partVars => [Socket!Next]_(Socket!vars)
  BY RestStepsAside DEF PartsNext, socketVars, Socket!vars
<1> QED BY <1>1, <1>2, PTL DEF PartsSpec, Socket!Spec

LEMMA KeysMove == PartsSpec => Keys!Spec
<1>1. PartsInit => Keys!Init BY DEF PartsInit
<1>2. [PartsNext]_partVars => [Keys!Next]_(Keys!vars)
  BY RestStepsAside DEF PartsNext, keyVars, Keys!vars
<1> QED BY <1>1, <1>2, PTL DEF PartsSpec, Keys!Spec

LEMMA AimMoves == PartsSpec => Aim!Spec
<1>1. PartsInit => Aim!Init BY DEF PartsInit
<1>2. [PartsNext]_partVars => [Aim!Next]_(Aim!vars)
  BY RestStepsAside DEF PartsNext, aimVars, Aim!vars
<1> QED BY <1>1, <1>2, PTL DEF PartsSpec, Aim!Spec

LEMMA HoverMoves == PartsSpec => Hover!Spec
<1>1. PartsInit => Hover!Init BY DEF PartsInit
<1>2. [PartsNext]_partVars => [Hover!Next]_(Hover!vars)
  BY RestStepsAside DEF PartsNext, hoverVars, Hover!vars
<1> QED BY <1>1, <1>2, PTL DEF PartsSpec, Hover!Spec

LEMMA MockMoves == PartsSpec => Mock!Spec
<1>1. PartsInit => Mock!Init BY DEF PartsInit
<1>2. [PartsNext]_partVars => [Mock!Next]_(Mock!vars)
  BY RestStepsAside DEF PartsNext, mockVars, Mock!vars
<1> QED BY <1>1, <1>2, PTL DEF PartsSpec, Mock!Spec

\* Both instances of the commands take steps of the one that has them all.
LEMMA CommandsMove ==
    ASSUME CommandsAssumption
    PROVE  /\ PartsInit => CommandInv
           /\ CommandInv /\ [PartsNext]_partVars => CommandInv'
<1>1. ASSUME PartsInit PROVE Either!Init
  <2>1. Waits!Init \/ Devices!Init BY <1>1 DEF PartsInit
  <2>2. Waits!Init => Either!Init
    BY DEF Waits!Init, Either!Init, Waits!Plain, Either!Plain, Waits!Idle, Either!Idle,
       Waits!Elements, Either!Elements
  <2>3. Devices!Init => Either!Init
    BY DEF Devices!Init, Either!Init, Devices!Plain, Either!Plain, Devices!Idle, Either!Idle,
       Devices!Elements, Either!Elements
  <2> QED BY <2>1, <2>2, <2>3
<1>2. ASSUME CommandInv, [PartsNext]_partVars PROVE [Either!Next]_(Either!vars)
  <2>1. CASE UNCHANGED partVars BY <2>1, RestStepsAside
  <2>2. CASE PartsNext /\ moving = "waits"
    <3>1. Waits!Next BY <2>2 DEF PartsNext
    <3> QED BY <1>2, <3>1, WaitsAreCommands DEF CommandInv
  <2>3. CASE PartsNext /\ moving = "devices"
    <3>1. Devices!Next BY <2>3 DEF PartsNext
    <3> QED BY <3>1, DevicesAreCommands
  <2>4. CASE PartsNext /\ moving \notin {"waits", "devices"}
    BY <2>4 DEF PartsNext, commandVars, Either!vars
  <2> QED BY <1>2, <2>1, <2>2, <2>3, <2>4
<1> QED BY <1>1, <1>2, InitCommands, StepKeepsCommands

LEMMA TurnsMove == PartsSpec /\ moving = "turns" => Turns!Spec /\ [](moving = "turns")
<1>1. PartsInit /\ moving = "turns" => Turns!Init BY DEF PartsInit
<1>2. [PartsNext]_partVars /\ moving = "turns" => [Turns!Next]_(Turns!vars) /\ (moving = "turns")'
  BY RestStepsAside DEF PartsNext
<1> QED BY <1>1, <1>2, PTL DEF PartsSpec, Turns!Spec

LEMMA BodiesMove == PartsSpec /\ moving # "turns" => Bodies!Spec /\ [](moving # "turns")
<1>1. PartsInit /\ moving # "turns" => Bodies!Init BY DEF PartsInit
<1>2. [PartsNext]_partVars /\ moving # "turns" => [Bodies!Next]_(Bodies!vars) /\ (moving # "turns")'
  BY RestStepsAside DEF PartsNext, diagVars, Bodies!vars
<1> QED BY <1>1, <1>2, PTL DEF PartsSpec, Bodies!Spec

\* Click, fill, press and upload of a reference that is not stale hit the document it was
\* read in, or an event under way takes it out: whatever the page and its frames did, and
\* whichever sessions of a frame are registered (page_control.rs, RefStore).
THEOREM ReferencesAreOfThePage == PartsSpec => []RefsDescribeThePage
<1>1. RefsAssumption BY PartsAssumption DEF RefsAssumption, Refs!Sess
<1>2. Refs!Init => RefInv BY <1>1, InitRefs
<1>3. RefInv /\ [Refs!Next]_(Refs!vars) => RefInv' BY <1>1, StepKeepsRefs
<1>4. RefInv => Refs!RefsDescribeThePage BY <1>1, RefInvImplies
<1>5. Refs!Spec => []Refs!RefsDescribeThePage BY <1>2, <1>3, <1>4, PTL DEF Refs!Spec
<1> QED BY <1>5, RefsMove, PTL DEF RefsDescribeThePage

\* No click and no key is left down by a call that ended without saying so, whatever
\* is refused, not heard of or cut short (page_service.rs, dispatch_click).
THEOREM CallsReleaseWhatTheyPress == PartsSpec => []NothingStaysDown
<1>1. InputInv => Input!NothingStaysDown BY DEF InputInv, DownInv, Input!NothingStaysDown
<1>2. Input!Spec => []Input!NothingStaysDown
  BY <1>1, InitInput, StepKeepsInput, PTL DEF Input!Spec
<1> QED BY <1>2, InputMoves, PTL DEF NothingStaysDown

\* What a fill types goes to its field, unless the page moves the focus between the clear
\* and the typing; and a fill that has typed elsewhere fails, unless the page works on the
\* field as well (page_service.rs, fill_pipeline, fill_clear_expr, fill_verify_expr).
THEOREM FillsStayInTheirFields == PartsSpec => []FillStaysInItsField
<1>1. FillInv => Input!FillStaysInItsField BY DEF FillInv, Input!FillStaysInItsField
<1>2. InputInv => InputTypes BY DEF InputInv
<1>3. Input!Spec => []Input!FillStaysInItsField
  BY <1>1, <1>2, InitInput, StepKeepsInput, InitFill, StepKeepsFill, PTL DEF Input!Spec
<1> QED BY <1>3, InputMoves, PTL DEF FillStaysInItsField

\* A request that the browser has paused is before the loop or in its hands, until it
\* is let go: whatever fails, and while rules are replaced and cleared (page_service.rs,
\* on_request_paused).  One that a rule sends to the server that mocks gets what that rule
\* was registered with, and nobody else does, however many callers start the server at
\* once, and when it has to be started again (fetch_mock.rs, ensure_started, register).
THEOREM RequestsGetTheirAnswers == PartsSpec => []RequestsAreServed
<1>1. EventInv => Events!NobodyIsLeftPaused BY DEF EventInv
<1>2. Events!Spec => []Events!NobodyIsLeftPaused
  BY <1>1, InitEvents, StepKeepsEvents, PTL DEF Events!Spec
<1>3. MockAssumption BY PartsAssumption DEF MockAssumption, Mock!Servers
<1>4. Mock!Init => MockInv BY <1>3, InitMock
<1>5. MockInv /\ [Mock!Next]_(Mock!vars) => MockInv' BY <1>3, StepKeepsMock
<1>6. MockInv => Mock!MockAnswersOnce BY <1>3, MockInvImplies
<1>7. Mock!Spec => []Mock!MockAnswersOnce BY <1>4, <1>5, <1>6, PTL DEF Mock!Spec
<1> QED BY <1>2, <1>7, EventsMove, MockMoves, PTL DEF RequestsAreServed

\* A tool that succeeds while nothing moves has met the node it was told of, in the frame
\* and at the point of it, however the frames came, moved to other processes and went before
\* it began; wait, loadall and emulate report what they saw, and the device they left the
\* tab with; a scan for hovering that missed something says that it was cut, whatever the
\* page does between two answers (page_service.rs, live_frame_session, project_to_main,
\* wait_tool, loadall_tool, emulate_tool, hover_scan).
THEOREM ToolsReportWhatIsSo == PartsSpec => []ToolsTellTheTruth
<1>1. AimAssumption /\ CommandsAssumption /\ HoverAssumption
  BY PartsAssumption DEF AimAssumption, CommandsAssumption, HoverAssumption
<1>2. PartsSpec => []Aim!AimIsTrue
  <2>1. Aim!Init => AimInv BY <1>1, InitAim
  <2>2. AimInv /\ [Aim!Next]_(Aim!vars) => AimInv' BY <1>1, StepKeepsAim
  <2>3. AimInv => Aim!AimIsTrue BY DEF AimInv, CallInv
  <2> QED BY <2>1, <2>2, <2>3, AimMoves, PTL DEF Aim!Spec
<1>3. PartsSpec => [](Waits!CommandsTellTheTruth /\ Devices!CommandsTellTheTruth)
  <2>1. PartsInit => CommandInv BY <1>1, CommandsMove
  <2>2. CommandInv /\ [PartsNext]_partVars => CommandInv' BY <1>1, CommandsMove
  <2>3. CommandInv => Waits!CommandsTellTheTruth /\ Devices!CommandsTellTheTruth
    BY CommandInvImplies, BothTellTheTruth
  <2> QED BY <2>1, <2>2, <2>3, PTL DEF PartsSpec
<1>4. PartsSpec => []Hover!ScanIsHonest
  <2>1. HoverInv /\ [Hover!Next]_(Hover!vars) => HoverInv' BY <1>1, StepKeepsHover
  <2>2. HoverInv => Hover!ScanIsHonest BY DEF HoverInv
  <2> QED BY <2>1, <2>2, InitHover, HoverMoves, PTL DEF Hover!Spec
<1>5. Aim!AimIsTrue /\ Waits!CommandsTellTheTruth /\ Devices!CommandsTellTheTruth
        /\ Hover!ScanIsHonest => ToolsTellTheTruth
  BY DEF ToolsTellTheTruth
<1> QED BY <1>2, <1>3, <1>4, <1>5, PTL

\* A navigation does not miss the load event of the document it has brought about: its
\* waiter is entered before its command is sent (page_service.rs, register_load_waiter).
THEOREM NavigationsHearTheLoad == PartsSpec => []LoadIsNotMissed
<1>1. Loads!Spec => []Loads!LoadIsNotMissed
  BY LoadInvImplies, InitLoads, StepKeepsLoads, PTL DEF Loads!Spec
<1> QED BY <1>1, LoadsMove, PTL DEF LoadIsNotMissed

\* A key that expires is swept by a round that audits it, or refused by a request that
\* does (cdp_session.rs, sweep_once, validate).
THEOREM ExpiredKeysAreAudited == PartsSpec => []ExpiryIsAudited
<1>1. KeyInv => Keys!ExpiryIsAudited BY DEF KeyInv
<1>2. Keys!Spec => []Keys!ExpiryIsAudited BY <1>1, InitKeys, StepKeepsKeys, PTL DEF Keys!Spec
<1> QED BY <1>2, KeysMove, PTL DEF ExpiryIsAudited

\* The table of a socket holds exactly the commands that wait for an answer, and the
\* lock of a record is held exactly while a command runs behind it: whoever is dropped
\* at an await leaves neither (ws.rs, PendingGuard; page_service.rs, command).
THEOREM DroppedCommandsLeaveNothing == PartsSpec => []TableMatchesWaiters
<1>1. PartsSpec => []Socket!TableMatchesWaiters
  BY SocketMoves, Socket!TableIsTheWaiters, PTL
<1>2. PartsSpec => []LocksEndWithCommands BY ConnectionMoves, LocksAreGivenBack, PTL
<1> QED BY <1>1, <1>2, PTL DEF TableMatchesWaiters

\* The newest watcher of a running instance is the one queries are sent to, whatever
\* the old ones do on their way out (diagnostics_service.rs, watch_loop).
THEOREM WatchersFollowEachOther == PartsSpec => []NewestIsRegistered
<1>1. Turns!Spec => []Turns!NewestIsRegistered
  BY Turns!NewestWatcherIsRegistered, PartsAssumption
<1>2. Bodies!Spec => []Bodies!NewestIsRegistered
  BY Bodies!NewestWatcherIsRegistered, PartsAssumption
<1>3. moving = "turns" /\ Turns!NewestIsRegistered => NewestIsRegistered BY DEF NewestIsRegistered
<1>4. moving # "turns" /\ Bodies!NewestIsRegistered => NewestIsRegistered BY DEF NewestIsRegistered
<1>5. PartsSpec /\ moving = "turns" => []NewestIsRegistered BY <1>1, <1>3, TurnsMove, PTL
<1>6. PartsSpec /\ moving # "turns" => []NewestIsRegistered BY <1>2, <1>4, BodiesMove, PTL
<1>7. moving = "turns" \/ moving # "turns" OBVIOUS
<1> QED BY <1>5, <1>6, <1>7, PTL

\* The ledger of every buffer is what its ring carries, within the budget, and no entry
\* waits for a body that nobody fetches, through a burst over the backlog, a lost
\* connection and a new generation (diagnostics_service.rs, dispatch_body_fetch).
THEOREM BodiesAreKeptTrackOf == PartsSpec => []BodiesAreAccountedFor
<1>1. Turns!DiagnosticsAssumption
  <2>1. \A q \in TurnRequests : q.sid \in TurnSessions BY DEF TurnRequests
  <2> QED BY <2>1, PartsAssumption DEF Turns!DiagnosticsAssumption, Turns!Limits
<1>2. Bodies!DiagnosticsAssumption
  <2>1. \A q \in BodyRequests : q.sid \in BodySessions BY DEF BodyRequests
  <2> QED BY <2>1, PartsAssumption DEF Bodies!DiagnosticsAssumption, Bodies!Limits
<1>3. Turns!Spec => [](Turns!BooksBalance /\ Turns!NobodyHangs) BY <1>1, Turns!BooksAreKept
<1>4. Bodies!Spec => [](Bodies!BooksBalance /\ Bodies!NobodyHangs) BY <1>2, Bodies!BooksAreKept
<1>5. moving = "turns" /\ Turns!BooksBalance /\ Turns!NobodyHangs => BodiesAreAccountedFor
  BY DEF BodiesAreAccountedFor
<1>6. moving # "turns" /\ Bodies!BooksBalance /\ Bodies!NobodyHangs => BodiesAreAccountedFor
  BY DEF BodiesAreAccountedFor
<1>7. PartsSpec /\ moving = "turns" => []BodiesAreAccountedFor BY <1>3, <1>5, TurnsMove, PTL
<1>8. PartsSpec /\ moving # "turns" => []BodiesAreAccountedFor BY <1>4, <1>6, BodiesMove, PTL
<1>9. moving = "turns" \/ moving # "turns" OBVIOUS
<1> QED BY <1>7, <1>8, <1>9, PTL
=============================================================================
