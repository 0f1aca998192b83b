------------------------------- MODULE PageParts -------------------------------
(***************************************************************************)
(* What talks to the browsers, side by side: the connection of page control  *)
(* with its sessions, the references, input, events and loads of a tab, what  *)
(* its tools aim at and report, the server that mocks, the resident           *)
(* diagnostics, the socket under both, and the keys of the CDP proxy.  In a   *)
(* behaviour the part that is moving moves, and the others rest where they    *)
(* begin: a property of one of them is about its behaviours.  The diagnostics *)
(* move in two instances: with the sessions and requests of the bodies, and   *)
(* with the watchers that follow each other; so do the commands: with wait    *)
(* and loadall, and with emulate.                                             *)
(***************************************************************************)
EXTENDS PageConnection

CONSTANTS
    TabFrames, Early, MaxDocs, MaxSess, MaxSnaps, MaxQueue,                \* PageRefs
    MaxTricks,                                                             \* PageInput
    PageRequests, Times, Cap, MaxSets, MaxDialogs,                         \* PageEvents
    MaxLoads,                                                              \* PageLoads
    BodyWatchers, BodySessions, BusySessions, MaxBodyChanges,              \* Diagnostics:
    TurnWatchers, TurnSessions, MaxChanges,                                \* bodies, turns
    PendingCap, RingCap, ItemMax, Budget, Permits, BacklogCap, MaxBody,    \* and both
    Senders,                                                               \* CdpConnection
    Instances, Sids,                                                       \* CdpSessions
    MaxMoves,                                                              \* PageAim
    Timeouts, Interval, MaxTime, MaxClicks, MaxEmulations,                 \* PageCommands
    Sheets, Texts, MaxSheets, MaxRules, MaxSheetChanges,                   \* HoverScan
    MaxStarts, MaxAsks                                                     \* MockUpstream

VARIABLES
    doc, frame, queue, table, orphan, store, snap, snaps, overtaken,       \* PageRefs
    input, down, handle, field, focus, astray, since, excuses, inputs,
    tricks,                                                                \* PageInput
    events, handling, dialog, raised, dialogs, fetching, request, rules,
    client, sets, unheard,                                                 \* PageEvents
    page, loads, loadWaiters, nav, navs, handled,                          \* PageLoads
    row, watched, watcherOf, watcher, buf, session, wire, fetch, changes,  \* Diagnostics
    sender, pending, writing, asked, socket, reader, late,                 \* CdpConnection
    running, key, proxied, sweep, audited,                                 \* CdpSessions
    there, box, aimTable, aim, moves,                                      \* PageAim
    element, clock, device, command, emulated, wanted,                     \* PageCommands
    sheets, text, window, scan, sheetChanges,                              \* HoverScan
    cell, server, mock, specs, asks,                                       \* MockUpstream
    moving                                                                 \* which moves

Refs == INSTANCE PageRefs WITH Frames <- TabFrames
Input == INSTANCE PageInput WITH call <- input, calls <- inputs
Events == INSTANCE PageEvents WITH
             Requests <- PageRequests, queue <- events, loop <- handling, buffer <- dialogs
Loads == INSTANCE PageLoads WITH
            MaxDocs <- MaxLoads, queue <- loads, waiters <- loadWaiters, call <- nav, calls <- navs

\* Every session has a request of the first id, and some have another one.
BodyRequests == {q \in [sid : BodySessions, rid : {1, 2}] : q.rid = 1 \/ q.sid \in BusySessions}
Bodies == INSTANCE Diagnostics_proofs WITH
             Watchers <- BodyWatchers, Sessions <- BodySessions, Requests <- BodyRequests,
             MaxChanges <- MaxBodyChanges, registry <- watcherOf
TurnRequests == [sid : TurnSessions, rid : {1}]
Turns == INSTANCE Diagnostics_proofs WITH
            Watchers <- TurnWatchers, Sessions <- TurnSessions, Requests <- TurnRequests,
            registry <- watcherOf
Socket == INSTANCE CdpConnection_proofs WITH table <- pending
Keys == INSTANCE CdpSessions WITH Callers <- Calls, session <- key, request <- proxied
Aim == INSTANCE PageAim WITH MaxChanges <- MaxMoves, table <- aimTable, changes <- moves
Waits == INSTANCE PageCommands WITH MaxCalls <- 0, call <- command, calls <- emulated
Devices == INSTANCE PageCommands WITH
              Timeouts <- {}, MaxClicks <- {}, MaxCalls <- MaxEmulations,
              call <- command, calls <- emulated
Hover == INSTANCE HoverScan WITH MaxChanges <- MaxSheetChanges, changes <- sheetChanges
Mock == INSTANCE MockUpstream WITH Callers <- Calls, call <- mock, asked <- asks

ASSUME PartsAssumption ==
    /\ None \notin PageRequests /\ None \notin BodyWatchers \cup TurnWatchers
    /\ BodyWatchers \cup TurnWatchers \subseteq Nat
    /\ None \notin TabFrames /\ IsFiniteSet(TabFrames)
    /\ None \notin 1..MaxSess /\ MaxSess \in Nat
    /\ None \notin 0..(MaxMoves + 1) /\ MaxMoves \in Nat
    /\ None \notin {"outer", "inner", "ok", "skipped"}
    /\ None \notin 1..MaxStarts /\ MaxClicks \subseteq Nat /\ MaxEmulations \in Nat
    /\ RingCap \in Nat \ {0} /\ {ItemMax, Budget, MaxBody} \subseteq Nat

refVars == <<doc, frame, queue, table, orphan, store, snap, snaps, overtaken>>
inputVars == <<input, down, handle, field, focus, astray, since, excuses, inputs, tricks>>
eventVars ==
    <<events, handling, dialog, raised, dialogs, fetching, request, rules, client, sets, unheard>>
loadVars == <<page, loads, loadWaiters, nav, navs, handled>>
diagVars == <<row, watched, watcherOf, watcher, buf, session, wire, fetch, changes>>
socketVars == <<sender, pending, writing, asked, socket, reader, late>>
keyVars == <<running, key, proxied, sweep, audited>>
aimVars == <<there, box, aimTable, aim, moves>>
commandVars == <<element, clock, device, command, emulated, wanted>>
hoverVars == <<sheets, text, window, scan, sheetChanges>>
mockVars == <<cell, server, mock, specs, asks>>
partVars ==
    <<vars, refVars, inputVars, eventVars, loadVars, diagVars, socketVars, keyVars,
      aimVars, commandVars, hoverVars, mockVars, moving>>

\* The parts that rest are in one of their initial states.
PartsInit ==
    /\ Init /\ Refs!Init /\ Input!Init /\ Events!Init /\ Loads!Init /\ Socket!Init /\ Keys!Init
    /\ Aim!Init /\ Hover!Init /\ Mock!Init
    /\ IF moving = "turns" THEN Turns!Init ELSE Bodies!Init
    /\ IF moving = "waits" THEN Waits!Init ELSE Devices!Init
    /\ moving # "refs" => \A f \in Early : frame[f].life = "new"
    /\ moving # "events" => ~dialog
    /\ moving # "loads" => page.ready
    /\ moving # "waits" => element = "hidden"
    /\ moving # "aim" => there["outer"] = 1
    /\ moving # "hover" => ~window /\ text = [s \in Sheets |-> CHOOSE t \in Texts : TRUE]

PartsNext ==
    /\ UNCHANGED moving
    /\ IF moving = "connection" THEN Next ELSE UNCHANGED vars
    /\ IF moving = "refs" THEN Refs!Next ELSE UNCHANGED refVars
    /\ IF moving = "input" THEN Input!Next ELSE UNCHANGED inputVars
    /\ IF moving = "events" THEN Events!Next ELSE UNCHANGED eventVars
    /\ IF moving = "loads" THEN Loads!Next ELSE UNCHANGED loadVars
    /\ CASE moving = "bodies" -> Bodies!Next
         [] moving = "turns"  -> Turns!Next
         [] OTHER             -> UNCHANGED diagVars
    /\ IF moving = "socket" THEN Socket!Next ELSE UNCHANGED socketVars
    /\ IF moving = "keys" THEN Keys!Next ELSE UNCHANGED keyVars
    /\ IF moving = "aim" THEN Aim!Next ELSE UNCHANGED aimVars
    /\ CASE moving = "waits"   -> Waits!Next
         [] moving = "devices" -> Devices!Next
         [] OTHER              -> UNCHANGED commandVars
    /\ IF moving = "hover" THEN Hover!Next ELSE UNCHANGED hoverVars
    /\ IF moving = "mock" THEN Mock!Next ELSE UNCHANGED mockVars

PartsSpec == PartsInit /\ [][PartsNext]_partVars

-----------------------------------------------------------------------------
\* A reference that may be used is of a document that is there (RefStore).
RefsDescribeThePage == Refs!RefsDescribeThePage

\* No call leaves a button or a key down (page_service.rs, dispatch_click).
NothingStaysDown == Input!NothingStaysDown

\* What a fill types goes to its field, or the fill fails (page_service.rs, fill_pipeline).
FillStaysInItsField == Input!FillStaysInItsField

\* A paused request is let go (page_service.rs, on_request_paused), and one that is
\* mocked gets the answer of its rule, once (fetch_mock.rs).
RequestsAreServed == Events!NobodyIsLeftPaused /\ Mock!MockAnswersOnce

\* The load event of a navigation is not missed (register_load_waiter).
LoadIsNotMissed == Loads!LoadIsNotMissed

\* The newest watcher is the registered one (diagnostics_service.rs, watch_loop).
NewestIsRegistered == IF moving = "turns" THEN Turns!NewestIsRegistered ELSE Bodies!NewestIsRegistered

\* The ledger of the bodies is what the ring carries (diagnostics.rs), and an
\* entry that waits for its body is settled (diagnostics_service.rs).
BodiesAreAccountedFor ==
    IF moving = "turns" THEN Turns!BooksBalance /\ Turns!NobodyHangs
    ELSE Bodies!BooksBalance /\ Bodies!NobodyHangs

\* The table of commands under way and those who wait agree (ws.rs, PendingGuard),
\* and so do the locks of the records (page_service.rs, command).
TableMatchesWaiters == Socket!TableMatchesWaiters /\ LocksEndWithCommands

\* The end of an expired key is audited (cdp_session.rs, sweep_once).
ExpiryIsAudited == Keys!ExpiryIsAudited

\* A tool meets the node it was told of, what wait, loadall and emulate report is
\* so, and a scan for hovering says when it has missed something (page_service.rs,
\* live_frame_session, wait_tool, loadall_tool, emulate_tool, hover_scan).
ToolsTellTheTruth ==
    /\ Aim!AimIsTrue
    /\ IF moving = "waits" THEN Waits!CommandsTellTheTruth ELSE Devices!CommandsTellTheTruth
    /\ Hover!ScanIsHonest
=============================================================================
