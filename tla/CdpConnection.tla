---------------------------- MODULE CdpConnection ----------------------------
(***************************************************************************)
(* One connection to a browser, shared by many senders.  A sender enters its *)
(* command in a table, writes the frame under a short lock and waits for the *)
(* answer a reader task routes to it; whoever started it may drop it at any  *)
(* await, and a guard takes its entry out then.  When the socket ends, the   *)
(* reader wakes whoever is in the table, once, and is gone.                  *)
(*                                                                           *)
(* A sender sends one command: ids are not reused.  Left out: events (they   *)
(* do not touch the table), what the commands are.                           *)
(*                                                                           *)
(* Code: infrastructure/cdp/ws.rs.                                           *)
(***************************************************************************)
EXTENDS Naturals, FiniteSets

CONSTANT Senders

VARIABLES
    sender,   \* per command its place and the answer that waits for it
    table,    \* pending: the commands the reader can route an answer to
    writing,  \* who holds the write half
    asked,    \* the commands the browser has and has not answered
    socket,   \* "open", "closed"
    reader,   \* "reads", "drains", "gone"
    late      \* commands entered after the last drain (history)

vars == <<sender, table, writing, asked, socket, reader, late>>

Answers == {"none", "result", "refused", "closed"}
Ended == {"result", "refused", "closed", "timeout", "unwritten", "dropped"}

TypeOK ==
    /\ sender \in [Senders -> [pc : {"new", "lock", "write", "wait"} \cup Ended, answer : Answers]]
    /\ table \subseteq Senders
    /\ writing \subseteq Senders /\ Cardinality(writing) <= 1
    /\ asked \subseteq Senders
    /\ socket \in {"open", "closed"}
    /\ reader \in {"reads", "drains", "gone"}
    /\ late \subseteq Senders

Init ==
    /\ sender = [s \in Senders |-> [pc |-> "new", answer |-> "none"]]
    /\ table = {}
    /\ writing = {}
    /\ asked = {}
    /\ socket = "open"
    /\ reader = "reads"
    /\ late = {}

At(s, pc) == sender[s].pc = pc
Goto(s, pc) == sender' = [sender EXCEPT ![s].pc = pc]

-----------------------------------------------------------------------------
(* send.                                                                     *)

Enter(s) ==
    /\ At(s, "new")
    /\ table' = table \cup {s}
    /\ late' = IF reader = "gone" THEN late \cup {s} ELSE late
    /\ Goto(s, "lock")
    /\ UNCHANGED <<writing, asked, socket, reader>>

Lock(s) ==
    /\ At(s, "lock")
    /\ writing = {}
    /\ writing' = {s}
    /\ Goto(s, "write")
    /\ UNCHANGED <<table, asked, socket, reader, late>>

\* seeded fault: only an answer takes an entry out of the table.
Unguarded(s) == table
\* PendingGuard: every way out takes the entry along.
Guarded(s) == table \ {s}

Leaves(s, how) ==
    /\ sender' = [sender EXCEPT ![s] = [pc |-> how, answer |-> "none"]]
    /\ table' = Guarded(s)
    /\ writing' = writing \ {s}

\* A closed socket may take the frame into its buffer, or refuse it.
Write(s) ==
    /\ At(s, "write")
    /\ \/ /\ Goto(s, "wait")
          /\ writing' = {}
          /\ asked' = IF socket = "open" THEN asked \cup {s} ELSE asked
          /\ UNCHANGED table
       \/ socket = "closed" /\ Leaves(s, "unwritten") /\ UNCHANGED asked
    /\ UNCHANGED <<socket, reader, late>>

Answered(s) ==
    /\ At(s, "wait")
    /\ sender[s].answer # "none"
    /\ Leaves(s, sender[s].answer)
    /\ UNCHANGED <<asked, socket, reader, late>>

\* The limit of 15 s runs from the moment the frame is written.
Timeout(s) ==
    /\ At(s, "wait")
    /\ Leaves(s, "timeout")
    /\ UNCHANGED <<asked, socket, reader, late>>

\* The future is dropped at an await, by a shorter limit outside.
Drop(s) ==
    /\ sender[s].pc \in {"lock", "write", "wait"}
    /\ Leaves(s, "dropped")
    /\ UNCHANGED <<asked, socket, reader, late>>

-----------------------------------------------------------------------------
(* reader_loop.                                                              *)

\* An answer goes to its sender if it is still in the table, else nowhere.
Route(s) ==
    /\ reader = "reads"
    /\ s \in asked
    /\ asked' = asked \ {s}
    /\ table' = table \ {s}
    /\ \E a \in {"result", "refused"} :
          sender' = IF s \in table THEN [sender EXCEPT ![s].answer = a] ELSE sender
    /\ UNCHANGED <<writing, socket, reader, late>>

\* The browser exits, or closes the connection.
Close ==
    /\ socket = "open"
    /\ socket' = "closed"
    /\ UNCHANGED <<sender, table, writing, asked, reader, late>>

\* After the frames that had arrived.
ReaderEnds ==
    /\ reader = "reads" /\ socket = "closed"
    /\ reader' = "drains"
    /\ UNCHANGED <<sender, table, writing, asked, socket, late>>

\* The table is emptied; who was in it is told that the connection has ended.
Drain ==
    /\ reader = "drains"
    /\ reader' = "gone"
    /\ table' = {}
    /\ sender' = [s \in Senders |-> IF s \in table THEN [sender[s] EXCEPT !.answer = "closed"]
                                    ELSE sender[s]]
    /\ UNCHANGED <<writing, asked, socket, late>>

-----------------------------------------------------------------------------
Next ==
    \/ \E s \in Senders :
          \/ Enter(s) \/ Lock(s) \/ Write(s) \/ Answered(s) \/ Timeout(s) \/ Drop(s) \/ Route(s)
    \/ Close \/ ReaderEnds \/ Drain

Spec == Init /\ [][Next]_vars

-----------------------------------------------------------------------------
(* Properties.                                                               *)

\* The table and the senders agree, whoever was dropped where and whatever came
\* late: an entry is a command under way that has no answer yet (PendingGuard),
\* and once the reader is gone nobody waits in vain for it (reader_loop wakes
\* them all), but who entered after the last drain: that one has its limit only.
TableMatchesWaiters ==
    /\ \A s \in table : sender[s].pc \in {"lock", "write", "wait"} /\ sender[s].answer = "none"
    /\ reader = "gone" =>
          \A s \in Senders \ late : At(s, "wait") => sender[s].answer # "none"
=============================================================================
