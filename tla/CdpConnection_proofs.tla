------------------------ MODULE CdpConnection_proofs ------------------------
(***************************************************************************)
(* The table of a connection and its senders agree, for any number of        *)
(* senders, wherever they are dropped and whenever the socket ends.          *)
(***************************************************************************)
EXTENDS CdpConnection, TLAPS

UnderWay == {"lock", "write", "wait"}

\* What the argument needs of the types.
SenderType ==
    /\ sender \in [Senders -> [pc : {"new"} \cup UnderWay \cup Ended, answer : Answers]]
    /\ table \subseteq Senders

\* The table is exactly who is under way and has no answer: who leaves takes its
\* entry along, who is answered has lost it.  TableMatchesWaiters says one half.
\* Who has not begun has no answer either.
EntriesAreOpen ==
    \A s \in Senders :
        /\ s \in table <=> sender[s].pc \in UnderWay /\ sender[s].answer = "none"
        /\ sender[s].pc = "new" => sender[s].answer = "none"

\* The last drain empties the table: what is in it since came after.
OnlyLateEntries == reader = "gone" => table \subseteq late

TableInv == SenderType /\ EntriesAreOpen /\ OnlyLateEntries

-----------------------------------------------------------------------------
LEMMA InitTable == Init => TableInv
  BY DEF Init, TableInv, SenderType, EntriesAreOpen, OnlyLateEntries, UnderWay, Answers

\* Why both halves of the property follow.
LEMMA TableInvImplies == TableInv => TableMatchesWaiters
  BY DEF TableInv, SenderType, EntriesAreOpen, OnlyLateEntries, TableMatchesWaiters, UnderWay, At

\* Every way out of send: the entry goes, and with it the answer.
LEMMA LeavingKeeps ==
    ASSUME TableInv, NEW s \in Senders, NEW how \in Ended, Leaves(s, how),
           UNCHANGED <<reader, late>>
    PROVE  TableInv'
<1> USE DEF TableInv, Leaves, Guarded
<1>1. SenderType' BY DEF SenderType, Answers
<1>2. EntriesAreOpen' BY DEF SenderType, EntriesAreOpen, UnderWay, Ended
<1>3. OnlyLateEntries' BY DEF OnlyLateEntries
<1> QED BY <1>1, <1>2, <1>3

LEMMA EnterKeeps ==
    ASSUME TableInv, NEW s \in Senders, Enter(s)
    PROVE  TableInv'
<1> USE DEF TableInv, Enter, At, Goto
<1>1. SenderType' BY DEF SenderType, UnderWay
<1>2. EntriesAreOpen' BY DEF SenderType, EntriesAreOpen, UnderWay
<1>3. OnlyLateEntries' BY DEF OnlyLateEntries
<1> QED BY <1>1, <1>2, <1>3

\* A sender that moves on keeps its entry, and its answer if it has one.
LEMMA MovingKeeps ==
    ASSUME TableInv, NEW s \in Senders, NEW pc \in UnderWay, sender[s].pc \in UnderWay,
           Goto(s, pc), UNCHANGED <<table, reader, late>>
    PROVE  TableInv'
<1> USE DEF TableInv, Goto
<1>1. SenderType' BY DEF SenderType
<1>2. EntriesAreOpen' BY DEF SenderType, EntriesAreOpen, UnderWay
<1>3. OnlyLateEntries' BY DEF OnlyLateEntries
<1> QED BY <1>1, <1>2, <1>3

LEMMA WriteKeeps ==
    ASSUME TableInv, NEW s \in Senders, Write(s)
    PROVE  TableInv'
<1>1. CASE Goto(s, "wait") /\ UNCHANGED table
  BY <1>1, MovingKeeps DEF Write, At, UnderWay
<1>2. CASE Leaves(s, "unwritten")
  BY <1>2, LeavingKeeps DEF Write, Ended
<1> QED BY <1>1, <1>2 DEF Write

LEMMA AnsweredKeeps ==
    ASSUME TableInv, NEW s \in Senders, Answered(s)
    PROVE  TableInv'
<1>1. sender[s].answer \in Ended
  BY DEF TableInv, SenderType, Answered, Answers, Ended
<1> QED BY <1>1, LeavingKeeps DEF Answered

\* Whoever is routed an answer loses its entry with it; nobody else is touched.
LEMMA RouteKeeps ==
    ASSUME TableInv, NEW s \in Senders, Route(s)
    PROVE  TableInv'
<1> USE DEF TableInv, Route
<1>1. PICK a \in {"result", "refused"} :
        sender' = IF s \in table THEN [sender EXCEPT ![s].answer = a] ELSE sender
  OBVIOUS
<1>2. SenderType' BY <1>1 DEF SenderType, Answers
<1>3. EntriesAreOpen' BY <1>1 DEF SenderType, EntriesAreOpen, UnderWay
<1>4. OnlyLateEntries' BY DEF OnlyLateEntries
<1> QED BY <1>2, <1>3, <1>4

LEMMA DrainKeeps ==
    ASSUME TableInv, Drain
    PROVE  TableInv'
<1> USE DEF TableInv, Drain
<1>1. SenderType' BY DEF SenderType, Answers
<1>2. EntriesAreOpen' BY DEF SenderType, EntriesAreOpen, UnderWay
<1>3. OnlyLateEntries' BY DEF OnlyLateEntries
<1> QED BY <1>1, <1>2, <1>3

LEMMA StepKeepsTable == TableInv /\ [Next]_vars => TableInv'
<1> SUFFICES ASSUME TableInv, [Next]_vars PROVE TableInv'
  OBVIOUS
<1>1. ASSUME NEW s \in Senders, Enter(s) \/ Write(s) \/ Answered(s) \/ Route(s)
      PROVE  TableInv'
  BY <1>1, EnterKeeps, WriteKeeps, AnsweredKeeps, RouteKeeps
<1>2. ASSUME NEW s \in Senders, Lock(s) PROVE TableInv'
  BY <1>2, MovingKeeps DEF Lock, At, UnderWay
<1>3. ASSUME NEW s \in Senders, Timeout(s) \/ Drop(s) PROVE TableInv'
  BY <1>3, LeavingKeeps DEF Timeout, Drop, Ended
<1>4. CASE Close \/ ReaderEnds
  BY <1>4 DEF Close, ReaderEnds, TableInv, SenderType, EntriesAreOpen, OnlyLateEntries
<1>5. CASE Drain BY <1>5, DrainKeeps
<1>6. CASE UNCHANGED vars
  BY <1>6 DEF vars, TableInv, SenderType, EntriesAreOpen, OnlyLateEntries
<1> QED BY <1>1, <1>2, <1>3, <1>4, <1>5, <1>6 DEF Next

\* An entry is a command under way without an answer, and when the reader is gone
\* nobody waits in vain but who came after its last drain (ws.rs, PendingGuard,
\* reader_loop), for any number of commands.
THEOREM TableIsTheWaiters == Spec => []TableMatchesWaiters
<1>1. Spec => []TableInv BY InitTable, StepKeepsTable, PTL DEF Spec
<1> QED BY <1>1, TableInvImplies, PTL
=============================================================================
