---------------------------- MODULE MoldSession ----------------------------
(***************************************************************************)
(* What a client of a MoldUDP64 session may rely on, whoever serves it and *)
(* however: a sequence of messages numbered from 1 that only grows,        *)
(* datagrams that carry it block by block, without gap or overlap,         *)
(* heartbeats that do not announce what has not been committed to, and an  *)
(* end after which nothing but the end is announced.                       *)
(***************************************************************************)
EXTENDS Integers, Sequences

CONSTANT Message

VARIABLES
  stream,     \* the messages numbered so far
  committed,  \* how many of them a heartbeat may announce
  handed,     \* how many of them have been handed to the network
  wire,       \* the datagrams the network took
  ended       \* the session is over

sessionVars == <<stream, committed, handed, wire, ended>>

\* The header's message count has 16 bits; its largest value ends a session.
MessageCount == 65536

Datagram(s, m, n) == [seq |-> s, msgs |-> m, count |-> n]

\* The committed messages that have not been handed over yet.
NextBlock ==
  Datagram(handed + 1, SubSeq(stream, handed + 1, committed),
           (committed - handed) % MessageCount)

SessionInit ==
  /\ stream = <<>>
  /\ committed = 0
  /\ handed = 0
  /\ wire = {}
  /\ ended = FALSE

Number ==
  /\ ~ended
  /\ \E m \in Message : stream' = Append(stream, m)
  /\ UNCHANGED <<committed, handed, wire, ended>>

Commit ==
  /\ ~ended
  /\ committed' = Len(stream)
  /\ UNCHANGED <<stream, handed, wire, ended>>

\* The network may lose what it is handed.
Hand ==
  /\ ~ended
  /\ wire' = wire \/ wire' = wire \cup {NextBlock}
  /\ handed' = committed
  /\ UNCHANGED <<stream, committed, ended>>

\* A heartbeat may be late, never early.
Heartbeat ==
  /\ ~ended
  /\ \E n \in 0 .. committed : wire' = wire \cup {Datagram(n + 1, <<>>, 0)}
  /\ UNCHANGED <<stream, committed, handed, ended>>

End ==
  /\ handed = Len(stream)
  /\ ended' = TRUE
  /\ UNCHANGED <<stream, committed, handed, wire>>

AnnounceEnd ==
  /\ ended
  /\ wire' = wire \cup {Datagram(Len(stream) + 1, <<>>, MessageCount - 1)}
  /\ UNCHANGED <<stream, committed, handed, ended>>

SessionNext == Number \/ Commit \/ Hand \/ Heartbeat \/ End \/ AnnounceEnd

SessionSpec == SessionInit /\ [][SessionNext]_sessionVars

=============================================================================
