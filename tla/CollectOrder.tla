----------------------------- MODULE CollectOrder -----------------------------
(***************************************************************************)
(* What the collection of partial sums promises: contexts are collected in *)
(* the order in which they were accepted, each one packet by packet, and a *)
(* packet carries its own context, address and word.  After a word of      *)
(* uncertain identity nothing is handed over any more.                     *)
(***************************************************************************)
EXTENDS Naturals, Sequences

CONSTANTS
  Context,          \* the contexts
  Packet(_, _),     \* Packet(c, n): packet n of context c, counted from zero
  Packets(_),       \* Packets(c): how many there are
  NoContext, NoPacket

VARIABLES
  waiting,      \* contexts accepted and not complete, oldest first
  next,         \* packets of the oldest one that were handed over
  stopped,      \* was a word of uncertain identity seen?
  handed,       \* the packet that the last edge handed over
  completed     \* the context that the last edge completed

orderVars == <<waiting, next, stopped, handed, completed>>

OrderInit ==
  /\ waiting = <<>> /\ next = 0 /\ ~stopped
  /\ handed = NoPacket /\ completed = NoContext

\* An edge may accept a context at the tail of what is left.
AcceptBehind(rest) ==
  \/ waiting' = rest
  \/ ~stopped /\ \E c \in Context : waiting' = Append(rest, c)

Wait ==
  /\ handed' = NoPacket /\ completed' = NoContext /\ next' = next
  /\ AcceptBehind(waiting)

Hand ==
  /\ waiting # <<>> /\ ~stopped
  /\ handed' = Packet(Head(waiting), next)
  /\ \/ /\ next + 1 < Packets(Head(waiting))
        /\ next' = next + 1 /\ completed' = NoContext
        /\ AcceptBehind(waiting)
     \/ /\ next + 1 = Packets(Head(waiting))
        /\ next' = 0 /\ completed' = Head(waiting)
        /\ AcceptBehind(Tail(waiting))

Clear ==
  /\ waiting' = <<>> /\ next' = 0 /\ ~stopped'
  /\ handed' = NoPacket /\ completed' = NoContext

OrderNext == ((Wait \/ Hand) /\ (stopped => stopped')) \/ Clear

OrderSpec == OrderInit /\ [][OrderNext]_orderVars
=============================================================================
