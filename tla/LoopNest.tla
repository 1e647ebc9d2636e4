------------------------------- MODULE LoopNest -------------------------------
(***************************************************************************)
(* What a layer run promises, whatever its overlap modes: the loop nest    *)
(*                                                                         *)
(*    for each block of COUT_TILE output channels                          *)
(*      for each tile of K_TILE reduction rows: one pass of the array      *)
(*                                                                         *)
(* gives the core every pass once and in order, each with the PSUM bank    *)
(* that its place in the reduction calls for, and the run ends only when   *)
(* the sums of every pass were collected.                                  *)
(***************************************************************************)
EXTENDS Naturals

CONSTANTS K_TILE, COUT_TILE, Layers

VARIABLES
  running,      \* is a layer being run?
  layer,        \* its k_total, cout_total and modes
  given,        \* how many passes the core has been given
  current,      \* the pass it was given last
  collected     \* how many passes' sums were collected

loopVars == <<running, layer, given, current, collected>>

CeilDiv(n, d) == (n + d - 1) \div d
KPasses(l) == CeilDiv(l.k_total, K_TILE)
Total(l) == CeilDiv(l.cout_total, COUT_TILE) * KPasses(l)

\* Pass n, counted from zero.  A partial pass writes the bank of its own place
\* in the reduction, the next pass reads it back from there.
Pass(l, n) ==
  LET k == n % KPasses(l)
  IN [cout |-> (n \div KPasses(l)) * COUT_TILE, k |-> k * K_TILE,
      wr_bank |-> k % 2, first |-> k = 0, final |-> k = KPasses(l) - 1]

Begin ==
  /\ ~running /\ running'
  /\ layer' \in Layers /\ given' = 0 /\ collected' = 0
  /\ UNCHANGED current

\* One edge may give the core a pass and collect an earlier one.  In the drained
\* modes a pass is given only when at most the one before it is uncollected.
Work ==
  /\ running /\ running' /\ UNCHANGED layer
  /\ \/ /\ given < Total(layer) /\ given' = given + 1
        /\ current' = Pass(layer, given)
        /\ layer.continuous_psum_enable \/ given <= collected + 1
     \/ UNCHANGED <<given, current>>
  /\ \/ UNCHANGED collected
     \/ collected < given /\ collected' = collected + 1

End ==
  /\ running /\ ~running'
  /\ given = Total(layer) /\ collected = Total(layer)
  /\ UNCHANGED <<layer, given, current, collected>>

LoopInit == ~running /\ given = 0 /\ collected = 0

LoopSpec == LoopInit /\ [][Begin \/ Work \/ End]_loopVars
=============================================================================
