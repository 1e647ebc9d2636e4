-------------------------- MODULE SchedulerProofs --------------------------
(***************************************************************************)
(* Proofs about LayerScheduler, for every layer, tile size, mode and build *)
(* and however long each party takes: the registers stay in range, no      *)
(* pulse is lost, and the scheduler implements the loop nest of LoopNest.  *)
(*                                                                         *)
(* The argument.  Passes are numbered through the layer, block after       *)
(* block; Cur is the pass that the registers stand at, which is `given',   *)
(* the next one to give to the core, unless the core has taken it already  *)
(* (Taken) and with a fast handoff the one after it too (Handed).  The     *)
(* inductive invariant ties the registers to Cur (Position) and says, for  *)
(* each state and each party, what the party is doing: a pulse is on its   *)
(* wire, or the party works, or its result is there, exactly one of the    *)
(* three (the operators named ...Gone, ...Held and ...Comes), and the      *)
(* scheduler's notes of what it has seen agree.  First the arithmetic of   *)
(* the passes; then the invariant; then each state in turn; the safety     *)
(* invariant and the refinement at the end.                                *)
(***************************************************************************)
EXTENDS LayerScheduler, TLAPS

\* The loop nest's operators, under short names.
Passes(l) == Loop!KPasses(l)
Total(l) == Loop!Total(l)
Pass(l, n) == Loop!Pass(l, n)
Place(l, n) == n % Passes(l)

\* Division with remainder.
LEMMA Division ==
  ASSUME NEW n \in Nat, NEW d \in Nat \ {0}
  PROVE  /\ n \div d \in Nat /\ n % d \in 0 .. d - 1
         /\ n = d * (n \div d) + (n % d)
  BY SMTT(30)

\* One time d and the remaining times.
LEMMA OneTimeMore ==
  ASSUME NEW e \in Nat \ {0}, NEW d \in Nat
  PROVE  e * d = d + (e - 1) * d /\ (e - 1) * d \in Nat
  OBVIOUS

\* Quotient and remainder are the only ones.
LEMMA DivisionUnique ==
  ASSUME NEW d \in Nat \ {0}, NEW q \in Nat, NEW r \in 0 .. d - 1,
         NEW n \in Nat, n = d * q + r
  PROVE  n \div d = q /\ n % d = r
<1> DEFINE a == n \div d
           b == n % d
<1>1. a \in Nat /\ b \in 0 .. d - 1 /\ n = d * a + b
  BY Division
<1> HIDE DEF a, b
<1>2. d * a - d * q = d * (a - q) /\ d * a \in Nat /\ d * q \in Nat
  BY <1>1
<1>3. CASE a = q
  <2>1. d * a = d * q
    BY <1>3
  <2>2. b = r
    BY <2>1, <1>1, <1>2
  <2> QED BY <2>2, <1>3 DEF a, b
<1>4. CASE a > q
  <2>1. a - q >= 1 /\ a - q \in Nat
    BY <1>4, <1>1
  <2>2. d * (a - q) = d + d * (a - q - 1) /\ d * (a - q - 1) \in Nat
    BY <2>1
  <2> QED BY <2>2, <1>1, <1>2
<1>5. CASE a < q
  <2>1. q - a >= 1 /\ q - a \in Nat
    BY <1>5, <1>1
  <2>2. d * (q - a) = d + d * (q - a - 1) /\ d * (q - a - 1) \in Nat
    BY <2>1
  <2>3. d * q - d * a = d * (q - a)
    BY <1>1
  <2> QED BY <2>2, <2>3, <1>1, <1>2
<1> QED BY <1>1, <1>3, <1>4, <1>5

\* How often d goes into n, rounded up.
LEMMA CeilDivision ==
  ASSUME NEW n \in Nat \ {0}, NEW d \in Nat \ {0}
  PROVE  LET c == Loop!CeilDiv(n, d)
         IN c \in Nat \ {0} /\ (c - 1) * d < n /\ n <= c * d /\ c * d \in Nat
<1> DEFINE c == Loop!CeilDiv(n, d)
<1>1. c \in Nat /\ (n + d - 1) % d \in 0 .. d - 1
        /\ n + d - 1 = d * c + ((n + d - 1) % d)
  <2>1. n + d - 1 \in Nat
    OBVIOUS
  <2> QED BY <2>1, Division DEF Loop!CeilDiv
<1> HIDE DEF c
<1>2. (c - 1) * d = d * c - d /\ c * d = d * c /\ d * c \in Nat
  BY <1>1
<1>3. c # 0
  <2> SUFFICES ASSUME c = 0 PROVE FALSE
    OBVIOUS
  <2>1. d * c = 0
    BY <1>1
  <2> QED BY <2>1, <1>1
<1> QED BY <1>1, <1>2, <1>3 DEF c

\* A multiple of d reaches n at the last step of the division, not before.
LEMMA CeilReached ==
  ASSUME NEW n \in Nat \ {0}, NEW d \in Nat \ {0},
         NEW i \in Nat, i < Loop!CeilDiv(n, d)
  PROVE  /\ i * d \in Nat /\ i * d < n /\ (i + 1) * d = i * d + d
         /\ i * d + d >= n <=> i + 1 = Loop!CeilDiv(n, d)
         /\ i * d = 0 <=> i = 0
<1> DEFINE c == Loop!CeilDiv(n, d)
<1>1. c \in Nat \ {0} /\ (c - 1) * d < n /\ n <= c * d /\ c * d \in Nat
  BY CeilDivision
<1>0. i < c
  OBVIOUS
<1> HIDE DEF c
<1>2. i * d \in Nat /\ (i + 1) * d = i * d + d
  OBVIOUS
<1>3. c - 1 - i \in Nat /\ (c - 1) * d = i * d + (c - 1 - i) * d
        /\ (c - 1 - i) * d \in Nat
  BY <1>0, <1>1
<1>4. i + 1 = c => i * d + d = c * d
  BY <1>2
<1>5. i + 1 # c => i * d + d < n
  <2> SUFFICES ASSUME i + 1 # c PROVE i * d + d < n
    OBVIOUS
  <2>1. c - 1 - i \in Nat \ {0}
    BY <1>0, <1>1
  <2>2. (c - 1 - i) * d = d + (c - 1 - i - 1) * d /\ (c - 1 - i - 1) * d \in Nat
    BY <2>1, OneTimeMore
  <2> QED BY <2>2, <1>1, <1>2, <1>3
<1>6. i # 0 => i * d # 0
  OBVIOUS
<1>7. i = 0 => i * d = 0
  OBVIOUS
<1>8. i * d < n
  BY <1>1, <1>2, <1>3
<1> QED BY <1>1, <1>2, <1>4, <1>5, <1>6, <1>7, <1>8 DEF c

\* The first pass.
LEMMA FirstPass ==
  ASSUME NEW l \in Layers
  PROVE  /\ Total(l) \in Nat \ {0} /\ Passes(l) \in Nat \ {0}
         /\ Pass(l, 0).cout = 0 /\ Pass(l, 0).k = 0 /\ Place(l, 0) = 0
<1>1. /\ Passes(l) \in Nat \ {0}
      /\ Loop!CeilDiv(l.cout_total, COUT_TILE) \in Nat \ {0}
  BY CeilDivision, LayersAssumption, TileAssumption DEF Passes, Loop!KPasses
<1>2. Total(l) \in Nat \ {0}
  <2> DEFINE c == Loop!CeilDiv(l.cout_total, COUT_TILE)
             p == Loop!KPasses(l)
  <2>1. Total(l) = c * p
    BY DEF Total, Loop!Total
  <2>2. p \in Nat \ {0} /\ c \in Nat \ {0}
    BY <1>1 DEF Passes
  <2> HIDE DEF c, p
  <2> QED BY <2>1, <2>2
<1>3. 0 \div Passes(l) = 0 /\ 0 % Passes(l) = 0
  <2> DEFINE p == Passes(l)
  <2>1. p \in Nat \ {0}
    BY <1>1
  <2>2. p * 0 = 0
    BY <2>1
  <2> HIDE DEF p
  <2>3. 0 \div p = 0 /\ 0 % p = 0
    BY <2>1, <2>2, DivisionUnique
  <2> QED BY <2>3 DEF p
<1>4. 0 * COUT_TILE = 0 /\ 0 * K_TILE = 0
  BY TileAssumption
<1> QED BY <1>1, <1>2, <1>3, <1>4 DEF Pass, Loop!Pass, Place, Passes

\* What a pass is, and which one comes after it.
LEMMA PassFacts ==
  ASSUME NEW l \in Layers, NEW n \in Nat, n < Total(l)
  PROVE  LET p == Pass(l, n)
         IN /\ Place(l, n) \in Nat /\ Place(l, n) <= n
            /\ p = [cout |-> p.cout, k |-> p.k, wr_bank |-> Place(l, n) % 2,
                    first |-> p.k = 0, final |-> p.k + K_TILE >= l.k_total]
            /\ p.k \in Nat /\ p.k < l.k_total
            /\ p.cout \in Nat /\ p.cout < l.cout_total
            /\ ~p.final => /\ n + 1 < Total(l)
                           /\ Pass(l, n + 1).cout = p.cout
                           /\ Pass(l, n + 1).k = p.k + K_TILE
                           /\ Place(l, n + 1) = Place(l, n) + 1
            /\ p.final /\ p.cout + COUT_TILE < l.cout_total =>
                 /\ n + 1 < Total(l)
                 /\ Pass(l, n + 1).cout = p.cout + COUT_TILE
                 /\ Pass(l, n + 1).k = 0 /\ Place(l, n + 1) = 0
            /\ p.final /\ p.cout + COUT_TILE >= l.cout_total => n + 1 = Total(l)
            /\ p.final <=> Place(l, n) = Passes(l) - 1
<1> DEFINE d == Passes(l)
           c == Loop!CeilDiv(l.cout_total, COUT_TILE)
           q == n \div d
           r == n % d
<1>1. d \in Nat \ {0} /\ c \in Nat \ {0} /\ Total(l) = c * d
  BY FirstPass, CeilDivision, LayersAssumption, TileAssumption
     DEF Total, Loop!Total, Passes
<1>2. q \in Nat /\ r \in 0 .. d - 1 /\ n = d * q + r
  <2> HIDE DEF d
  <2> QED BY <1>1, Division
<1>3. d = Loop!CeilDiv(l.k_total, K_TILE)
  BY DEF Passes, Loop!KPasses
<1>4. /\ Place(l, n) = r
      /\ Pass(l, n) = [cout |-> q * COUT_TILE, k |-> r * K_TILE, wr_bank |-> r % 2,
                       first |-> r = 0, final |-> r = d - 1]
  BY DEF Place, Pass, Loop!Pass, Passes
<1>5. ASSUME NEW a \in Nat, NEW b \in 0 .. d - 1, n + 1 = d * a + b
      PROVE  /\ Place(l, n + 1) = b
             /\ Pass(l, n + 1).cout = a * COUT_TILE /\ Pass(l, n + 1).k = b * K_TILE
  <2>1. (n + 1) \div d = a /\ (n + 1) % d = b
    <3> HIDE DEF d, c, q, r
    <3>1. n + 1 \in Nat /\ n + 1 = d * a + b /\ d \in Nat \ {0}
      BY <1>1, <1>5
    <3> QED BY <3>1, DivisionUnique
  <2> QED BY <2>1 DEF Place, Pass, Loop!Pass, Passes
<1> HIDE DEF d, c, q, r
<1>6. q < c
  <2> SUFFICES ASSUME c <= q PROVE FALSE
    BY <1>1, <1>2
  <2>1. q - c \in Nat /\ d * q = c * d + d * (q - c) /\ d * (q - c) \in Nat
    BY <1>1, <1>2
  <2>2. c * d \in Nat
    BY <1>1
  <2> QED BY <2>1, <2>2, <1>1, <1>2
<1>7. /\ r * K_TILE \in Nat /\ r * K_TILE < l.k_total
      /\ (r + 1) * K_TILE = r * K_TILE + K_TILE
      /\ r * K_TILE + K_TILE >= l.k_total <=> r + 1 = d
      /\ r * K_TILE = 0 <=> r = 0
  <2>1. l.k_total \in Nat \ {0} /\ K_TILE \in Nat \ {0}
    BY LayersAssumption, TileAssumption
  <2>2. r \in Nat /\ r < Loop!CeilDiv(l.k_total, K_TILE)
    BY <1>1, <1>2, <1>3
  <2> QED BY <2>1, <2>2, <1>3, CeilReached
<1>8. /\ q * COUT_TILE \in Nat /\ q * COUT_TILE < l.cout_total
      /\ (q + 1) * COUT_TILE = q * COUT_TILE + COUT_TILE
      /\ q * COUT_TILE + COUT_TILE >= l.cout_total <=> q + 1 = c
  BY <1>2, <1>6, CeilReached, LayersAssumption, TileAssumption DEF c
<1>9. r <= n
  <2>1. d * q \in Nat
    BY <1>1, <1>2
  <2> QED BY <2>1, <1>2
<1>10. d * (q + 1) = d * q + d /\ d * q \in Nat /\ 0 * K_TILE = 0
  BY <1>1, <1>2, TileAssumption
<1>11. r # d - 1 =>
         /\ Pass(l, n + 1).cout = q * COUT_TILE
         /\ Pass(l, n + 1).k = r * K_TILE + K_TILE
         /\ Place(l, n + 1) = r + 1
  <2> SUFFICES ASSUME r # d - 1
               PROVE  /\ Pass(l, n + 1).cout = q * COUT_TILE
                      /\ Pass(l, n + 1).k = r * K_TILE + K_TILE
                      /\ Place(l, n + 1) = r + 1
    OBVIOUS
  <2>1. r + 1 \in 0 .. d - 1 /\ n + 1 = d * q + (r + 1)
    BY <1>1, <1>2, <1>10
  <2>2. Place(l, n + 1) = r + 1 /\ Pass(l, n + 1).cout = q * COUT_TILE
          /\ Pass(l, n + 1).k = (r + 1) * K_TILE
    BY <2>1, <1>2, <1>5
  <2> QED BY <2>2, <1>7
<1>12. r = d - 1 =>
         /\ Pass(l, n + 1).cout = q * COUT_TILE + COUT_TILE
         /\ Pass(l, n + 1).k = 0 /\ Place(l, n + 1) = 0
         /\ n + 1 = d * (q + 1)
  <2> SUFFICES ASSUME r = d - 1
               PROVE  /\ Pass(l, n + 1).cout = q * COUT_TILE + COUT_TILE
                      /\ Pass(l, n + 1).k = 0 /\ Place(l, n + 1) = 0
                      /\ n + 1 = d * (q + 1)
    OBVIOUS
  <2>1. 0 \in 0 .. d - 1 /\ q + 1 \in Nat /\ n + 1 = d * (q + 1) + 0
          /\ n + 1 = d * (q + 1)
    BY <1>1, <1>2, <1>10
  <2>2. Place(l, n + 1) = 0 /\ Pass(l, n + 1).cout = (q + 1) * COUT_TILE
          /\ Pass(l, n + 1).k = 0 * K_TILE
    BY <2>1, <1>5
  <2> QED BY <2>1, <2>2, <1>8, <1>10
<1>13. r # d - 1 \/ q + 1 # c => n + 1 < Total(l)
  <2>1. c - 1 - q \in Nat /\ d * (c - 1 - q) \in Nat
          /\ c * d = d * q + d + d * (c - 1 - q)
    BY <1>1, <1>2, <1>6
  <2>2. CASE r # d - 1
    BY <2>1, <2>2, <1>1, <1>2, <1>10
  <2>3. CASE q + 1 # c
    <3>1. c - 1 - q - 1 \in Nat /\ d * (c - 1 - q) = d + d * (c - 1 - q - 1)
            /\ d * (c - 1 - q - 1) \in Nat
      BY <2>3, <1>1, <1>2, <1>6
    <3> QED BY <3>1, <2>1, <1>1, <1>2, <1>10
  <2> QED BY <2>2, <2>3
<1>14. r = d - 1 /\ q + 1 = c => n + 1 = Total(l)
  BY <1>1, <1>2, <1>12
<1>15. r \in Nat /\ (r = d - 1 <=> r + 1 = d)
  BY <1>1, <1>2
<1> DEFINE p == Pass(l, n)
<1>16. /\ p.cout = q * COUT_TILE /\ p.k = r * K_TILE
       /\ p = [cout |-> p.cout, k |-> p.k, wr_bank |-> Place(l, n) % 2,
               first |-> p.k = 0, final |-> p.k + K_TILE >= l.k_total]
       /\ p.final <=> r = d - 1
  <2>1. (r = 0) = (r * K_TILE = 0) /\ (r = d - 1) = (r * K_TILE + K_TILE >= l.k_total)
    BY <1>7, <1>15
  <2>2. p.cout = q * COUT_TILE /\ p.k = r * K_TILE
    BY <1>4
  <2>4. p.final = (r = d - 1)
    BY <1>4
  <2>3. p = [cout |-> q * COUT_TILE, k |-> r * K_TILE, wr_bank |-> r % 2,
             first |-> r * K_TILE = 0, final |-> r * K_TILE + K_TILE >= l.k_total]
    BY <1>4, <2>1
  <2> HIDE DEF p
  <2> QED BY <1>4, <2>2, <2>3, <2>4
<1> HIDE DEF p
<1>17. Place(l, n) \in Nat /\ Place(l, n) <= n /\ p.k \in Nat /\ p.k < l.k_total
         /\ p.cout \in Nat /\ p.cout < l.cout_total
         /\ (p.final <=> Place(l, n) = Passes(l) - 1)
  BY <1>4, <1>7, <1>8, <1>9, <1>15, <1>16 DEF d
<1>18. ~p.final => /\ n + 1 < Total(l)
                   /\ Pass(l, n + 1).cout = p.cout
                   /\ Pass(l, n + 1).k = p.k + K_TILE
                   /\ Place(l, n + 1) = Place(l, n) + 1
  BY <1>4, <1>11, <1>13, <1>16
<1>19. p.final /\ p.cout + COUT_TILE < l.cout_total =>
         /\ n + 1 < Total(l)
         /\ Pass(l, n + 1).cout = p.cout + COUT_TILE
         /\ Pass(l, n + 1).k = 0 /\ Place(l, n + 1) = 0
  <2>1. q * COUT_TILE + COUT_TILE < l.cout_total => q + 1 # c
    <3>1. q * COUT_TILE + COUT_TILE \in Nat /\ l.cout_total \in Nat
      BY <1>8, TileAssumption, LayersAssumption
    <3> QED BY <3>1, <1>8
  <2> QED BY <2>1, <1>12, <1>13, <1>16
<1>20. p.final /\ p.cout + COUT_TILE >= l.cout_total => n + 1 = Total(l)
  BY <1>8, <1>14, <1>16
<1> QED
  BY <1>16, <1>17, <1>18, <1>19, <1>20 DEF p

\* The passes of a block before its last are not final.
LEMMA OnlyLastFinal ==
  ASSUME NEW l \in Layers, NEW n \in Nat, n < Total(l),
         NEW m \in Nat, n - Place(l, n) <= m, m < n
  PROVE  ~Pass(l, m).final
<1> DEFINE d == Passes(l)
           q == n \div d
           r == n % d
<1>1. d \in Nat \ {0} /\ Place(l, n) = r
  BY FirstPass DEF Place
<1>2. q \in Nat /\ r \in 0 .. d - 1 /\ n = d * q + r
  <2> HIDE DEF d
  <2> QED BY <1>1, Division
<1>3. ASSUME NEW b \in 0 .. d - 1, m = d * q + b
      PROVE  Place(l, m) = b
  <2>1. m % d = b
    <3> HIDE DEF d
    <3> HIDE DEF q, r
    <3>1. q \in Nat /\ m = d * q + b /\ d \in Nat \ {0}
      BY <1>1, <1>2, <1>3
    <3>2. m \div d = q /\ m % d = b
      BY <3>1, DivisionUnique
    <3> QED BY <3>2
  <2> QED BY <2>1 DEF Place
<1> HIDE DEF d, q, r
<1>4. m - d * q \in 0 .. d - 1 /\ m = d * q + (m - d * q) /\ m - d * q < r
  <2>1. d * q \in Nat
    BY <1>1, <1>2
  <2> QED BY <2>1, <1>1, <1>2
<1>5. Place(l, m) = m - d * q
  BY <1>3, <1>4
<1>6. Total(l) \in Nat
  BY FirstPass
<1>7. Pass(l, m).final <=> Place(l, m) = d - 1
  BY <1>6, PassFacts DEF d
<1> QED BY <1>1, <1>2, <1>4, <1>5, <1>7

-----------------------------------------------------------------------------
(* The inductive invariant *)

Asked == raises("compute_start") \/ request
\* The core has been given the prepared pass too, by a fast handoff.
Handed == s.fast_handoff_armed /\ s.fast_handoff_accepted
Beginning == {"BIAS_START", "BIAS_WAIT", "WGT_START", "WGT_WAIT", "FEED_START",
              "FEED_WAIT", "COMP_START", "PREFETCH_COMMIT"}
Ending == {"DRAIN_START", "DRAIN_WAIT", "PREFETCH_WAIT", "DONE"}
\* The core has taken the pass that the registers stand at.
Taken ==
  \/ s.state \in Ending
  \/ s.state = "COMP_WAIT" /\ (s.fast_handoff_armed \/ ~Asked)
Waiting == s.state = "COMP_WAIT" /\ ~Taken
\* The pass that the registers stand at.
Cur == IF Taken THEN IF Handed THEN given - 2 ELSE given - 1 ELSE given

\* The names of the registers.
Registers ==
  {"state", "busy", "pulse", "pass_base_k", "cout_base", "pass_index",
   "pass_bank", "feeder_pass_base_k", "feeder_k_pass", "prefetch_pass_base_k",
   "prefetch_pass_index", "compute_done_seen", "compute_started_seen",
   "feeder_done_seen", "drain_started", "drain_done_seen",
   "drain_packet_seen", "prev_drain_pending", "prefetch_started",
   "prefetch_weight_done", "prefetch_feed_done", "collector_final_done_seen",
   "fast_handoff_armed", "fast_handoff_accepted"}

\* t has every register, each with a value it can hold.
Typed(t) ==
  /\ DOMAIN t = Registers /\ t.state \in State
  /\ t.pulse \subseteq {"bias_load_start", "weight_load_start", "feeder_start",
                        "compute_start", "psum_drain_start", "done"}
  /\ t.pass_base_k \in Nat /\ t.cout_base \in Nat /\ t.pass_index \in Nat
  /\ t.pass_bank \in {0, 1}
  /\ t.feeder_pass_base_k \in Nat /\ t.feeder_k_pass \in Nat
  /\ t.prefetch_pass_base_k \in Nat /\ t.prefetch_pass_index \in Nat
  /\ t.busy \in BOOLEAN
  /\ t.compute_done_seen \in BOOLEAN
  /\ t.compute_started_seen \in BOOLEAN
  /\ t.feeder_done_seen \in BOOLEAN
  /\ t.drain_started \in BOOLEAN
  /\ t.drain_done_seen \in BOOLEAN
  /\ t.drain_packet_seen \in BOOLEAN
  /\ t.prev_drain_pending \in BOOLEAN
  /\ t.prefetch_started \in BOOLEAN
  /\ t.prefetch_weight_done \in BOOLEAN
  /\ t.prefetch_feed_done \in BOOLEAN
  /\ t.collector_final_done_seen \in BOOLEAN
  /\ t.fast_handoff_armed \in BOOLEAN
  /\ t.fast_handoff_accepted \in BOOLEAN

\* Everything is in range,
RegistersOK ==
  /\ Typed(s) /\ layer \in Layers /\ ENABLE_FAST_CONTEXT_HANDOFF \in BOOLEAN
  /\ bias_loading \in BOOLEAN /\ weight_loading \in BOOLEAN
  /\ weights \in Nat /\ fed \in Nat /\ left \in 0 .. layer.num_pixels
  /\ feeding \in {"none", "filling", "level"}
  /\ request \in BOOLEAN /\ compute_done \in BOOLEAN
  /\ collecting \in BOOLEAN /\ draining \in BOOLEAN
  /\ s.busy = (s.state # "IDLE")

\* the contexts not yet collected are those the counters say,
HistoryOK ==
  /\ given \in Nat /\ collected \in Nat /\ collected <= given
  /\ uncollected = [i \in 1 .. given - collected |-> Pass(layer, collected + i - 1)]
  /\ given - collected <= Uncollected
  /\ left # 0 => collected < given

\* the address registers are those of the current pass,
Position ==
  s.busy =>
    /\ Cur \in Nat /\ Cur < Total(layer)
    /\ s.cout_base = Pass(layer, Cur).cout /\ s.pass_base_k = Pass(layer, Cur).k
    /\ s.pass_index = Cur % Passes(layer) /\ s.pass_bank = s.pass_index % 2
IdlePosition ==
  ~s.busy => s.pass_base_k < layer.k_total /\ s.cout_base < layer.cout_total
     /\ s.pass_bank = s.pass_index % 2

\* bias and compute requests are out only in the states that wait for them,
PulsesOK ==
  /\ raises("bias_load_start") \/ bias_loading => s.state = "BIAS_WAIT"
  /\ ~(raises("bias_load_start") /\ bias_loading)
  /\ Asked => s.state = "COMP_WAIT"
  /\ ~(raises("compute_start") /\ request)

\* Of a tile of weights: none is asked for, one is held, one is on its way.
WeightGone == ~raises("weight_load_start") /\ ~weight_loading /\ weights = 0
WeightHeld == ~raises("weight_load_start") /\ ~weight_loading /\ weights = 1
WeightComes ==
  weights = 0 /\ (raises("weight_load_start") <=> ~weight_loading)

\* Weights are there when the core needs them, and none is asked for twice.
WeightOK ==
  /\ s.state \in {"IDLE", "BIAS_START", "BIAS_WAIT", "WGT_START"} => WeightGone
  /\ s.state = "WGT_WAIT" => WeightComes
  /\ s.state \in {"FEED_START", "FEED_WAIT", "COMP_START", "PREFETCH_COMMIT"}
       \/ Waiting => WeightHeld
  /\ Taken => IF ~s.prefetch_started \/ Handed THEN WeightGone
              ELSE IF s.prefetch_weight_done THEN WeightHeld ELSE WeightComes

Running == IF left = 0 THEN 0 ELSE 1
\* The same for its vectors.
FeedIdle == ~raises("feeder_start") /\ feeding = "none"
Prepared == prepared = <<Pass(layer, given)>>
FeedGone == FeedIdle /\ prepared = <<>>
FeedHeld == FeedIdle /\ Prepared
FeedRuns == ~raises("feeder_start") /\ feeding # "none"
FeedComes ==
  \/ raises("feeder_start") /\ feeding = "none" /\ prepared = <<>>
  \/ FeedRuns /\ Prepared

\* Vectors come like the weights, and the prepared pass is the next to be given.
FeedOK ==
  /\ s.state \in {"IDLE", "BIAS_START", "BIAS_WAIT", "WGT_START", "WGT_WAIT",
                  "FEED_START"} => FeedGone /\ fed = 0
  /\ s.state = "FEED_WAIT" => FeedComes /\ fed = 0 /\ ~s.feeder_done_seen
  /\ s.state \in {"COMP_START", "PREFETCH_COMMIT"} \/ Waiting =>
       /\ Prepared
       /\ IF s.feeder_done_seen THEN FeedIdle /\ fed = 1 ELSE FeedRuns /\ fed = 0
  /\ s.state = "PREFETCH_COMMIT" => s.feeder_done_seen
  /\ Taken /\ ~s.feeder_done_seen =>
       /\ s.state = "COMP_WAIT" /\ left # 0 /\ ~s.prefetch_started
       /\ FeedRuns /\ fed = 0 /\ prepared = <<>>
  /\ Taken /\ s.feeder_done_seen /\ ~s.prefetch_started =>
       FeedGone /\ fed = Running
  /\ Taken /\ s.prefetch_started /\ ~Handed =>
       IF s.prefetch_feed_done THEN FeedHeld /\ fed = Running + 1
       ELSE FeedComes /\ fed = Running
  /\ Handed =>
       /\ prepared = <<>>
       /\ IF s.prefetch_feed_done THEN FeedIdle /\ fed = 1 ELSE FeedRuns /\ fed = 0
  /\ raises("feeder_start") => FedPass = Pass(layer, given)

\* What the core does, and what the scheduler noted of it.
ComputeOK ==
  /\ s.state # "COMP_WAIT" => left = 0 /\ ~compute_done
  /\ Waiting => /\ left = 0 /\ ~compute_done /\ ~s.compute_done_seen
                /\ ~s.compute_started_seen /\ ~s.prefetch_started
  /\ s.state = "COMP_WAIT" /\ Taken /\ ~Handed =>
       (left = 0 <=> compute_done \/ s.compute_done_seen)
  /\ Handed => left # 0 /\ compute_done

\* A prefetch is for the next pass of the block; so is a handoff.
PrefetchOK ==
  /\ s.state \in {"IDLE", "BIAS_START", "BIAS_WAIT", "WGT_START", "WGT_WAIT",
                  "FEED_START", "FEED_WAIT", "DONE"} => ~s.prefetch_started
  /\ Taken /\ s.prefetch_started =>
       /\ ~last_k /\ s.prefetch_pass_base_k = next_k
       /\ s.prefetch_pass_index = s.pass_index + 1
  /\ s.state \in {"DRAIN_START", "DRAIN_WAIT"} /\ prefetch_enable_current =>
       s.prefetch_started
  /\ s.state = "PREFETCH_WAIT" => s.prefetch_started
  /\ s.fast_handoff_armed =>
       /\ s.state = "COMP_WAIT" /\ continuous /\ ENABLE_FAST_CONTEXT_HANDOFF
       /\ s.prefetch_started
       /\ (Asked <=> ~s.fast_handoff_accepted)
  /\ s.fast_handoff_accepted => s.fast_handoff_armed

DrainGone == ~raises("psum_drain_start") /\ ~draining
DrainComes == raises("psum_drain_start") <=> ~draining

\* With drains, all but the newest pass are drained when another begins.
DrainOK ==
  ~continuous =>
    /\ ~collecting
    /\ s.prev_drain_pending =>
         /\ s.state \in {"PREFETCH_COMMIT", "COMP_START", "COMP_WAIT"}
         /\ draining /\ ~raises("psum_drain_start") /\ collected = Cur - 1
    /\ s.state \in {"IDLE"} \cup Beginning \/ Waiting =>
         s.prev_drain_pending \/ (DrainGone /\ collected = given)
    /\ Waiting \/ (s.state = "COMP_WAIT" /\ s.prev_drain_pending) =>
         ~s.drain_started /\ ~s.drain_done_seen
    /\ s.state = "COMP_WAIT" /\ Taken /\ ~s.prev_drain_pending =>
         IF ~s.drain_started
         THEN DrainGone /\ ~s.drain_done_seen /\ collected = Cur
         ELSE IF s.drain_done_seen THEN DrainGone /\ collected = given
         ELSE DrainComes /\ collected = Cur
    /\ s.state = "DRAIN_START" => DrainGone /\ collected = Cur
    /\ s.state = "DRAIN_WAIT" => DrainComes /\ collected = Cur /\ s.drain_started
    /\ s.state \in {"PREFETCH_WAIT", "DONE"} => DrainGone /\ collected = given

\* With continuous collection, the collector never is a whole block behind.
CollectOK ==
  continuous =>
    /\ DrainGone /\ ~s.prev_drain_pending
    /\ s.state \notin {"DRAIN_START", "DRAIN_WAIT", "PREFETCH_WAIT"}
    /\ collecting => collected < given
    /\ s.busy => Cur - s.pass_index <= collected
    /\ s.state \in {"IDLE", "DONE"} => collected = given
    /\ Waiting => ~s.collector_final_done_seen
    /\ s.state = "COMP_WAIT" /\ Taken /\ s.collector_final_done_seen =>
         last_k /\ collected = given

\* A layer ends with its last pass.
EndOK == s.state = "DONE" => given = Total(layer)

IInv == /\ RegistersOK /\ HistoryOK /\ Position /\ IdlePosition /\ PulsesOK
        /\ WeightOK /\ FeedOK /\ ComputeOK /\ PrefetchOK /\ DrainOK /\ CollectOK
        /\ EndOK

-----------------------------------------------------------------------------
(* What an edge does to the registers, in groups *)

PassKept(t) ==
  /\ t.pass_base_k = s.pass_base_k /\ t.cout_base = s.cout_base
  /\ t.pass_index = s.pass_index /\ t.pass_bank = s.pass_bank
FeedAddressKept(t) ==
  /\ t.feeder_pass_base_k = s.feeder_pass_base_k
  /\ t.feeder_k_pass = s.feeder_k_pass
ComputeKept(t) ==
  /\ t.compute_done_seen = s.compute_done_seen
  /\ t.compute_started_seen = s.compute_started_seen
PrefetchNoted(t, in) ==
  /\ t.prefetch_started = s.prefetch_started
  /\ t.prefetch_pass_base_k = s.prefetch_pass_base_k
  /\ t.prefetch_pass_index = s.prefetch_pass_index
  /\ t.prefetch_weight_done =
       (s.prefetch_weight_done \/ (s.prefetch_started /\ in.weight_load_done))
  /\ t.prefetch_feed_done =
       (s.prefetch_feed_done \/ (s.prefetch_started /\ in.feeder_done))
PendingNoted(t, in) ==
  t.prev_drain_pending = (s.prev_drain_pending /\ ~drain_done(in))
DrainKept(t) ==
  t.drain_started = s.drain_started /\ t.drain_done_seen = s.drain_done_seen
FinalNoted(t, in) ==
  t.collector_final_done_seen =
    (s.collector_final_done_seen \/ (continuous /\ final_done(in)))
HandoffNoted(t, in) ==
  /\ t.fast_handoff_armed = s.fast_handoff_armed
  /\ t.fast_handoff_accepted = fast_handoff_accepted_now(in)

\* All that is noted on an edge.
LEMMA NotedFields ==
  ASSUME Typed(s), NEW in \in Answers
  PROVE  LET n == Noted(in)
         IN /\ Typed(n) /\ n.state = s.state /\ n.busy = s.busy /\ n.pulse = {}
            /\ PassKept(n) /\ FeedAddressKept(n) /\ ComputeKept(n)
            /\ n.feeder_done_seen = s.feeder_done_seen
            /\ PrefetchNoted(n, in) /\ PendingNoted(n, in) /\ DrainKept(n)
            /\ FinalNoted(n, in) /\ HandoffNoted(n, in)
<1> DEFINE n == Noted(in)
<1>1. DOMAIN n = Registers
  BY DEF Typed, Registers, Noted
<1>2. /\ n.state = s.state /\ n.busy = s.busy /\ n.pulse = {}
      /\ PassKept(n) /\ FeedAddressKept(n) /\ ComputeKept(n)
      /\ n.feeder_done_seen = s.feeder_done_seen
      /\ PrefetchNoted(n, in) /\ PendingNoted(n, in) /\ DrainKept(n)
      /\ FinalNoted(n, in) /\ HandoffNoted(n, in)
      /\ n.drain_packet_seen = (s.drain_packet_seen \/ (s.drain_started /\ in.packet))
  BY DEF Typed, Registers, Noted, PassKept, FeedAddressKept, ComputeKept,
         PrefetchNoted, PendingNoted, DrainKept, FinalNoted, HandoffNoted
<1> HIDE DEF n
<1>3. Typed(n)
  BY <1>1, <1>2
     DEF Typed, PassKept, FeedAddressKept, ComputeKept, PrefetchNoted,
         PendingNoted, DrainKept, FinalNoted, HandoffNoted,
         fast_handoff_accepted_now, drain_done, final_done
<1> QED BY <1>2, <1>3 DEF n


-----------------------------------------------------------------------------
(* The actions of the states outside COMP_WAIT and DRAIN_WAIT *)

\* Nothing but notes.
LEMMA IdleFields ==
  ASSUME Typed(s), NEW in \in Answers, Idle(in)
  PROVE  /\ s.state = "IDLE" /\ Typed(s')
         /\ s'.state = "IDLE" /\ s'.busy = FALSE /\ s'.pulse = {}
         /\ PassKept(s')
         /\ FeedAddressKept(s')
         /\ ComputeKept(s')
         /\ s'.feeder_done_seen = s.feeder_done_seen
         /\ PrefetchNoted(s', in)
         /\ PendingNoted(s', in)
         /\ DrainKept(s')
         /\ FinalNoted(s', in)
         /\ HandoffNoted(s', in)
<1>1. Typed(Noted(in)) /\ DOMAIN Noted(in) = Registers
  BY NotedFields DEF Typed
<1>2. DOMAIN s' = Registers
  BY <1>1 DEF Idle
<1>3. TRUE
      /\ s'.state = "IDLE" /\ s'.busy = FALSE /\ s'.pulse = {}
      /\ PassKept(s')
      /\ FeedAddressKept(s')
      /\ ComputeKept(s')
      /\ s'.feeder_done_seen = s.feeder_done_seen
      /\ PrefetchNoted(s', in)
      /\ PendingNoted(s', in)
      /\ DrainKept(s')
      /\ FinalNoted(s', in)
      /\ HandoffNoted(s', in)
      /\ s'.drain_packet_seen \in BOOLEAN
  BY <1>1, NotedFields
     DEF Idle, Typed, Registers, PassKept, FeedAddressKept, ComputeKept, PrefetchNoted, PendingNoted, DrainKept, FinalNoted, HandoffNoted
<1>4. Typed(s')
  BY <1>1, <1>2, <1>3, NotedFields
     DEF Typed, Idle, State, PassKept, FeedAddressKept, ComputeKept, PrefetchNoted, PendingNoted, DrainKept, FinalNoted, HandoffNoted
<1> QED BY <1>3, <1>4 DEF Idle

\* The biases are requested.
LEMMA BiasStartFields ==
  ASSUME Typed(s), NEW in \in Answers, BiasStart(in)
  PROVE  /\ s.state = "BIAS_START" /\ Typed(s')
         /\ s'.state = "BIAS_WAIT" /\ s'.pulse = {"bias_load_start"}
         /\ s'.busy = s.busy
         /\ PassKept(s')
         /\ FeedAddressKept(s')
         /\ ComputeKept(s')
         /\ s'.feeder_done_seen = s.feeder_done_seen
         /\ PrefetchNoted(s', in)
         /\ PendingNoted(s', in)
         /\ DrainKept(s')
         /\ FinalNoted(s', in)
         /\ HandoffNoted(s', in)
<1>1. Typed(Noted(in)) /\ DOMAIN Noted(in) = Registers
  BY NotedFields DEF Typed
<1>2. DOMAIN s' = Registers
  BY <1>1 DEF BiasStart
<1>3. TRUE
      /\ s'.state = "BIAS_WAIT" /\ s'.pulse = {"bias_load_start"}
      /\ s'.busy = s.busy
      /\ PassKept(s')
      /\ FeedAddressKept(s')
      /\ ComputeKept(s')
      /\ s'.feeder_done_seen = s.feeder_done_seen
      /\ PrefetchNoted(s', in)
      /\ PendingNoted(s', in)
      /\ DrainKept(s')
      /\ FinalNoted(s', in)
      /\ HandoffNoted(s', in)
      /\ s'.drain_packet_seen \in BOOLEAN
  BY <1>1, NotedFields
     DEF BiasStart, Typed, Registers, PassKept, FeedAddressKept, ComputeKept, PrefetchNoted, PendingNoted, DrainKept, FinalNoted, HandoffNoted
<1>4. Typed(s')
  BY <1>1, <1>2, <1>3, NotedFields
     DEF Typed, BiasStart, State, PassKept, FeedAddressKept, ComputeKept, PrefetchNoted, PendingNoted, DrainKept, FinalNoted, HandoffNoted
<1> QED BY <1>3, <1>4 DEF BiasStart

\* The biases are waited for.
LEMMA BiasWaitFields ==
  ASSUME Typed(s), NEW in \in Answers, BiasWait(in)
  PROVE  /\ s.state = "BIAS_WAIT" /\ Typed(s')
         /\ s'.state = (IF in.bias_load_done THEN "WGT_START" ELSE "BIAS_WAIT")
         /\ s'.pulse = {}
         /\ s'.busy = s.busy
         /\ PassKept(s')
         /\ FeedAddressKept(s')
         /\ ComputeKept(s')
         /\ s'.feeder_done_seen = s.feeder_done_seen
         /\ PrefetchNoted(s', in)
         /\ PendingNoted(s', in)
         /\ DrainKept(s')
         /\ FinalNoted(s', in)
         /\ HandoffNoted(s', in)
<1>1. Typed(Noted(in)) /\ DOMAIN Noted(in) = Registers
  BY NotedFields DEF Typed
<1>2. DOMAIN s' = Registers
  BY <1>1 DEF BiasWait
<1>3. TRUE
      /\ s'.state = (IF in.bias_load_done THEN "WGT_START" ELSE "BIAS_WAIT")
      /\ s'.pulse = {}
      /\ s'.busy = s.busy
      /\ PassKept(s')
      /\ FeedAddressKept(s')
      /\ ComputeKept(s')
      /\ s'.feeder_done_seen = s.feeder_done_seen
      /\ PrefetchNoted(s', in)
      /\ PendingNoted(s', in)
      /\ DrainKept(s')
      /\ FinalNoted(s', in)
      /\ HandoffNoted(s', in)
      /\ s'.drain_packet_seen \in BOOLEAN
  BY <1>1, NotedFields
     DEF BiasWait, Typed, Registers, PassKept, FeedAddressKept, ComputeKept, PrefetchNoted, PendingNoted, DrainKept, FinalNoted, HandoffNoted
<1>4. Typed(s')
  BY <1>1, <1>2, <1>3, NotedFields
     DEF Typed, BiasWait, State, PassKept, FeedAddressKept, ComputeKept, PrefetchNoted, PendingNoted, DrainKept, FinalNoted, HandoffNoted
<1> QED BY <1>3, <1>4 DEF BiasWait

\* The weights of the pass are requested.
LEMMA WeightStartFields ==
  ASSUME Typed(s), NEW in \in Answers, WeightStart(in)
  PROVE  /\ s.state = "WGT_START" /\ Typed(s')
         /\ s'.state = "WGT_WAIT" /\ s'.pulse = {"weight_load_start"}
         /\ s'.busy = s.busy
         /\ PassKept(s')
         /\ FeedAddressKept(s')
         /\ ComputeKept(s')
         /\ s'.feeder_done_seen = s.feeder_done_seen
         /\ PrefetchNoted(s', in)
         /\ PendingNoted(s', in)
         /\ DrainKept(s')
         /\ FinalNoted(s', in)
         /\ HandoffNoted(s', in)
<1>1. Typed(Noted(in)) /\ DOMAIN Noted(in) = Registers
  BY NotedFields DEF Typed
<1>2. DOMAIN s' = Registers
  BY <1>1 DEF WeightStart
<1>3. TRUE
      /\ s'.state = "WGT_WAIT" /\ s'.pulse = {"weight_load_start"}
      /\ s'.busy = s.busy
      /\ PassKept(s')
      /\ FeedAddressKept(s')
      /\ ComputeKept(s')
      /\ s'.feeder_done_seen = s.feeder_done_seen
      /\ PrefetchNoted(s', in)
      /\ PendingNoted(s', in)
      /\ DrainKept(s')
      /\ FinalNoted(s', in)
      /\ HandoffNoted(s', in)
      /\ s'.drain_packet_seen \in BOOLEAN
  BY <1>1, NotedFields
     DEF WeightStart, Typed, Registers, PassKept, FeedAddressKept, ComputeKept, PrefetchNoted, PendingNoted, DrainKept, FinalNoted, HandoffNoted
<1>4. Typed(s')
  BY <1>1, <1>2, <1>3, NotedFields
     DEF Typed, WeightStart, State, PassKept, FeedAddressKept, ComputeKept, PrefetchNoted, PendingNoted, DrainKept, FinalNoted, HandoffNoted
<1> QED BY <1>3, <1>4 DEF WeightStart

\* The weights of the pass are waited for.
LEMMA WeightWaitFields ==
  ASSUME Typed(s), NEW in \in Answers, WeightWait(in)
  PROVE  /\ s.state = "WGT_WAIT" /\ Typed(s')
         /\ s'.state = (IF in.weight_load_done THEN "FEED_START" ELSE "WGT_WAIT")
         /\ s'.pulse = {}
         /\ s'.busy = s.busy
         /\ PassKept(s')
         /\ FeedAddressKept(s')
         /\ ComputeKept(s')
         /\ s'.feeder_done_seen = s.feeder_done_seen
         /\ PrefetchNoted(s', in)
         /\ PendingNoted(s', in)
         /\ DrainKept(s')
         /\ FinalNoted(s', in)
         /\ HandoffNoted(s', in)
<1>1. Typed(Noted(in)) /\ DOMAIN Noted(in) = Registers
  BY NotedFields DEF Typed
<1>2. DOMAIN s' = Registers
  BY <1>1 DEF WeightWait
<1>3. TRUE
      /\ s'.state = (IF in.weight_load_done THEN "FEED_START" ELSE "WGT_WAIT")
      /\ s'.pulse = {}
      /\ s'.busy = s.busy
      /\ PassKept(s')
      /\ FeedAddressKept(s')
      /\ ComputeKept(s')
      /\ s'.feeder_done_seen = s.feeder_done_seen
      /\ PrefetchNoted(s', in)
      /\ PendingNoted(s', in)
      /\ DrainKept(s')
      /\ FinalNoted(s', in)
      /\ HandoffNoted(s', in)
      /\ s'.drain_packet_seen \in BOOLEAN
  BY <1>1, NotedFields
     DEF WeightWait, Typed, Registers, PassKept, FeedAddressKept, ComputeKept, PrefetchNoted, PendingNoted, DrainKept, FinalNoted, HandoffNoted
<1>4. Typed(s')
  BY <1>1, <1>2, <1>3, NotedFields
     DEF Typed, WeightWait, State, PassKept, FeedAddressKept, ComputeKept, PrefetchNoted, PendingNoted, DrainKept, FinalNoted, HandoffNoted
<1> QED BY <1>3, <1>4 DEF WeightWait

\* The vectors of the pass are requested from a feeder that is free.
LEMMA FeedStartFields ==
  ASSUME Typed(s), NEW in \in Answers, FeedStart(in), feeder_start_ready
  PROVE  /\ s.state = "FEED_START" /\ Typed(s')
         /\ s'.state = "FEED_WAIT" /\ s'.pulse = {"feeder_start"}
         /\ s'.feeder_pass_base_k = s.pass_base_k /\ s'.feeder_k_pass = s.pass_index
         /\ s'.feeder_done_seen = FALSE
         /\ s'.busy = s.busy
         /\ PassKept(s')
         /\ ComputeKept(s')
         /\ PrefetchNoted(s', in)
         /\ PendingNoted(s', in)
         /\ DrainKept(s')
         /\ FinalNoted(s', in)
         /\ HandoffNoted(s', in)
<1>1. Typed(Noted(in)) /\ DOMAIN Noted(in) = Registers
  BY NotedFields DEF Typed
<1>2. DOMAIN s' = Registers
  BY <1>1 DEF FeedStart
<1>3. TRUE
      /\ s'.state = "FEED_WAIT" /\ s'.pulse = {"feeder_start"}
      /\ s'.feeder_pass_base_k = s.pass_base_k /\ s'.feeder_k_pass = s.pass_index
      /\ s'.feeder_done_seen = FALSE
      /\ s'.busy = s.busy
      /\ PassKept(s')
      /\ ComputeKept(s')
      /\ PrefetchNoted(s', in)
      /\ PendingNoted(s', in)
      /\ DrainKept(s')
      /\ FinalNoted(s', in)
      /\ HandoffNoted(s', in)
      /\ s'.drain_packet_seen \in BOOLEAN
  BY <1>1, NotedFields
     DEF FeedStart, Typed, Registers, PassKept, FeedAddressKept, ComputeKept, PrefetchNoted, PendingNoted, DrainKept, FinalNoted, HandoffNoted
<1>4. Typed(s')
  BY <1>1, <1>2, <1>3, NotedFields
     DEF Typed, FeedStart, State, PassKept, FeedAddressKept, ComputeKept, PrefetchNoted, PendingNoted, DrainKept, FinalNoted, HandoffNoted
<1> QED BY <1>3, <1>4 DEF FeedStart

\* The vectors are waited for.
LEMMA FeedWaitFields ==
  ASSUME Typed(s), NEW in \in Answers, FeedWait(in)
  PROVE  /\ s.state = "FEED_WAIT" /\ Typed(s')
         /\ s'.state = (IF in.feeder_done \/ feeder_compute_ready THEN "COMP_START" ELSE "FEED_WAIT")
         /\ s'.pulse = {} /\ s'.feeder_done_seen = (s.feeder_done_seen \/ in.feeder_done)
         /\ s'.busy = s.busy
         /\ PassKept(s')
         /\ FeedAddressKept(s')
         /\ ComputeKept(s')
         /\ PrefetchNoted(s', in)
         /\ PendingNoted(s', in)
         /\ DrainKept(s')
         /\ FinalNoted(s', in)
         /\ HandoffNoted(s', in)
<1>1. Typed(Noted(in)) /\ DOMAIN Noted(in) = Registers
  BY NotedFields DEF Typed
<1>2. DOMAIN s' = Registers
  BY <1>1 DEF FeedWait
<1>3. TRUE
      /\ s'.state = (IF in.feeder_done \/ feeder_compute_ready THEN "COMP_START" ELSE "FEED_WAIT")
      /\ s'.pulse = {} /\ s'.feeder_done_seen = (s.feeder_done_seen \/ in.feeder_done)
      /\ s'.busy = s.busy
      /\ PassKept(s')
      /\ FeedAddressKept(s')
      /\ ComputeKept(s')
      /\ PrefetchNoted(s', in)
      /\ PendingNoted(s', in)
      /\ DrainKept(s')
      /\ FinalNoted(s', in)
      /\ HandoffNoted(s', in)
      /\ s'.drain_packet_seen \in BOOLEAN
  BY <1>1, NotedFields
     DEF FeedWait, Typed, Registers, PassKept, FeedAddressKept, ComputeKept, PrefetchNoted, PendingNoted, DrainKept, FinalNoted, HandoffNoted
<1>4. Typed(s')
  BY <1>1, <1>2, <1>3, NotedFields
     DEF Typed, FeedWait, State, PassKept, FeedAddressKept, ComputeKept, PrefetchNoted, PendingNoted, DrainKept, FinalNoted, HandoffNoted
<1> QED BY <1>3, <1>4 DEF FeedWait

\* There is no room for another context.
LEMMA ComputeWaitFields ==
  ASSUME Typed(s), NEW in \in Answers, ComputeStart(in), continuous /\ ~context_start_ready
  PROVE  /\ s.state = "COMP_START" /\ Typed(s')
         /\ s'.state = "COMP_START" /\ s'.pulse = {}
         /\ s'.feeder_done_seen = feed_kept(in)
         /\ s'.busy = s.busy
         /\ PassKept(s')
         /\ FeedAddressKept(s')
         /\ ComputeKept(s')
         /\ PrefetchNoted(s', in)
         /\ PendingNoted(s', in)
         /\ DrainKept(s')
         /\ FinalNoted(s', in)
         /\ HandoffNoted(s', in)
<1>1. Typed(Noted(in)) /\ DOMAIN Noted(in) = Registers
  BY NotedFields DEF Typed
<1>2. DOMAIN s' = Registers
  BY <1>1 DEF ComputeStart, feed_kept
<1>3. TRUE
      /\ s'.state = "COMP_START" /\ s'.pulse = {}
      /\ s'.feeder_done_seen = feed_kept(in)
      /\ s'.busy = s.busy
      /\ PassKept(s')
      /\ FeedAddressKept(s')
      /\ ComputeKept(s')
      /\ PrefetchNoted(s', in)
      /\ PendingNoted(s', in)
      /\ DrainKept(s')
      /\ FinalNoted(s', in)
      /\ HandoffNoted(s', in)
      /\ s'.drain_packet_seen \in BOOLEAN
  BY <1>1, NotedFields
     DEF ComputeStart, feed_kept, Typed, Registers, PassKept, FeedAddressKept, ComputeKept, PrefetchNoted, PendingNoted, DrainKept, FinalNoted, HandoffNoted
<1>4. Typed(s')
  BY <1>1, <1>2, <1>3, NotedFields
     DEF Typed, ComputeStart, feed_kept, State, PassKept, FeedAddressKept, ComputeKept, PrefetchNoted, PendingNoted, DrainKept, FinalNoted, HandoffNoted
<1> QED BY <1>3, <1>4 DEF ComputeStart

\* The compute of the pass is requested, and the notes are cleared.
LEMMA ComputeStartFields ==
  ASSUME Typed(s), NEW in \in Answers, ComputeStart(in),
         ~(continuous /\ ~context_start_ready)
  PROVE  /\ s.state = "COMP_START" /\ Typed(s')
         /\ s'.state = "COMP_WAIT" /\ s'.pulse = {"compute_start"}
         /\ s'.feeder_done_seen = feed_kept(in)
         /\ ~s'.compute_done_seen /\ ~s'.compute_started_seen
         /\ ~s'.drain_started /\ ~s'.drain_done_seen
         /\ ~s'.collector_final_done_seen /\ ~s'.prefetch_started
         /\ s'.busy = s.busy /\ PassKept(s') /\ FeedAddressKept(s')
         /\ PendingNoted(s', in) /\ HandoffNoted(s', in)
<1> DEFINE n == Noted(in)
           r == [n EXCEPT !.feeder_done_seen = feed_kept(in)]
<1>1. Typed(n) /\ DOMAIN n = Registers
  BY NotedFields DEF Typed
<1>2. /\ n.state = s.state /\ n.busy = s.busy /\ PassKept(n) /\ FeedAddressKept(n)
      /\ PendingNoted(n, in) /\ HandoffNoted(n, in)
  BY NotedFields
<1>3. feed_kept(in) \in BOOLEAN
  BY DEF feed_kept
<1>4. s' = [r EXCEPT !.pulse = {"compute_start"},
                     !.compute_done_seen = FALSE,
                     !.compute_started_seen = FALSE,
                     !.drain_started = FALSE, !.drain_done_seen = FALSE,
                     !.drain_packet_seen = FALSE,
                     !.collector_final_done_seen = FALSE,
                     !.prefetch_started = FALSE,
                     !.prefetch_weight_done = FALSE,
                     !.prefetch_feed_done = FALSE, !.state = "COMP_WAIT"]
  BY DEF ComputeStart
<1> HIDE DEF n
<1>5. Typed(r) /\ DOMAIN r = Registers
  BY <1>1, <1>3 DEF Typed, Registers
<1>6. /\ r.state = s.state /\ r.busy = s.busy /\ PassKept(r) /\ FeedAddressKept(r)
      /\ PendingNoted(r, in) /\ HandoffNoted(r, in)
      /\ r.feeder_done_seen = feed_kept(in)
  BY <1>1, <1>2
     DEF Registers, PassKept, FeedAddressKept, PendingNoted, HandoffNoted
<1> HIDE DEF r
<1>7. DOMAIN s' = Registers
  BY <1>4, <1>5
<1>8. /\ s'.pulse = {"compute_start"} /\ s'.state = "COMP_WAIT"
      /\ s'.compute_done_seen = FALSE /\ s'.compute_started_seen = FALSE
      /\ s'.drain_started = FALSE /\ s'.drain_done_seen = FALSE
      /\ s'.drain_packet_seen = FALSE /\ s'.collector_final_done_seen = FALSE
      /\ s'.prefetch_started = FALSE /\ s'.prefetch_weight_done = FALSE
      /\ s'.prefetch_feed_done = FALSE
      /\ s'.busy = r.busy /\ s'.feeder_done_seen = r.feeder_done_seen
      /\ s'.pass_base_k = r.pass_base_k /\ s'.cout_base = r.cout_base
      /\ s'.pass_index = r.pass_index /\ s'.pass_bank = r.pass_bank
      /\ s'.feeder_pass_base_k = r.feeder_pass_base_k
      /\ s'.feeder_k_pass = r.feeder_k_pass
      /\ s'.prefetch_pass_base_k = r.prefetch_pass_base_k
      /\ s'.prefetch_pass_index = r.prefetch_pass_index
      /\ s'.prev_drain_pending = r.prev_drain_pending
      /\ s'.fast_handoff_armed = r.fast_handoff_armed
      /\ s'.fast_handoff_accepted = r.fast_handoff_accepted
  BY <1>4, <1>5 DEF Registers
<1>9. Typed(s')
  BY <1>5, <1>7, <1>8 DEF Typed, State
<1> QED
  BY <1>6, <1>8, <1>9
     DEF ComputeStart, PassKept, FeedAddressKept, PendingNoted, HandoffNoted

\* The drain is requested.
LEMMA DrainStartFields ==
  ASSUME Typed(s), NEW in \in Answers, DrainStart(in)
  PROVE  /\ s.state = "DRAIN_START" /\ Typed(s')
         /\ s'.state = "DRAIN_WAIT" /\ s'.pulse = {"psum_drain_start"}
         /\ s'.drain_started /\ s'.drain_done_seen = s.drain_done_seen
         /\ s'.busy = s.busy
         /\ PassKept(s')
         /\ FeedAddressKept(s')
         /\ ComputeKept(s')
         /\ s'.feeder_done_seen = s.feeder_done_seen
         /\ PrefetchNoted(s', in)
         /\ PendingNoted(s', in)
         /\ FinalNoted(s', in)
         /\ HandoffNoted(s', in)
<1>1. Typed(Noted(in)) /\ DOMAIN Noted(in) = Registers
  BY NotedFields DEF Typed
<1>2. DOMAIN s' = Registers
  BY <1>1 DEF DrainStart
<1>3. TRUE
      /\ s'.state = "DRAIN_WAIT" /\ s'.pulse = {"psum_drain_start"}
      /\ s'.drain_started /\ s'.drain_done_seen = s.drain_done_seen
      /\ s'.busy = s.busy
      /\ PassKept(s')
      /\ FeedAddressKept(s')
      /\ ComputeKept(s')
      /\ s'.feeder_done_seen = s.feeder_done_seen
      /\ PrefetchNoted(s', in)
      /\ PendingNoted(s', in)
      /\ FinalNoted(s', in)
      /\ HandoffNoted(s', in)
      /\ s'.drain_packet_seen \in BOOLEAN
  BY <1>1, NotedFields
     DEF DrainStart, Typed, Registers, PassKept, FeedAddressKept, ComputeKept, PrefetchNoted, PendingNoted, DrainKept, FinalNoted, HandoffNoted
<1>4. Typed(s')
  BY <1>1, <1>2, <1>3, NotedFields
     DEF Typed, DrainStart, State, PassKept, FeedAddressKept, ComputeKept, PrefetchNoted, PendingNoted, DrainKept, FinalNoted, HandoffNoted
<1> QED BY <1>3, <1>4 DEF DrainStart

\* The prefetched pass becomes the current one.
LEMMA PrefetchGoFields ==
  ASSUME Typed(s), NEW in \in Answers, PrefetchWait(in), prefetch_ready_now(in)
  PROVE  /\ s.state = "PREFETCH_WAIT" /\ Typed(s')
         /\ s'.state = "PREFETCH_COMMIT" /\ s'.pulse = {}
         /\ s'.pass_base_k = s.prefetch_pass_base_k /\ s'.cout_base = s.cout_base
         /\ s'.pass_index = s.prefetch_pass_index /\ s'.pass_bank = 1 - s.pass_bank
         /\ s'.busy = s.busy
         /\ FeedAddressKept(s')
         /\ ComputeKept(s')
         /\ s'.feeder_done_seen = s.feeder_done_seen
         /\ PrefetchNoted(s', in)
         /\ PendingNoted(s', in)
         /\ DrainKept(s')
         /\ FinalNoted(s', in)
         /\ HandoffNoted(s', in)
<1>1. Typed(Noted(in)) /\ DOMAIN Noted(in) = Registers
  BY NotedFields DEF Typed
<1>2. DOMAIN s' = Registers
  BY <1>1 DEF PrefetchWait
<1>3. TRUE
      /\ s'.state = "PREFETCH_COMMIT" /\ s'.pulse = {}
      /\ s'.pass_base_k = s.prefetch_pass_base_k /\ s'.cout_base = s.cout_base
      /\ s'.pass_index = s.prefetch_pass_index /\ s'.pass_bank = 1 - s.pass_bank
      /\ s'.busy = s.busy
      /\ FeedAddressKept(s')
      /\ ComputeKept(s')
      /\ s'.feeder_done_seen = s.feeder_done_seen
      /\ PrefetchNoted(s', in)
      /\ PendingNoted(s', in)
      /\ DrainKept(s')
      /\ FinalNoted(s', in)
      /\ HandoffNoted(s', in)
      /\ s'.drain_packet_seen \in BOOLEAN
  BY <1>1, NotedFields
     DEF PrefetchWait, Typed, Registers, PassKept, FeedAddressKept, ComputeKept, PrefetchNoted, PendingNoted, DrainKept, FinalNoted, HandoffNoted
<1>4. Typed(s')
  BY <1>1, <1>2, <1>3, NotedFields
     DEF Typed, PrefetchWait, State, PassKept, FeedAddressKept, ComputeKept, PrefetchNoted, PendingNoted, DrainKept, FinalNoted, HandoffNoted
<1> QED BY <1>3, <1>4 DEF PrefetchWait

\* The prefetch is waited for.
LEMMA PrefetchWaitFields ==
  ASSUME Typed(s), NEW in \in Answers, PrefetchWait(in), ~prefetch_ready_now(in)
  PROVE  /\ s.state = "PREFETCH_WAIT" /\ Typed(s')
         /\ s'.state = "PREFETCH_WAIT" /\ s'.pulse = {}
         /\ s'.busy = s.busy
         /\ PassKept(s')
         /\ FeedAddressKept(s')
         /\ ComputeKept(s')
         /\ s'.feeder_done_seen = s.feeder_done_seen
         /\ PrefetchNoted(s', in)
         /\ PendingNoted(s', in)
         /\ DrainKept(s')
         /\ FinalNoted(s', in)
         /\ HandoffNoted(s', in)
<1>1. Typed(Noted(in)) /\ DOMAIN Noted(in) = Registers
  BY NotedFields DEF Typed
<1>2. DOMAIN s' = Registers
  BY <1>1 DEF PrefetchWait
<1>3. TRUE
      /\ s'.state = "PREFETCH_WAIT" /\ s'.pulse = {}
      /\ s'.busy = s.busy
      /\ PassKept(s')
      /\ FeedAddressKept(s')
      /\ ComputeKept(s')
      /\ s'.feeder_done_seen = s.feeder_done_seen
      /\ PrefetchNoted(s', in)
      /\ PendingNoted(s', in)
      /\ DrainKept(s')
      /\ FinalNoted(s', in)
      /\ HandoffNoted(s', in)
      /\ s'.drain_packet_seen \in BOOLEAN
  BY <1>1, NotedFields
     DEF PrefetchWait, Typed, Registers, PassKept, FeedAddressKept, ComputeKept, PrefetchNoted, PendingNoted, DrainKept, FinalNoted, HandoffNoted
<1>4. Typed(s')
  BY <1>1, <1>2, <1>3, NotedFields
     DEF Typed, PrefetchWait, State, PassKept, FeedAddressKept, ComputeKept, PrefetchNoted, PendingNoted, DrainKept, FinalNoted, HandoffNoted
<1> QED BY <1>3, <1>4 DEF PrefetchWait

\* The prefetched pass is ready to compute.
LEMMA PrefetchCommitFields ==
  ASSUME Typed(s), NEW in \in Answers, PrefetchCommit(in)
  PROVE  /\ s.state = "PREFETCH_COMMIT" /\ Typed(s')
         /\ s'.state = "COMP_START" /\ s'.pulse = {}
         /\ s'.busy = s.busy
         /\ PassKept(s')
         /\ FeedAddressKept(s')
         /\ ComputeKept(s')
         /\ s'.feeder_done_seen = s.feeder_done_seen
         /\ PrefetchNoted(s', in)
         /\ PendingNoted(s', in)
         /\ DrainKept(s')
         /\ FinalNoted(s', in)
         /\ HandoffNoted(s', in)
<1>1. Typed(Noted(in)) /\ DOMAIN Noted(in) = Registers
  BY NotedFields DEF Typed
<1>2. DOMAIN s' = Registers
  BY <1>1 DEF PrefetchCommit
<1>3. TRUE
      /\ s'.state = "COMP_START" /\ s'.pulse = {}
      /\ s'.busy = s.busy
      /\ PassKept(s')
      /\ FeedAddressKept(s')
      /\ ComputeKept(s')
      /\ s'.feeder_done_seen = s.feeder_done_seen
      /\ PrefetchNoted(s', in)
      /\ PendingNoted(s', in)
      /\ DrainKept(s')
      /\ FinalNoted(s', in)
      /\ HandoffNoted(s', in)
      /\ s'.drain_packet_seen \in BOOLEAN
  BY <1>1, NotedFields
     DEF PrefetchCommit, Typed, Registers, PassKept, FeedAddressKept, ComputeKept, PrefetchNoted, PendingNoted, DrainKept, FinalNoted, HandoffNoted
<1>4. Typed(s')
  BY <1>1, <1>2, <1>3, NotedFields
     DEF Typed, PrefetchCommit, State, PassKept, FeedAddressKept, ComputeKept, PrefetchNoted, PendingNoted, DrainKept, FinalNoted, HandoffNoted
<1> QED BY <1>3, <1>4 DEF PrefetchCommit

\* The layer is done.
LEMMA DoneFields ==
  ASSUME Typed(s), NEW in \in Answers, Done(in)
  PROVE  /\ s.state = "DONE" /\ Typed(s')
         /\ s'.state = "IDLE" /\ s'.busy = FALSE /\ s'.pulse = {"done"}
         /\ PassKept(s')
         /\ FeedAddressKept(s')
         /\ ComputeKept(s')
         /\ s'.feeder_done_seen = s.feeder_done_seen
         /\ PrefetchNoted(s', in)
         /\ PendingNoted(s', in)
         /\ DrainKept(s')
         /\ FinalNoted(s', in)
         /\ HandoffNoted(s', in)
<1>1. Typed(Noted(in)) /\ DOMAIN Noted(in) = Registers
  BY NotedFields DEF Typed
<1>2. DOMAIN s' = Registers
  BY <1>1 DEF Done
<1>3. TRUE
      /\ s'.state = "IDLE" /\ s'.busy = FALSE /\ s'.pulse = {"done"}
      /\ PassKept(s')
      /\ FeedAddressKept(s')
      /\ ComputeKept(s')
      /\ s'.feeder_done_seen = s.feeder_done_seen
      /\ PrefetchNoted(s', in)
      /\ PendingNoted(s', in)
      /\ DrainKept(s')
      /\ FinalNoted(s', in)
      /\ HandoffNoted(s', in)
      /\ s'.drain_packet_seen \in BOOLEAN
  BY <1>1, NotedFields
     DEF Done, Typed, Registers, PassKept, FeedAddressKept, ComputeKept, PrefetchNoted, PendingNoted, DrainKept, FinalNoted, HandoffNoted
<1>4. Typed(s')
  BY <1>1, <1>2, <1>3, NotedFields
     DEF Typed, Done, State, PassKept, FeedAddressKept, ComputeKept, PrefetchNoted, PendingNoted, DrainKept, FinalNoted, HandoffNoted
<1> QED BY <1>3, <1>4 DEF Done


-----------------------------------------------------------------------------
(* What the parties may answer, and where the scheduler stands *)

\* What an answer tells.
LEMMA AnswersMean ==
  ASSUME RegistersOK, HistoryOK, NEW in \in Answers, Edge(in)
  PROVE  /\ in.bias_load_done \in BOOLEAN /\ in.weight_load_done \in BOOLEAN
         /\ in.level \in BOOLEAN /\ in.feeder_done \in BOOLEAN
         /\ in.fire \in BOOLEAN /\ in.accepted \in BOOLEAN
         /\ in.collects \in BOOLEAN /\ in.activates \in BOOLEAN
         /\ in.bias_load_done => bias_loading
         /\ in.weight_load_done => weight_loading
         /\ in.level => feeding = "filling"
         /\ in.feeder_done => feeding # "none"
         /\ in.fire => left # 0 /\ (left = 1 => fed # 0 \/ in.feeder_done)
         /\ in.accepted => /\ request /\ prepared # <<>>
                           /\ given - collected < Uncollected
                           /\ weights # 0 \/ in.weight_load_done
                           /\ left = 0 \/ (in.fire /\ left = 1)
         /\ in.collects => /\ collected + Running < given
                           /\ IF continuous THEN collecting ELSE draining
         /\ in.activates => continuous /\ ~collecting /\ collected < given
<1>1. Len(uncollected) = given - collected
  BY DEF HistoryOK
<1>2. Retired = given - collected - Running
  BY <1>1 DEF Retired, Running
<1>3. uncollected = <<>> <=> given = collected
  BY <1>1 DEF HistoryOK
<1>4. given \in Nat /\ collected \in Nat /\ collected <= given
      /\ (left # 0 => collected < given)
  BY DEF HistoryOK
<1>5. /\ in.bias_load_done \in Optional(bias_loading)
      /\ in.weight_load_done \in Optional(weight_loading)
      /\ in.level \in Optional(overlap_mode /\ CanFill /\ feeding = "filling")
      /\ in.feeder_done \in Optional(CanFill /\ (overlap_mode => feeding = "level"))
      /\ in.fire \in Optional(left # 0) /\ in.accepted \in Optional(request)
      /\ in.collects \in Optional(CanCollect)
      /\ in.activates \in Optional(continuous /\ ~collecting /\ uncollected # <<>>)
  BY DEF Answers
<1>6. in.accepted => CanAccept(in)
  BY DEF Edge
<1>7. in.fire => CanFire(in)
  BY DEF Edge
<1>8. ASSUME NEW relevant \in BOOLEAN, NEW b \in Optional(relevant)
      PROVE  b \in BOOLEAN /\ (b => relevant)
  BY <1>8 DEF Optional
<1>9. in.bias_load_done \in BOOLEAN /\ (in.bias_load_done => bias_loading)
  BY <1>5 DEF Optional, RegistersOK
<1>10. in.weight_load_done \in BOOLEAN /\ (in.weight_load_done => weight_loading)
  BY <1>5 DEF Optional
<1>11. in.level \in BOOLEAN /\ (in.level => feeding = "filling")
  BY <1>5 DEF Optional
<1>12. in.feeder_done \in BOOLEAN /\ (in.feeder_done => feeding # "none")
  BY <1>5 DEF Optional, CanFill
<1>13. in.fire \in BOOLEAN /\ (in.fire => left # 0 /\ (left = 1 => fed # 0 \/ in.feeder_done))
  BY <1>5, <1>7 DEF Optional, CanFire
<1>14. in.accepted \in BOOLEAN
       /\ (in.accepted => /\ request /\ prepared # <<>>
                          /\ given - collected < Uncollected
                          /\ weights # 0 \/ in.weight_load_done
                          /\ left = 0 \/ (in.fire /\ left = 1))
  BY <1>1, <1>5, <1>6 DEF Optional, CanAccept, context_start_ready, fires_last
<1>0. continuous \in BOOLEAN /\ collecting \in BOOLEAN /\ draining \in BOOLEAN
      /\ Running \in {0, 1}
  BY LayersAssumption DEF RegistersOK, continuous, Running
<1>15. in.collects \in BOOLEAN
       /\ (in.collects => /\ collected + Running < given
                          /\ IF continuous THEN collecting ELSE draining)
  <2>1. in.collects \in IF CanCollect THEN BOOLEAN ELSE {FALSE}
    BY <1>5 DEF Optional
  <2>2. in.collects \in BOOLEAN /\ (in.collects => CanCollect)
    BY <2>1
  <2>3. CanCollect => collected + Running < given
    BY <1>0, <1>2, <1>4 DEF CanCollect, Running
  <2> QED BY <2>2, <2>3 DEF CanCollect
<1>16. in.activates \in BOOLEAN /\ (in.activates => continuous /\ ~collecting /\ collected < given)
  <2>1. in.activates \in IF continuous /\ ~collecting /\ uncollected # <<>>
                         THEN BOOLEAN ELSE {FALSE}
    BY <1>5 DEF Optional
  <2>2. in.activates \in BOOLEAN
        /\ (in.activates => continuous /\ ~collecting /\ uncollected # <<>>)
    BY <2>1
  <2>3. uncollected # <<>> => collected < given
    BY <1>3, <1>4
  <2> QED BY <2>2, <2>3
<1> QED
  BY <1>9, <1>10, <1>11, <1>12, <1>13, <1>14, <1>15, <1>16

\* Where the scheduler stands in the loop nest, and what comes next.
LEMMA Here ==
  ASSUME RegistersOK, HistoryOK, Position, s.busy
  PROVE  /\ layer \in Layers /\ Cur \in Nat /\ Cur < Total(layer)
         /\ Total(layer) \in Nat
         /\ s.pass_base_k < layer.k_total /\ s.cout_base < layer.cout_total
         /\ s.pass_index = Place(layer, Cur) /\ s.pass_index <= Cur
         /\ Pass(layer, Cur) =
              [cout |-> s.cout_base, k |-> s.pass_base_k,
               wr_bank |-> s.pass_index % 2, first |-> s.pass_base_k = 0,
               final |-> last_k]
         /\ ~last_k =>
              /\ Cur + 1 < Total(layer)
              /\ Place(layer, Cur + 1) = s.pass_index + 1
              /\ Pass(layer, Cur + 1) =
                   [cout |-> s.cout_base, k |-> next_k,
                    wr_bank |-> (s.pass_index + 1) % 2, first |-> next_k = 0,
                    final |-> next_k + K_TILE >= layer.k_total]
         /\ last_k /\ ~last_cout =>
              /\ Cur + 1 < Total(layer) /\ Place(layer, Cur + 1) = 0
              /\ Pass(layer, Cur + 1).k = 0
              /\ Pass(layer, Cur + 1).cout = (s.cout_base + COUT_TILE) % CoutMod
         /\ last_k /\ last_cout => Cur + 1 = Total(layer)
<1> DEFINE c == Cur
           p == Pass(layer, c)
           q == Pass(layer, c + 1)
<1>1. layer \in Layers /\ c \in Nat /\ c < Total(layer) /\ p.cout = s.cout_base
      /\ p.k = s.pass_base_k /\ s.pass_index = Place(layer, c)
  BY DEF RegistersOK, Position, Place
<1>2. Total(layer) \in Nat
  BY <1>1, FirstPass
<1>3. layer.cout_total + COUT_TILE <= CoutMod /\ CoutMod \in Nat /\ COUT_TILE \in Nat
      /\ layer.cout_total \in Nat /\ layer.k_total \in Nat /\ K_TILE \in Nat \ {0}
      /\ COUT_TILE # 0
  BY <1>1, LayersAssumption, PixelsAssumption, TileAssumption
<1>4. /\ Place(layer, c) \in Nat /\ Place(layer, c) <= c
      /\ p = [cout |-> p.cout, k |-> p.k, wr_bank |-> Place(layer, c) % 2,
              first |-> p.k = 0, final |-> p.k + K_TILE >= layer.k_total]
      /\ p.k \in Nat /\ p.k < layer.k_total
      /\ p.cout \in Nat /\ p.cout < layer.cout_total
      /\ ~p.final => /\ c + 1 < Total(layer)
                     /\ q.cout = p.cout /\ q.k = p.k + K_TILE
                     /\ Place(layer, c + 1) = Place(layer, c) + 1
      /\ p.final /\ p.cout + COUT_TILE < layer.cout_total =>
           /\ c + 1 < Total(layer) /\ q.cout = p.cout + COUT_TILE
           /\ q.k = 0 /\ Place(layer, c + 1) = 0
      /\ p.final /\ p.cout + COUT_TILE >= layer.cout_total => c + 1 = Total(layer)
  <2> HIDE DEF c
  <2> QED BY <1>1, PassFacts DEF p, q
<1>5. c + 1 < Total(layer) =>
        q = [cout |-> q.cout, k |-> q.k, wr_bank |-> Place(layer, c + 1) % 2,
             first |-> q.k = 0, final |-> q.k + K_TILE >= layer.k_total]
  <2> HIDE DEF c
  <2>1. c + 1 \in Nat
    BY <1>1
  <2> QED BY <1>1, <2>1, PassFacts DEF q
<1> HIDE DEF c
<1>6. p.final = last_k
  <2>1. p.final = (p.k + K_TILE >= layer.k_total)
    BY <1>4
  <2> QED BY <2>1, <1>1 DEF last_k, next_k
<1>7. /\ last_cout <=> p.cout + COUT_TILE >= layer.cout_total
      /\ (s.cout_base + COUT_TILE) % CoutMod = p.cout + COUT_TILE
  <2>1. p.cout + COUT_TILE \in 0 .. CoutMod - 1
    BY <1>3, <1>4
  <2>2. (p.cout + COUT_TILE) % CoutMod = p.cout + COUT_TILE
    BY <2>1, <1>3
  <2> QED BY <2>2, <1>1, <1>3, <1>4 DEF last_cout
<1>8. next_k = p.k + K_TILE
  BY <1>1 DEF next_k
<1>9. p = [cout |-> s.cout_base, k |-> s.pass_base_k,
           wr_bank |-> s.pass_index % 2, first |-> s.pass_base_k = 0,
           final |-> last_k]
  BY <1>1, <1>4 DEF last_k, next_k
<1>10. ASSUME ~last_k
       PROVE  /\ c + 1 < Total(layer)
              /\ Place(layer, c + 1) = s.pass_index + 1
              /\ q = [cout |-> s.cout_base, k |-> next_k,
                      wr_bank |-> (s.pass_index + 1) % 2, first |-> next_k = 0,
                      final |-> next_k + K_TILE >= layer.k_total]
  <2>1. /\ c + 1 < Total(layer) /\ q.cout = s.cout_base /\ q.k = next_k
        /\ Place(layer, c + 1) = s.pass_index + 1
    BY <1>10, <1>1, <1>4, <1>6, <1>8
  <2> HIDE DEF q
  <2> QED BY <2>1, <1>5
<1>11. last_k /\ ~last_cout =>
         /\ c + 1 < Total(layer) /\ Place(layer, c + 1) = 0
         /\ q.k = 0 /\ q.cout = (s.cout_base + COUT_TILE) % CoutMod
  <2>1. ASSUME last_k, ~last_cout PROVE p.cout + COUT_TILE < layer.cout_total
    BY <2>1, <1>3, <1>4, <1>7
  <2> QED BY <2>1, <1>4, <1>6, <1>7
<1>12. last_k /\ last_cout => c + 1 = Total(layer)
  BY <1>4, <1>6, <1>7
<1> QED
  BY <1>1, <1>2, <1>4, <1>9, <1>10, <1>11, <1>12 DEF c


-----------------------------------------------------------------------------
(* What an edge does to the parties *)

\* The next prepared contexts.
LEMMA PreparedNext ==
  ASSUME NEW in, FeederEdge(in)
  PROVE  /\ ~in.accepted /\ ~raises("feeder_start") /\ prepared = <<>> => prepared' = <<>>
         /\ \A p : ~in.accepted /\ ~raises("feeder_start") /\ prepared = <<p>> =>
              prepared' = <<p>>
         /\ ~in.accepted /\ raises("feeder_start") /\ prepared = <<>> =>
              prepared' = <<FedPass>>
         /\ \A p : in.accepted /\ ~raises("feeder_start") /\ prepared = <<p>> =>
              prepared' = <<>>
<1>1. prepared' = (IF in.accepted THEN Tail(prepared) ELSE prepared)
                    \o (IF raises("feeder_start") THEN <<FedPass>> ELSE <<>>)
  BY DEF FeederEdge
<1>2. ASSUME NEW p, prepared = <<p>> PROVE Tail(prepared) = <<>> /\ prepared \o <<>> = <<p>>
  BY <1>2
<1>3. <<>> \o <<>> = <<>> /\ <<>> \o <<FedPass>> = <<FedPass>>
  OBVIOUS
<1> QED BY <1>1, <1>2, <1>3

\* The contexts given but not collected, when the first is collected and another
\* one is given.
LEMMA Slide ==
  ASSUME NEW l, NEW c \in Nat, NEW g \in Nat, c <= g,
         NEW q, q = [i \in 1 .. g - c |-> Pass(l, c + i - 1)]
  PROVE  /\ q \o <<>> = q
         /\ c < g => /\ Tail(q) = [i \in 1 .. g - (c + 1) |-> Pass(l, c + 1 + i - 1)]
                     /\ Tail(q) \o <<>> = Tail(q)
                     /\ Head(q) = Pass(l, c)
         /\ q \o <<Pass(l, g)>> = [i \in 1 .. (g + 1) - c |-> Pass(l, c + i - 1)]
<1> DEFINE P(n) == Pass(l, n)
<1>1. q = [i \in 1 .. g - c |-> P(c + i - 1)]
  OBVIOUS
<1> DEFINE S == {P(n) : n \in Nat}
<1>2. \A n \in Nat : P(n) \in S
  OBVIOUS
<1> HIDE DEF P, S
<1>3. q \in Seq(S)
  <2>1. \A i \in 1 .. g - c : q[i] \in S
    BY <1>1, <1>2
  <2> QED BY <2>1, <1>1
<1>4. Len(q) = g - c
  BY <1>1
<1>5. q \o <<>> = q
  BY <1>3
<1>6. ASSUME c < g
      PROVE  /\ Tail(q) = [i \in 1 .. g - (c + 1) |-> P(c + 1 + i - 1)]
             /\ Tail(q) \o <<>> = Tail(q) /\ Head(q) = P(c)
  <2>0. Len(q) # 0 /\ q # <<>>
    BY <1>3, <1>4, <1>6
  <2> HIDE <1>1
  <2>a. Tail(q) \in Seq(S)
    BY <2>0, <1>3
  <2>b. Len(Tail(q)) = Len(q) - 1
    BY <2>0, <1>3
  <2>1. Tail(q) \in Seq(S) /\ Len(Tail(q)) = g - c - 1
    BY <2>a, <2>b, <1>4
  <2>2. Tail(q) \o <<>> = Tail(q)
    BY <2>1
  <2>3. Head(q) = P(c)
    BY <1>1, <1>4, <1>6
  <2>4. \A i \in 1 .. g - (c + 1) : Tail(q)[i] = P(c + 1 + i - 1)
    <3> TAKE i \in 1 .. g - (c + 1)
    <3>1. Tail(q)[i] = q[i + 1] /\ i + 1 \in 1 .. g - c
      BY <1>3, <1>4, <1>6
    <3>2. \A j \in 1 .. g - c : q[j] = P(c + j - 1)
      BY <1>1
    <3>3. q[i + 1] = P(c + (i + 1) - 1)
      BY <3>1, <3>2
    <3>4. c + (i + 1) - 1 = c + 1 + i - 1
      OBVIOUS
    <3> QED BY <3>1, <3>3, <3>4
  <2>5. DOMAIN Tail(q) = 1 .. g - (c + 1)
        /\ Tail(q) = [i \in DOMAIN Tail(q) |-> Tail(q)[i]]
    BY <2>1
  <2>6. Tail(q) = [i \in 1 .. g - (c + 1) |-> P(c + 1 + i - 1)]
    BY <2>4, <2>5
  <2> QED BY <2>2, <2>3, <2>6
<1>7. q \o <<P(g)>> = [i \in 1 .. (g + 1) - c |-> P(c + i - 1)]
  <2>1. P(g) \in S
    BY <1>2
  <2>2. q \o <<P(g)>> \in Seq(S) /\ Len(q \o <<P(g)>>) = g + 1 - c
    BY <2>1, <1>3, <1>4
  <2>3. \A i \in 1 .. (g + 1) - c : (q \o <<P(g)>>)[i] = P(c + i - 1)
    <3> TAKE i \in 1 .. (g + 1) - c
    <3>1. CASE i \in 1 .. g - c
      <4>1. (q \o <<P(g)>>)[i] = q[i]
        BY <3>1, <2>1, <1>3, <1>4
      <4>2. q[i] = P(c + i - 1)
        BY <3>1, <1>1
      <4> QED BY <4>1, <4>2
    <3>2. CASE i = g + 1 - c
      <4>1. (q \o <<P(g)>>)[i] = P(g) /\ c + i - 1 = g
        BY <3>2, <2>1, <1>3, <1>4
      <4> QED BY <4>1
    <3> QED BY <3>1, <3>2
  <2>4. DOMAIN (q \o <<P(g)>>) = 1 .. (g + 1) - c
        /\ q \o <<P(g)>> =
             [i \in DOMAIN (q \o <<P(g)>>) |-> (q \o <<P(g)>>)[i]]
    <3> DEFINE w == q \o <<P(g)>>
    <3>1. w \in Seq(S) /\ Len(w) = g + 1 - c
      BY <2>2
    <3> HIDE DEF w
    <3>2. DOMAIN w = 1 .. Len(w) /\ w = [i \in DOMAIN w |-> w[i]]
      BY ONLY <3>1
    <3>3. DOMAIN w = 1 .. (g + 1) - c
      BY <3>1, <3>2
    <3> QED BY <3>2, <3>3 DEF w
  <2> QED BY <2>3, <2>4
<1> QED BY <1>5, <1>6, <1>7 DEF P

\* When the core accepts a pass: the scheduler asked for it and waits for the
\* answer, or is armed for a handoff; the pass is the next of the loop nest.
LEMMA Acceptance ==
  ASSUME IInv, NEW in \in Answers, Edge(in), in.accepted
  PROVE  /\ s.state = "COMP_WAIT" /\ s.busy
         /\ Waiting \/ (s.fast_handoff_armed /\ ~s.fast_handoff_accepted)
         /\ ~Handed /\ Prepared
         /\ ~raises("feeder_start") /\ ~raises("compute_start")
         /\ given < Total(layer) /\ given \in Nat
         /\ given - collected < Uncollected
<1> USE DEF IInv
<1>1. request /\ prepared # <<>> /\ given - collected < Uncollected
  BY AnswersMean
<1>2. s.state = "COMP_WAIT" /\ ~raises("compute_start") /\ Asked
  BY <1>1 DEF PulsesOK, Asked
<1>3. s.busy
  BY <1>2 DEF RegistersOK
<1>4. CASE ~s.fast_handoff_armed
  <2>1. Waiting /\ ~Taken /\ ~Handed
    BY <1>2, <1>4 DEF Waiting, Taken, Ending, Handed
  <2>2. Cur = given
    BY <2>1 DEF Cur
  <2>3. Prepared /\ ~raises("feeder_start")
    BY <2>1 DEF FeedOK, FeedIdle, FeedRuns
  <2> QED BY <1>1, <1>2, <1>3, <2>1, <2>2, <2>3 DEF Position, HistoryOK
<1>5. CASE s.fast_handoff_armed
  <2>1. s.prefetch_started /\ ~s.fast_handoff_accepted
    BY <1>2, <1>5 DEF PrefetchOK
  <2>2. Taken /\ ~Handed
    BY <1>2, <1>5, <2>1 DEF Taken, Handed
  <2>3. Prepared /\ ~raises("feeder_start")
    BY <1>1, <2>1, <2>2 DEF FeedOK, FeedHeld, FeedComes, FeedRuns, FeedIdle
  <2>4. ~last_k /\ Cur = given - 1
    BY <2>1, <2>2 DEF PrefetchOK, Cur
  <2>5. Cur + 1 < Total(layer) /\ given \in Nat
    BY <2>4, <1>3, Here DEF HistoryOK
  <2> QED BY <1>1, <1>2, <1>3, <1>5, <2>1, <2>2, <2>3, <2>4, <2>5
<1> QED BY <1>4, <1>5

\* A final context is collected last, after it became the current pass.
LEMMA FinalSeen ==
  ASSUME IInv, NEW in \in Answers, Edge(in), s.busy, final_done(in)
  PROVE  Taken /\ ~Handed /\ last_k /\ collected + 1 = given
<1> USE DEF IInv
<1>1. continuous /\ in.collects /\ Head(uncollected).final
  BY DEF final_done
<1>2. collected + Running < given /\ Running \in {0, 1}
  BY <1>1, AnswersMean DEF Running
<1>3. given \in Nat /\ collected \in Nat /\ Head(uncollected) = Pass(layer, collected)
  BY <1>2, Slide DEF HistoryOK
<1>4. /\ layer \in Layers /\ Cur \in Nat /\ Cur < Total(layer)
      /\ s.pass_index = Place(layer, Cur) /\ Pass(layer, Cur).final = last_k
  BY Here
<1>5. Cur - s.pass_index <= collected
  BY <1>1 DEF CollectOK
<1>6. ~(collected < Cur)
  <2> DEFINE c == Cur
  <2> HIDE DEF c
  <2> SUFFICES ASSUME collected < c PROVE FALSE
    BY DEF c
  <2> QED BY <1>1, <1>3, <1>4, <1>5, OnlyLastFinal DEF c
<1>7. Handed => left # 0
  BY DEF ComputeOK
<1>8. (Taken /\ ~Handed /\ Cur = given - 1) \/ collected = Cur
  BY <1>2, <1>3, <1>6, <1>7 DEF Cur, Running
<1>9. ~(Handed /\ Taken)
  <2> SUFFICES ASSUME Handed, Taken PROVE FALSE
    OBVIOUS
  <2>1. collected = Cur
    BY <1>8
  <2>2. last_k
    BY <2>1, <1>1, <1>3, <1>4
  <2>3. s.prefetch_started
    BY DEF Handed, PrefetchOK
  <2> QED BY <2>2, <2>3 DEF PrefetchOK
<1>10. Taken
  BY <1>2, <1>3, <1>6 DEF Cur
<1>11. collected = Cur /\ Cur = given - 1
  BY <1>2, <1>3, <1>6, <1>9, <1>10 DEF Cur
<1> QED BY <1>1, <1>3, <1>4, <1>9, <1>10, <1>11


\* The other parties on an edge that starts no layer.
Parties(in) ==
  /\ layer' = layer
  /\ ENABLE_FAST_CONTEXT_HANDOFF' = ENABLE_FAST_CONTEXT_HANDOFF
  /\ LoadersEdge(in)
  /\ feeding' = (IF raises("feeder_start") /\ feeder_start_ready THEN "filling"
                 ELSE IF in.feeder_done THEN "none"
                 ELSE IF in.level THEN "level" ELSE feeding)
  /\ fed' = fed + (IF in.feeder_done THEN 1 ELSE 0)
                - (IF fires_last(in) THEN 1 ELSE 0)
  /\ CoreEdge(in)
  /\ collecting' = ((collecting /\ ~in.collects) \/ in.activates)
  /\ draining' = (raises("psum_drain_start") \/ (draining /\ ~drain_done(in)))
  /\ given' = given + (IF in.accepted THEN 1 ELSE 0)
  /\ collected' = collected + (IF in.collects THEN 1 ELSE 0)

\* The parties take their steps on an edge that does not begin a layer.
LEMMA PartiesMove ==
  ASSUME NEW in, Edge(in), layer' = layer,
         s.state # "IDLE" \/ s'.state = "IDLE"
  PROVE  Parties(in)
BY DEF Edge, Parties, FeederEdge, CollectorEdge, HistoryEdge

\* The uncollected contexts stay those between the two counters.
LEMMA HistoryStep ==
  ASSUME IInv, NEW in \in Answers, Edge(in), Parties(in)
  PROVE  HistoryOK'
<1> USE DEF IInv
<1>1. given \in Nat /\ collected \in Nat /\ collected <= given
      /\ (left # 0 => collected < given)
      /\ uncollected = [i \in 1 .. given - collected |-> Pass(layer, collected + i - 1)]
      /\ given - collected <= Uncollected /\ Uncollected \in Nat
  BY PixelsAssumption DEF HistoryOK
<1>2. in.collects \in BOOLEAN /\ in.accepted \in BOOLEAN /\ in.fire \in BOOLEAN
      /\ (in.collects => collected + Running < given)
      /\ (in.fire => left # 0)
      /\ (in.accepted => given - collected < Uncollected)
  BY AnswersMean
<1>3. in.accepted => Head(prepared) = Pass(layer, given)
  BY Acceptance DEF Prepared
<1>4. /\ given' = given + (IF in.accepted THEN 1 ELSE 0)
      /\ collected' = collected + (IF in.collects THEN 1 ELSE 0)
      /\ layer' = layer
      /\ left' = IF in.accepted THEN layer.num_pixels ELSE IF in.fire THEN left - 1 ELSE left
  BY DEF Parties, CoreEdge
<1>5. uncollected' = (IF in.collects THEN Tail(uncollected) ELSE uncollected)
                      \o (IF in.accepted THEN <<Head(prepared)>> ELSE <<>>)
  BY DEF Edge, CollectorEdge
<1>6. given' \in Nat /\ collected' \in Nat /\ collected' <= given'
      /\ given' - collected' <= Uncollected
  BY <1>1, <1>2, <1>4 DEF Running
<1>7. left' # 0 => collected' < given'
  BY <1>1, <1>2, <1>4 DEF Running
<1>8. ASSUME NEW c \in Nat, NEW q, c <= given, c = collected',
             q = [i \in 1 .. given - c |-> Pass(layer, c + i - 1)],
             uncollected' = q \o (IF in.accepted THEN <<Head(prepared)>> ELSE <<>>)
      PROVE  uncollected' = [i \in 1 .. given' - c |-> Pass(layer, c + i - 1)]
  <2>1. q \o <<>> = q
        /\ q \o <<Pass(layer, given)>> =
             [i \in 1 .. (given + 1) - c |-> Pass(layer, c + i - 1)]
    <3>1. given \in Nat /\ c \in Nat /\ c <= given
          /\ q = [i \in 1 .. given - c |-> Pass(layer, c + i - 1)]
      BY <1>1, <1>8
    <3> QED BY ONLY <3>1, Slide
  <2>2. CASE in.accepted
    BY <2>1, <2>2, <1>3, <1>4, <1>8
  <2>3. CASE ~in.accepted
    <3>1. given' = given
      BY <2>3, <1>1, <1>4
    <3> QED BY <2>1, <2>3, <3>1, <1>8
  <2> QED BY <2>2, <2>3
<1>9. uncollected' = [i \in 1 .. given' - collected' |-> Pass(layer, collected' + i - 1)]
  <2>1. CASE in.collects
    <3>1. collected < given /\ collected + 1 \in Nat /\ collected + 1 <= given
          /\ collected' = collected + 1
      BY <2>1, <1>1, <1>2, <1>4 DEF Running
    <3>2. Tail(uncollected) =
            [i \in 1 .. given - (collected + 1) |-> Pass(layer, collected + 1 + i - 1)]
      BY <3>1, <1>1, Slide
    <3> QED BY <2>1, <3>1, <3>2, <1>5, <1>8
  <2>2. CASE ~in.collects
    <3>1. collected' = collected
      BY <2>2, <1>1, <1>4
    <3> QED BY <2>2, <3>1, <1>1, <1>5, <1>8
  <2> QED BY <2>1, <2>2
<1> QED BY <1>4, <1>6, <1>7, <1>9 DEF HistoryOK

\* The parties' state keeps its types.
LEMMA RegistersStep ==
  ASSUME IInv, NEW in \in Answers, Edge(in), Parties(in), Typed(s'),
         s'.busy = (s'.state # "IDLE")
  PROVE  RegistersOK'
<1> USE DEF IInv
<1>1. layer.num_pixels \in Nat /\ layer \in Layers
  BY LayersAssumption, PixelsAssumption DEF RegistersOK
<1>2. Typed(s)'
  OBVIOUS
<1>3. bias_loading' \in BOOLEAN /\ weight_loading' \in BOOLEAN /\ request' \in BOOLEAN
      /\ compute_done' \in BOOLEAN /\ collecting' \in BOOLEAN /\ draining' \in BOOLEAN
  BY AnswersMean DEF Parties, LoadersEdge, CoreEdge, RegistersOK, fires_last
<1>4. feeding' \in {"none", "filling", "level"}
  BY DEF Parties, RegistersOK
<1>5. weights' \in Nat /\ fed' \in Nat
  BY AnswersMean DEF Parties, LoadersEdge, RegistersOK, fires_last
<1>6. left' \in 0 .. layer'.num_pixels
  BY <1>1, AnswersMean DEF Parties, CoreEdge, RegistersOK
<1> QED
  BY <1>1, <1>2, <1>3, <1>4, <1>5, <1>6 DEF Parties, RegistersOK

-----------------------------------------------------------------------------
(* Keeping the position *)

\* The scheduler stays where it is.
LEMMA SamePosition ==
  ASSUME IInv, layer' = layer, PassKept(s'), s'.busy => s.busy /\ Cur' = Cur
  PROVE  Position' /\ IdlePosition'
<1> USE DEF IInv
<1>1. /\ s'.pass_base_k = s.pass_base_k /\ s'.cout_base = s.cout_base
      /\ s'.pass_index = s.pass_index /\ s'.pass_bank = s.pass_bank
  BY DEF PassKept
<1>2. Position'
  BY <1>1 DEF Position
<1>3. IdlePosition'
  BY <1>1, Here DEF IdlePosition, Position
<1> QED BY <1>2, <1>3

\* It goes on to the next pass of its block.
LEMMA NextPosition ==
  ASSUME IInv, layer' = layer, s.busy, ~last_k, Cur' = Cur + 1, s'.busy,
         s'.cout_base = s.cout_base, s'.pass_base_k = next_k,
         s'.pass_index = s.pass_index + 1, s'.pass_bank = 1 - s.pass_bank
  PROVE  Position' /\ IdlePosition'
<1> USE DEF IInv
<1>1. /\ Cur \in Nat /\ Cur + 1 < Total(layer)
      /\ Place(layer, Cur + 1) = s.pass_index + 1
      /\ Pass(layer, Cur + 1).cout = s.cout_base /\ Pass(layer, Cur + 1).k = next_k
  BY Here
<1>2. s'.pass_bank = s'.pass_index % 2
  BY DEF Position, RegistersOK, Typed
<1> QED BY <1>1, <1>2 DEF Position, IdlePosition, Place

\* It goes on to the first pass of the next block.
LEMMA NextBlockPosition ==
  ASSUME IInv, layer' = layer, s.busy, last_k, ~last_cout, Cur' = Cur + 1, s'.busy,
         s'.cout_base = (s.cout_base + COUT_TILE) % CoutMod, s'.pass_base_k = 0,
         s'.pass_index = 0, s'.pass_bank = 0
  PROVE  Position' /\ IdlePosition'
<1> USE DEF IInv
<1>1. /\ Cur \in Nat /\ Cur + 1 < Total(layer) /\ Place(layer, Cur + 1) = 0
      /\ Pass(layer, Cur + 1).cout = (s.cout_base + COUT_TILE) % CoutMod
      /\ Pass(layer, Cur + 1).k = 0
  BY Here
<1>2. s'.pass_bank = s'.pass_index % 2
  OBVIOUS
<1> QED BY <1>1, <1>2 DEF Position, IdlePosition, Place


-----------------------------------------------------------------------------
(* Each action keeps the invariant *)

\* Outside COMP_WAIT the core has nothing to do.
LEMMA Quiet ==
  ASSUME IInv, NEW in \in Answers, Edge(in), s.state # "COMP_WAIT"
  PROVE  /\ ~in.accepted /\ ~in.fire /\ ~fires_last(in)
         /\ left = 0 /\ ~compute_done /\ ~request /\ ~raises("compute_start")
         /\ ~s.fast_handoff_armed /\ ~s.fast_handoff_accepted
<1> USE DEF IInv
<1>1. left = 0 /\ ~compute_done
  BY DEF ComputeOK
<1>2. ~request /\ ~raises("compute_start")
  BY DEF PulsesOK, Asked
<1>3. ~in.accepted /\ ~in.fire
  BY <1>1, <1>2, AnswersMean
<1>4. ~s.fast_handoff_armed /\ ~s.fast_handoff_accepted
  BY DEF PrefetchOK
<1> QED BY <1>1, <1>2, <1>3, <1>4 DEF fires_last



\* Requested weights come, and are kept until the core takes them.
LEMMA WeightsCome ==
  ASSUME IInv, NEW in \in Answers, Edge(in), Parties(in), ~in.accepted,
         "weight_load_start" \notin s'.pulse
  PROVE  /\ WeightGone => WeightGone' /\ ~in.weight_load_done
         /\ WeightHeld => WeightHeld' /\ ~in.weight_load_done
         /\ WeightComes => IF in.weight_load_done THEN WeightHeld' ELSE WeightComes'
<1>1. /\ weight_loading' =
           (raises("weight_load_start") \/ (weight_loading /\ ~in.weight_load_done))
      /\ weights' = weights + (IF in.weight_load_done THEN 1 ELSE 0)
      /\ weights \in Nat /\ weight_loading \in BOOLEAN
  BY DEF IInv, RegistersOK, Parties, LoadersEdge
<1>2. in.weight_load_done \in BOOLEAN /\ (in.weight_load_done => weight_loading)
  BY AnswersMean DEF IInv
<1>3. ~raises("weight_load_start")'
  BY DEF raises
<1>4. WeightGone => WeightGone' /\ ~in.weight_load_done
  BY <1>1, <1>2, <1>3 DEF WeightGone
<1>5. WeightHeld => WeightHeld' /\ ~in.weight_load_done
  BY <1>1, <1>2, <1>3 DEF WeightHeld
<1>6. ASSUME WeightComes
      PROVE  IF in.weight_load_done THEN WeightHeld' ELSE WeightComes'
  <2>1. weights = 0 /\ (raises("weight_load_start") <=> ~weight_loading)
    BY <1>6 DEF WeightComes
  <2>2. ASSUME in.weight_load_done PROVE WeightHeld'
    <3>1. ~raises("weight_load_start") /\ ~weight_loading'
      BY <2>1, <2>2, <1>1, <1>2
    <3>2. weights' = 1
      BY <2>1, <2>2, <1>1
    <3> QED BY <3>1, <3>2, <1>3 DEF WeightHeld
  <2>3. ASSUME ~in.weight_load_done PROVE WeightComes'
    <3>1. weight_loading'
      BY <2>1, <2>3, <1>1
    <3>2. weights' = 0
      BY <2>1, <2>3, <1>1
    <3> QED BY <3>1, <3>2, <1>3 DEF WeightComes
  <2> QED BY <2>2, <2>3
<1> QED BY <1>4, <1>5, <1>6

\* The weights of the prefetched pass, while it is not yet accepted.
LEMMA WeightNoted ==
  ASSUME IInv, NEW in \in Answers, Edge(in), Parties(in), ~in.accepted,
         Taken, ~Handed, PrefetchNoted(s', in),
         "weight_load_start" \notin s'.pulse
  PROVE  IF ~s'.prefetch_started THEN WeightGone'
         ELSE IF s'.prefetch_weight_done THEN WeightHeld' ELSE WeightComes'
<1>1. /\ s'.prefetch_started = s.prefetch_started
      /\ s'.prefetch_weight_done =
           (s.prefetch_weight_done \/ (s.prefetch_started /\ in.weight_load_done))
  BY DEF PrefetchNoted
<1>2. IF ~s.prefetch_started THEN WeightGone
      ELSE IF s.prefetch_weight_done THEN WeightHeld ELSE WeightComes
  BY DEF IInv, WeightOK
<1>3. /\ WeightGone => WeightGone' /\ ~in.weight_load_done
      /\ WeightHeld => WeightHeld' /\ ~in.weight_load_done
      /\ WeightComes => IF in.weight_load_done THEN WeightHeld' ELSE WeightComes'
  BY WeightsCome
<1> QED BY <1>1, <1>2, <1>3

\* A feed that was started ends, and its context stays prepared until the core
\* takes it.
LEMMA FeedsCome ==
  ASSUME IInv, NEW in \in Answers, Edge(in), Parties(in), ~in.accepted,
         "feeder_start" \notin s'.pulse
  PROVE  /\ FeedGone => FeedGone' /\ ~in.feeder_done
         /\ FeedIdle => FeedIdle' /\ ~in.feeder_done
         /\ FeedRuns => IF in.feeder_done THEN FeedIdle' ELSE FeedRuns'
         /\ Prepared /\ ~raises("feeder_start") => Prepared'
         /\ FeedComes => IF in.feeder_done THEN FeedHeld' ELSE FeedComes'
         /\ prepared = <<>> /\ ~raises("feeder_start") => prepared' = <<>>
<1>1. /\ feeding' = (IF raises("feeder_start") /\ feeder_start_ready THEN "filling"
                     ELSE IF in.feeder_done THEN "none"
                     ELSE IF in.level THEN "level" ELSE feeding)
      /\ given' = given /\ layer' = layer /\ FeederEdge(in)
      /\ feeding \in {"none", "filling", "level"}
  BY DEF Parties, Edge, IInv, HistoryOK, RegistersOK
<1>2. /\ in.feeder_done \in BOOLEAN /\ in.level \in BOOLEAN
      /\ (in.feeder_done => feeding # "none") /\ (in.level => feeding = "filling")
  BY AnswersMean DEF IInv
<1>3. ~raises("feeder_start")'
  BY DEF raises
<1>4. /\ ~raises("feeder_start") /\ prepared = <<>> => prepared' = <<>>
      /\ ~raises("feeder_start") /\ Prepared => Prepared'
      /\ raises("feeder_start") /\ prepared = <<>> => prepared' = <<FedPass>>
  BY <1>1, PreparedNext DEF Prepared
<1>5. FeedIdle => FeedIdle' /\ ~in.feeder_done
  BY <1>1, <1>2, <1>3 DEF FeedIdle
<1>6. FeedRuns => IF in.feeder_done THEN FeedIdle' ELSE FeedRuns'
  BY <1>1, <1>2, <1>3 DEF FeedIdle, FeedRuns
<1>7. FeedGone => FeedGone' /\ ~in.feeder_done
  BY <1>4, <1>5 DEF FeedGone, FeedIdle
<1>8. ASSUME raises("feeder_start"), feeding = "none", prepared = <<>>
      PROVE  ~in.feeder_done /\ FeedRuns' /\ Prepared'
  <2>1. feeder_start_ready
    BY <1>8 DEF feeder_start_ready
  <2>2. FedPass = Pass(layer, given)
    BY <1>8 DEF IInv, FeedOK
  <2>3. Prepared'
    BY <2>2, <1>1, <1>4, <1>8 DEF Prepared
  <2> QED BY <2>1, <2>3, <1>1, <1>2, <1>3, <1>8 DEF FeedRuns
<1>9. ASSUME FeedRuns, Prepared
      PROVE  IF in.feeder_done THEN FeedHeld' ELSE FeedRuns' /\ Prepared'
  BY <1>4, <1>6, <1>9 DEF FeedHeld, FeedRuns
<1>10. FeedComes => IF in.feeder_done THEN FeedHeld' ELSE FeedComes'
  BY <1>8, <1>9 DEF FeedComes
<1> QED BY <1>4, <1>5, <1>6, <1>7, <1>10

\* The feed of the prefetched pass, while it is not yet accepted.
LEMMA FeedNoted ==
  ASSUME IInv, NEW in \in Answers, Edge(in), Parties(in), ~in.accepted,
         Taken, ~Handed, s.feeder_done_seen, PrefetchNoted(s', in),
         "feeder_start" \notin s'.pulse
  PROVE  IF ~s'.prefetch_started THEN FeedGone' /\ fed' = Running'
         ELSE IF s'.prefetch_feed_done THEN FeedHeld' /\ fed' = Running' + 1
         ELSE FeedComes' /\ fed' = Running'
<1>1. /\ s'.prefetch_started = s.prefetch_started
      /\ s'.prefetch_feed_done =
           (s.prefetch_feed_done \/ (s.prefetch_started /\ in.feeder_done))
  BY DEF PrefetchNoted
<1>2. IF ~s.prefetch_started THEN FeedGone /\ fed = Running
      ELSE IF s.prefetch_feed_done THEN FeedHeld /\ fed = Running + 1
      ELSE FeedComes /\ fed = Running
  BY DEF IInv, FeedOK
<1>3. /\ FeedGone => FeedGone' /\ ~in.feeder_done
      /\ FeedHeld => FeedHeld' /\ ~in.feeder_done
      /\ FeedComes => IF in.feeder_done THEN FeedHeld' ELSE FeedComes'
  BY FeedsCome DEF FeedHeld, FeedIdle
<1>4. /\ fed' = fed + (IF in.feeder_done THEN 1 ELSE 0)
                    - (IF fires_last(in) THEN 1 ELSE 0)
      /\ left' = (IF in.fire THEN left - 1 ELSE left)
      /\ left \in Nat /\ (in.fire => left # 0)
      /\ in.feeder_done \in BOOLEAN /\ in.fire \in BOOLEAN
  BY AnswersMean, LayersAssumption DEF Parties, CoreEdge, IInv, RegistersOK
<1>5. Running' = Running - (IF fires_last(in) THEN 1 ELSE 0) /\ Running \in {0, 1}
  BY <1>4 DEF Running, fires_last
<1>6. fires_last(in) \in BOOLEAN
  BY <1>4 DEF fires_last
<1> HIDE DEF Running
<1>8. s.prefetch_started \in BOOLEAN /\ s.prefetch_feed_done \in BOOLEAN
  BY DEF IInv, RegistersOK, Typed
<1>9. CASE ~s.prefetch_started
  BY <1>9, <1>1, <1>2, <1>3, <1>4, <1>5, <1>6, <1>8
<1>10. CASE s.prefetch_started /\ s.prefetch_feed_done
  <2>1. FeedHeld' /\ ~in.feeder_done /\ fed = Running + 1
    BY <1>2, <1>3, <1>10
  <2>2. fed' = Running' + 1
    BY <2>1, <1>4, <1>5, <1>6
  <2> QED BY <2>1, <2>2, <1>1, <1>10
<1>11. CASE s.prefetch_started /\ ~s.prefetch_feed_done
  BY <1>11, <1>1, <1>2, <1>3, <1>4, <1>5, <1>6, <1>8
<1> QED BY <1>8, <1>9, <1>10, <1>11

\* The feed of a pass that is asked for but not yet accepted.
LEMMA FeedKept ==
  ASSUME IInv, NEW in \in Answers, Edge(in), Parties(in), ~in.accepted, left = 0,
         Prepared, IF s.feeder_done_seen THEN FeedIdle /\ fed = 1
                   ELSE FeedRuns /\ fed = 0,
         s'.feeder_done_seen = feed_kept(in), "feeder_start" \notin s'.pulse
  PROVE  /\ Prepared'
         /\ IF s'.feeder_done_seen THEN FeedIdle' /\ fed' = 1
            ELSE FeedRuns' /\ fed' = 0
<1>1. ~raises("feeder_start")
  BY DEF FeedIdle, FeedRuns
<1>2. /\ FeedIdle => FeedIdle' /\ ~in.feeder_done
      /\ FeedRuns => IF in.feeder_done THEN FeedIdle' ELSE FeedRuns'
      /\ Prepared'
  BY <1>1, FeedsCome
<1>3. in.feeder_done \in BOOLEAN /\ ~in.fire
  BY AnswersMean DEF IInv
<1>4. fed' = fed + (IF in.feeder_done THEN 1 ELSE 0)
  BY <1>3 DEF Parties, fires_last, IInv, RegistersOK
<1>5. s.feeder_done_seen \in BOOLEAN
  BY DEF IInv, RegistersOK, Typed
<1> QED BY <1>2, <1>3, <1>4, <1>5 DEF feed_kept



\* An edge without a layer to run.
LEMMA IdleStep ==
  ASSUME IInv, NEW in \in Answers, Edge(in), layer' = layer, Idle(in)
  PROVE  IInv'
<1> USE DEF IInv, raises, continuous
<1>1. Typed(s)
  BY DEF RegistersOK
<1>2. /\ s.state = "IDLE" /\ s'.state = "IDLE" /\ s'.pulse = {}
      /\ PassKept(s') /\ ComputeKept(s') /\ PrefetchNoted(s', in) /\ PendingNoted(s', in) /\ DrainKept(s') /\ HandoffNoted(s', in) /\ s'.busy = FALSE /\ Typed(s')
  BY <1>1, IdleFields
<1>3. Parties(in) /\ s.busy = (s.state # "IDLE") /\ s'.busy = (s'.state # "IDLE")
  BY <1>2, PartiesMove DEF RegistersOK
<1>4. /\ ~in.accepted /\ ~in.fire /\ ~fires_last(in)
      /\ left = 0 /\ ~compute_done /\ ~request /\ ~raises("compute_start")
      /\ ~s.fast_handoff_armed /\ ~s.fast_handoff_accepted
  BY <1>2, Quiet
<1>5. RegistersOK' /\ HistoryOK'
  BY <1>2, <1>3, HistoryStep, RegistersStep
<1>6. given' = given /\ given \in Nat
  BY <1>3, <1>4 DEF Parties, HistoryOK
<1>7. /\ ~s'.fast_handoff_armed /\ ~s'.fast_handoff_accepted
      /\ ~Taken /\ ~Taken' /\ ~Waiting /\ ~Waiting' /\ ~Handed /\ ~Handed'
  BY <1>2, <1>3, <1>4
     DEF HandoffNoted, fast_handoff_accepted_now, Taken, Ending, Waiting, Handed,
         Asked, Parties, CoreEdge, fast_handoff_pending_now
<1>8. Cur' = Cur /\ Cur = given
  BY <1>2, <1>6, <1>7 DEF Cur
<1>9. Position' /\ IdlePosition'
  BY <1>2, <1>3, <1>8, SamePosition
<1>10. PulsesOK'
  BY <1>2, <1>3, <1>4, AnswersMean
     DEF PulsesOK, Asked, Parties, LoadersEdge, CoreEdge, RegistersOK
<1>11. WeightOK'
  BY <1>2, <1>3, <1>4, <1>7, AnswersMean
     DEF WeightOK, WeightGone, WeightHeld, WeightComes, Parties, LoadersEdge,
         RegistersOK, PrefetchNoted, PrefetchOK, prefetch_ready_now
<1>12. FeedOK'
  BY <1>2, <1>3, <1>4, <1>6, <1>7, AnswersMean, PreparedNext
     DEF FeedOK, FeedGone, FeedIdle, FeedHeld, FeedRuns, FeedComes, Prepared,
         Running, Parties, Edge, CoreEdge, RegistersOK, PrefetchNoted, PrefetchOK,
         feeder_start_ready, prefetch_ready_now, feeder_compute_ready, feed_kept
<1>13. ComputeOK'
  BY <1>2, <1>3, <1>4, <1>7 DEF ComputeOK, Parties, CoreEdge, ComputeKept
<1>14. PrefetchOK'
  BY <1>2, <1>3, <1>7
     DEF PrefetchOK, PrefetchNoted, PassKept, prefetch_enable_current, last_k,
         next_k, Parties, overlap_mode
<1>15. DrainOK'
  <2>1. SUFFICES ASSUME ~continuous PROVE DrainOK'
    BY <1>3 DEF DrainOK, Parties
  <2>2. ~collecting'
    BY <1>3, <2>1, AnswersMean DEF DrainOK, Parties
  <2> QED
    BY <1>2, <1>3, <1>4, <1>6, <1>7, <1>8, <2>1, <2>2, AnswersMean
       DEF DrainOK, DrainGone, DrainComes, Beginning, Parties, PendingNoted, DrainKept,
           drain_done, HistoryOK, RegistersOK, Running
<1>16. CollectOK'
  <2>1. SUFFICES ASSUME continuous PROVE CollectOK'
    BY <1>3 DEF CollectOK, Parties
  <2>2. DrainGone' /\ ~s'.prev_drain_pending
    BY <1>2, <1>3, <2>1, AnswersMean DEF CollectOK, DrainGone, Parties, PendingNoted
  <2>3. collecting' => collected' < given'
    BY <1>3, <1>6, <2>1, AnswersMean DEF CollectOK, Parties, HistoryOK
  <2>4. s'.busy => Cur' - s'.pass_index <= collected'
    BY <1>2, <1>3, <1>6, <1>8, <2>1, AnswersMean
       DEF CollectOK, Parties, HistoryOK, Typed, PassKept, PrefetchOK
  <2> QED
    BY <1>2, <1>3, <1>6, <1>7, <2>1, <2>2, <2>3, <2>4, AnswersMean
       DEF CollectOK, Parties, HistoryOK, Running
<1>17. EndOK'
  BY <1>2, <1>3, <1>6 DEF EndOK, Parties
<1> QED
  BY <1>5, <1>9, <1>10, <1>11, <1>12, <1>13, <1>14, <1>15, <1>16, <1>17

\* The biases are requested.
LEMMA BiasStartStep ==
  ASSUME IInv, NEW in \in Answers, Edge(in), layer' = layer, BiasStart(in)
  PROVE  IInv'
<1> USE DEF IInv, raises, continuous
<1>1. Typed(s)
  BY DEF RegistersOK
<1>2. /\ s.state = "BIAS_START" /\ s'.state = "BIAS_WAIT" /\ s'.pulse = {"bias_load_start"}
      /\ PassKept(s') /\ ComputeKept(s') /\ PrefetchNoted(s', in) /\ PendingNoted(s', in) /\ DrainKept(s') /\ HandoffNoted(s', in)
      /\ s'.busy = s.busy /\ Typed(s')
  BY <1>1, BiasStartFields
<1>3. Parties(in) /\ s.busy = (s.state # "IDLE") /\ s'.busy = (s'.state # "IDLE")
  BY <1>2, PartiesMove DEF RegistersOK
<1>4. /\ ~in.accepted /\ ~in.fire /\ ~fires_last(in)
      /\ left = 0 /\ ~compute_done /\ ~request /\ ~raises("compute_start")
      /\ ~s.fast_handoff_armed /\ ~s.fast_handoff_accepted
  BY <1>2, Quiet
<1>5. RegistersOK' /\ HistoryOK'
  BY <1>2, <1>3, HistoryStep, RegistersStep
<1>6. given' = given /\ given \in Nat
  BY <1>3, <1>4 DEF Parties, HistoryOK
<1>7. /\ ~s'.fast_handoff_armed /\ ~s'.fast_handoff_accepted
      /\ ~Taken /\ ~Taken' /\ ~Waiting /\ ~Waiting' /\ ~Handed /\ ~Handed'
  BY <1>2, <1>3, <1>4
     DEF HandoffNoted, fast_handoff_accepted_now, Taken, Ending, Waiting, Handed,
         Asked, Parties, CoreEdge, fast_handoff_pending_now
<1>8. Cur' = Cur /\ Cur = given
  BY <1>2, <1>6, <1>7 DEF Cur
<1>9. Position' /\ IdlePosition'
  BY <1>2, <1>3, <1>8, SamePosition
<1>10. PulsesOK'
  BY <1>2, <1>3, <1>4, AnswersMean
     DEF PulsesOK, Asked, Parties, LoadersEdge, CoreEdge, RegistersOK
<1>11. WeightOK'
  BY <1>2, <1>3, <1>4, <1>7, AnswersMean
     DEF WeightOK, WeightGone, WeightHeld, WeightComes, Parties, LoadersEdge,
         RegistersOK, PrefetchNoted, PrefetchOK, prefetch_ready_now
<1>12. FeedOK'
  BY <1>2, <1>3, <1>4, <1>6, <1>7, AnswersMean, PreparedNext
     DEF FeedOK, FeedGone, FeedIdle, FeedHeld, FeedRuns, FeedComes, Prepared,
         Running, Parties, Edge, CoreEdge, RegistersOK, PrefetchNoted, PrefetchOK,
         feeder_start_ready, prefetch_ready_now, feeder_compute_ready, feed_kept
<1>13. ComputeOK'
  BY <1>2, <1>3, <1>4, <1>7 DEF ComputeOK, Parties, CoreEdge, ComputeKept
<1>14. PrefetchOK'
  BY <1>2, <1>3, <1>7
     DEF PrefetchOK, PrefetchNoted, PassKept, prefetch_enable_current, last_k,
         next_k, Parties, overlap_mode
<1>15. DrainOK'
  <2>1. SUFFICES ASSUME ~continuous PROVE DrainOK'
    BY <1>3 DEF DrainOK, Parties
  <2>2. ~collecting'
    BY <1>3, <2>1, AnswersMean DEF DrainOK, Parties
  <2> QED
    BY <1>2, <1>3, <1>4, <1>6, <1>7, <1>8, <2>1, <2>2, AnswersMean
       DEF DrainOK, DrainGone, DrainComes, Beginning, Parties, PendingNoted, DrainKept,
           drain_done, HistoryOK, RegistersOK, Running
<1>16. CollectOK'
  <2>1. SUFFICES ASSUME continuous PROVE CollectOK'
    BY <1>3 DEF CollectOK, Parties
  <2>2. DrainGone' /\ ~s'.prev_drain_pending
    BY <1>2, <1>3, <2>1, AnswersMean DEF CollectOK, DrainGone, Parties, PendingNoted
  <2>3. collecting' => collected' < given'
    BY <1>3, <1>6, <2>1, AnswersMean DEF CollectOK, Parties, HistoryOK
  <2>4. s'.busy => Cur' - s'.pass_index <= collected'
    BY <1>2, <1>3, <1>6, <1>8, <2>1, AnswersMean
       DEF CollectOK, Parties, HistoryOK, Typed, PassKept, PrefetchOK
  <2> QED
    BY <1>2, <1>3, <1>6, <1>7, <2>1, <2>2, <2>3, <2>4, AnswersMean
       DEF CollectOK, Parties, HistoryOK, Running
<1>17. EndOK'
  BY <1>2, <1>3, <1>6 DEF EndOK, Parties
<1> QED
  BY <1>5, <1>9, <1>10, <1>11, <1>12, <1>13, <1>14, <1>15, <1>16, <1>17

\* The biases are waited for.
LEMMA BiasWaitStep ==
  ASSUME IInv, NEW in \in Answers, Edge(in), layer' = layer, BiasWait(in)
  PROVE  IInv'
<1> USE DEF IInv, raises, continuous
<1>1. Typed(s)
  BY DEF RegistersOK
<1>2. /\ s.state = "BIAS_WAIT" /\ s'.state = (IF in.bias_load_done THEN "WGT_START" ELSE "BIAS_WAIT") /\ s'.pulse = {}
      /\ PassKept(s') /\ ComputeKept(s') /\ PrefetchNoted(s', in) /\ PendingNoted(s', in) /\ DrainKept(s') /\ HandoffNoted(s', in)
      /\ s'.busy = s.busy /\ Typed(s')
  BY <1>1, BiasWaitFields
<1>3. Parties(in) /\ s.busy = (s.state # "IDLE") /\ s'.busy = (s'.state # "IDLE")
  BY <1>2, PartiesMove DEF RegistersOK
<1>4. /\ ~in.accepted /\ ~in.fire /\ ~fires_last(in)
      /\ left = 0 /\ ~compute_done /\ ~request /\ ~raises("compute_start")
      /\ ~s.fast_handoff_armed /\ ~s.fast_handoff_accepted
  BY <1>2, Quiet
<1>5. RegistersOK' /\ HistoryOK'
  BY <1>2, <1>3, HistoryStep, RegistersStep
<1>6. given' = given /\ given \in Nat
  BY <1>3, <1>4 DEF Parties, HistoryOK
<1>7. /\ ~s'.fast_handoff_armed /\ ~s'.fast_handoff_accepted
      /\ ~Taken /\ ~Taken' /\ ~Waiting /\ ~Waiting' /\ ~Handed /\ ~Handed'
  BY <1>2, <1>3, <1>4
     DEF HandoffNoted, fast_handoff_accepted_now, Taken, Ending, Waiting, Handed,
         Asked, Parties, CoreEdge, fast_handoff_pending_now
<1>8. Cur' = Cur /\ Cur = given
  BY <1>2, <1>6, <1>7 DEF Cur
<1>9. Position' /\ IdlePosition'
  BY <1>2, <1>3, <1>8, SamePosition
<1>10. PulsesOK'
  BY <1>2, <1>3, <1>4, AnswersMean
     DEF PulsesOK, Asked, Parties, LoadersEdge, CoreEdge, RegistersOK
<1>11. WeightOK'
  BY <1>2, <1>3, <1>4, <1>7, AnswersMean
     DEF WeightOK, WeightGone, WeightHeld, WeightComes, Parties, LoadersEdge,
         RegistersOK, PrefetchNoted, PrefetchOK, prefetch_ready_now
<1>12. FeedOK'
  BY <1>2, <1>3, <1>4, <1>6, <1>7, AnswersMean, PreparedNext
     DEF FeedOK, FeedGone, FeedIdle, FeedHeld, FeedRuns, FeedComes, Prepared,
         Running, Parties, Edge, CoreEdge, RegistersOK, PrefetchNoted, PrefetchOK,
         feeder_start_ready, prefetch_ready_now, feeder_compute_ready, feed_kept
<1>13. ComputeOK'
  BY <1>2, <1>3, <1>4, <1>7 DEF ComputeOK, Parties, CoreEdge, ComputeKept
<1>14. PrefetchOK'
  BY <1>2, <1>3, <1>7
     DEF PrefetchOK, PrefetchNoted, PassKept, prefetch_enable_current, last_k,
         next_k, Parties, overlap_mode
<1>15. DrainOK'
  <2>1. SUFFICES ASSUME ~continuous PROVE DrainOK'
    BY <1>3 DEF DrainOK, Parties
  <2>2. ~collecting'
    BY <1>3, <2>1, AnswersMean DEF DrainOK, Parties
  <2> QED
    BY <1>2, <1>3, <1>4, <1>6, <1>7, <1>8, <2>1, <2>2, AnswersMean
       DEF DrainOK, DrainGone, DrainComes, Beginning, Parties, PendingNoted, DrainKept,
           drain_done, HistoryOK, RegistersOK, Running
<1>16. CollectOK'
  <2>1. SUFFICES ASSUME continuous PROVE CollectOK'
    BY <1>3 DEF CollectOK, Parties
  <2>2. DrainGone' /\ ~s'.prev_drain_pending
    BY <1>2, <1>3, <2>1, AnswersMean DEF CollectOK, DrainGone, Parties, PendingNoted
  <2>3. collecting' => collected' < given'
    BY <1>3, <1>6, <2>1, AnswersMean DEF CollectOK, Parties, HistoryOK
  <2>4. s'.busy => Cur' - s'.pass_index <= collected'
    BY <1>2, <1>3, <1>6, <1>8, <2>1, AnswersMean
       DEF CollectOK, Parties, HistoryOK, Typed, PassKept, PrefetchOK
  <2> QED
    BY <1>2, <1>3, <1>6, <1>7, <2>1, <2>2, <2>3, <2>4, AnswersMean
       DEF CollectOK, Parties, HistoryOK, Running
<1>17. EndOK'
  BY <1>2, <1>3, <1>6 DEF EndOK, Parties
<1> QED
  BY <1>5, <1>9, <1>10, <1>11, <1>12, <1>13, <1>14, <1>15, <1>16, <1>17

\* The weights are requested.
LEMMA WeightStartStep ==
  ASSUME IInv, NEW in \in Answers, Edge(in), layer' = layer, WeightStart(in)
  PROVE  IInv'
<1> USE DEF IInv, raises, continuous
<1>1. Typed(s)
  BY DEF RegistersOK
<1>2. /\ s.state = "WGT_START" /\ s'.state = "WGT_WAIT" /\ s'.pulse = {"weight_load_start"}
      /\ PassKept(s') /\ ComputeKept(s') /\ PrefetchNoted(s', in) /\ PendingNoted(s', in) /\ DrainKept(s') /\ HandoffNoted(s', in)
      /\ s'.busy = s.busy /\ Typed(s')
  BY <1>1, WeightStartFields
<1>3. Parties(in) /\ s.busy = (s.state # "IDLE") /\ s'.busy = (s'.state # "IDLE")
  BY <1>2, PartiesMove DEF RegistersOK
<1>4. /\ ~in.accepted /\ ~in.fire /\ ~fires_last(in)
      /\ left = 0 /\ ~compute_done /\ ~request /\ ~raises("compute_start")
      /\ ~s.fast_handoff_armed /\ ~s.fast_handoff_accepted
  BY <1>2, Quiet
<1>5. RegistersOK' /\ HistoryOK'
  BY <1>2, <1>3, HistoryStep, RegistersStep
<1>6. given' = given /\ given \in Nat
  BY <1>3, <1>4 DEF Parties, HistoryOK
<1>7. /\ ~s'.fast_handoff_armed /\ ~s'.fast_handoff_accepted
      /\ ~Taken /\ ~Taken' /\ ~Waiting /\ ~Waiting' /\ ~Handed /\ ~Handed'
  BY <1>2, <1>3, <1>4
     DEF HandoffNoted, fast_handoff_accepted_now, Taken, Ending, Waiting, Handed,
         Asked, Parties, CoreEdge, fast_handoff_pending_now
<1>8. Cur' = Cur /\ Cur = given
  BY <1>2, <1>6, <1>7 DEF Cur
<1>9. Position' /\ IdlePosition'
  BY <1>2, <1>3, <1>8, SamePosition
<1>10. PulsesOK'
  BY <1>2, <1>3, <1>4, AnswersMean
     DEF PulsesOK, Asked, Parties, LoadersEdge, CoreEdge, RegistersOK
<1>11. WeightOK'
  BY <1>2, <1>3, <1>4, <1>7, AnswersMean
     DEF WeightOK, WeightGone, WeightHeld, WeightComes, Parties, LoadersEdge,
         RegistersOK, PrefetchNoted, PrefetchOK, prefetch_ready_now
<1>12. FeedOK'
  BY <1>2, <1>3, <1>4, <1>6, <1>7, AnswersMean, PreparedNext
     DEF FeedOK, FeedGone, FeedIdle, FeedHeld, FeedRuns, FeedComes, Prepared,
         Running, Parties, Edge, CoreEdge, RegistersOK, PrefetchNoted, PrefetchOK,
         feeder_start_ready, prefetch_ready_now, feeder_compute_ready, feed_kept
<1>13. ComputeOK'
  BY <1>2, <1>3, <1>4, <1>7 DEF ComputeOK, Parties, CoreEdge, ComputeKept
<1>14. PrefetchOK'
  BY <1>2, <1>3, <1>7
     DEF PrefetchOK, PrefetchNoted, PassKept, prefetch_enable_current, last_k,
         next_k, Parties, overlap_mode
<1>15. DrainOK'
  <2>1. SUFFICES ASSUME ~continuous PROVE DrainOK'
    BY <1>3 DEF DrainOK, Parties
  <2>2. ~collecting'
    BY <1>3, <2>1, AnswersMean DEF DrainOK, Parties
  <2> QED
    BY <1>2, <1>3, <1>4, <1>6, <1>7, <1>8, <2>1, <2>2, AnswersMean
       DEF DrainOK, DrainGone, DrainComes, Beginning, Parties, PendingNoted, DrainKept,
           drain_done, HistoryOK, RegistersOK, Running
<1>16. CollectOK'
  <2>1. SUFFICES ASSUME continuous PROVE CollectOK'
    BY <1>3 DEF CollectOK, Parties
  <2>2. DrainGone' /\ ~s'.prev_drain_pending
    BY <1>2, <1>3, <2>1, AnswersMean DEF CollectOK, DrainGone, Parties, PendingNoted
  <2>3. collecting' => collected' < given'
    BY <1>3, <1>6, <2>1, AnswersMean DEF CollectOK, Parties, HistoryOK
  <2>4. s'.busy => Cur' - s'.pass_index <= collected'
    BY <1>2, <1>3, <1>6, <1>8, <2>1, AnswersMean
       DEF CollectOK, Parties, HistoryOK, Typed, PassKept, PrefetchOK
  <2> QED
    BY <1>2, <1>3, <1>6, <1>7, <2>1, <2>2, <2>3, <2>4, AnswersMean
       DEF CollectOK, Parties, HistoryOK, Running
<1>17. EndOK'
  BY <1>2, <1>3, <1>6 DEF EndOK, Parties
<1> QED
  BY <1>5, <1>9, <1>10, <1>11, <1>12, <1>13, <1>14, <1>15, <1>16, <1>17

\* The weights are waited for.
LEMMA WeightWaitStep ==
  ASSUME IInv, NEW in \in Answers, Edge(in), layer' = layer, WeightWait(in)
  PROVE  IInv'
<1> USE DEF IInv, raises, continuous
<1>1. Typed(s)
  BY DEF RegistersOK
<1>2. /\ s.state = "WGT_WAIT" /\ s'.state = (IF in.weight_load_done THEN "FEED_START" ELSE "WGT_WAIT") /\ s'.pulse = {}
      /\ PassKept(s') /\ ComputeKept(s') /\ PrefetchNoted(s', in) /\ PendingNoted(s', in) /\ DrainKept(s') /\ HandoffNoted(s', in)
      /\ s'.busy = s.busy /\ Typed(s')
  BY <1>1, WeightWaitFields
<1>3. Parties(in) /\ s.busy = (s.state # "IDLE") /\ s'.busy = (s'.state # "IDLE")
  BY <1>2, PartiesMove DEF RegistersOK
<1>4. /\ ~in.accepted /\ ~in.fire /\ ~fires_last(in)
      /\ left = 0 /\ ~compute_done /\ ~request /\ ~raises("compute_start")
      /\ ~s.fast_handoff_armed /\ ~s.fast_handoff_accepted
  BY <1>2, Quiet
<1>5. RegistersOK' /\ HistoryOK'
  BY <1>2, <1>3, HistoryStep, RegistersStep
<1>6. given' = given /\ given \in Nat
  BY <1>3, <1>4 DEF Parties, HistoryOK
<1>7. /\ ~s'.fast_handoff_armed /\ ~s'.fast_handoff_accepted
      /\ ~Taken /\ ~Taken' /\ ~Waiting /\ ~Waiting' /\ ~Handed /\ ~Handed'
  BY <1>2, <1>3, <1>4
     DEF HandoffNoted, fast_handoff_accepted_now, Taken, Ending, Waiting, Handed,
         Asked, Parties, CoreEdge, fast_handoff_pending_now
<1>8. Cur' = Cur /\ Cur = given
  BY <1>2, <1>6, <1>7 DEF Cur
<1>9. Position' /\ IdlePosition'
  BY <1>2, <1>3, <1>8, SamePosition
<1>10. PulsesOK'
  BY <1>2, <1>3, <1>4, AnswersMean
     DEF PulsesOK, Asked, Parties, LoadersEdge, CoreEdge, RegistersOK
<1>11. WeightOK'
  BY <1>2, <1>3, <1>4, <1>7, WeightsCome DEF WeightOK, RegistersOK
<1>12. FeedOK'
  BY <1>2, <1>3, <1>4, <1>6, <1>7, AnswersMean, PreparedNext
     DEF FeedOK, FeedGone, FeedIdle, FeedHeld, FeedRuns, FeedComes, Prepared,
         Running, Parties, Edge, CoreEdge, RegistersOK, PrefetchNoted, PrefetchOK,
         feeder_start_ready, prefetch_ready_now, feeder_compute_ready, feed_kept
<1>13. ComputeOK'
  BY <1>2, <1>3, <1>4, <1>7 DEF ComputeOK, Parties, CoreEdge, ComputeKept
<1>14. PrefetchOK'
  BY <1>2, <1>3, <1>7
     DEF PrefetchOK, PrefetchNoted, PassKept, prefetch_enable_current, last_k,
         next_k, Parties, overlap_mode
<1>15. DrainOK'
  <2>1. SUFFICES ASSUME ~continuous PROVE DrainOK'
    BY <1>3 DEF DrainOK, Parties
  <2>2. ~collecting'
    BY <1>3, <2>1, AnswersMean DEF DrainOK, Parties
  <2> QED
    BY <1>2, <1>3, <1>4, <1>6, <1>7, <1>8, <2>1, <2>2, AnswersMean
       DEF DrainOK, DrainGone, DrainComes, Beginning, Parties, PendingNoted, DrainKept,
           drain_done, HistoryOK, RegistersOK, Running
<1>16. CollectOK'
  <2>1. SUFFICES ASSUME continuous PROVE CollectOK'
    BY <1>3 DEF CollectOK, Parties
  <2>2. DrainGone' /\ ~s'.prev_drain_pending
    BY <1>2, <1>3, <2>1, AnswersMean DEF CollectOK, DrainGone, Parties, PendingNoted
  <2>3. collecting' => collected' < given'
    BY <1>3, <1>6, <2>1, AnswersMean DEF CollectOK, Parties, HistoryOK
  <2>4. s'.busy => Cur' - s'.pass_index <= collected'
    BY <1>2, <1>3, <1>6, <1>8, <2>1, AnswersMean
       DEF CollectOK, Parties, HistoryOK, Typed, PassKept, PrefetchOK
  <2> QED
    BY <1>2, <1>3, <1>6, <1>7, <2>1, <2>2, <2>3, <2>4, AnswersMean
       DEF CollectOK, Parties, HistoryOK, Running
<1>17. EndOK'
  BY <1>2, <1>3, <1>6 DEF EndOK, Parties
<1> QED
  BY <1>5, <1>9, <1>10, <1>11, <1>12, <1>13, <1>14, <1>15, <1>16, <1>17

\* The feeder is free when it is asked for the vectors of the pass.
LEMMA FeedStartStep ==
  ASSUME IInv, NEW in \in Answers, Edge(in), layer' = layer, FeedStart(in)
  PROVE  IInv'
<1> USE DEF IInv, raises, continuous
<1>1. Typed(s)
  BY DEF RegistersOK
<1>h. feeder_start_ready
  BY DEF FeedStart, FeedOK, FeedGone, FeedIdle, feeder_start_ready
<1>2. /\ s.state = "FEED_START" /\ s'.state = "FEED_WAIT" /\ s'.pulse = {"feeder_start"}
      /\ PassKept(s') /\ ComputeKept(s') /\ PrefetchNoted(s', in) /\ PendingNoted(s', in) /\ DrainKept(s') /\ HandoffNoted(s', in)
      /\ s'.busy = s.busy /\ s'.feeder_done_seen = FALSE
      /\ s'.feeder_pass_base_k = s.pass_base_k /\ s'.feeder_k_pass = s.pass_index /\ Typed(s')
  BY <1>1, FeedStartFields, <1>h
<1>3. Parties(in) /\ s.busy = (s.state # "IDLE") /\ s'.busy = (s'.state # "IDLE")
  BY <1>2, PartiesMove DEF RegistersOK
<1>4. /\ ~in.accepted /\ ~in.fire /\ ~fires_last(in)
      /\ left = 0 /\ ~compute_done /\ ~request /\ ~raises("compute_start")
      /\ ~s.fast_handoff_armed /\ ~s.fast_handoff_accepted
  BY <1>2, Quiet
<1>5. RegistersOK' /\ HistoryOK'
  BY <1>2, <1>3, HistoryStep, RegistersStep
<1>6. given' = given /\ given \in Nat
  BY <1>3, <1>4 DEF Parties, HistoryOK
<1>7. /\ ~s'.fast_handoff_armed /\ ~s'.fast_handoff_accepted
      /\ ~Taken /\ ~Taken' /\ ~Waiting /\ ~Waiting' /\ ~Handed /\ ~Handed'
  BY <1>2, <1>3, <1>4
     DEF HandoffNoted, fast_handoff_accepted_now, Taken, Ending, Waiting, Handed,
         Asked, Parties, CoreEdge, fast_handoff_pending_now
<1>8. Cur' = Cur /\ Cur = given
  BY <1>2, <1>6, <1>7 DEF Cur
<1>9. Position' /\ IdlePosition'
  BY <1>2, <1>3, <1>8, SamePosition
<1>10. PulsesOK'
  BY <1>2, <1>3, <1>4, AnswersMean
     DEF PulsesOK, Asked, Parties, LoadersEdge, CoreEdge, RegistersOK
<1>11. WeightOK'
  BY <1>2, <1>3, <1>4, <1>7, AnswersMean
     DEF WeightOK, WeightGone, WeightHeld, WeightComes, Parties, LoadersEdge,
         RegistersOK, PrefetchNoted, PrefetchOK, prefetch_ready_now
<1>f. FedPass' = Pass(layer', given')
  <2>1. /\ s'.cout_base = s.cout_base /\ s'.feeder_pass_base_k = s.pass_base_k
        /\ s'.feeder_k_pass = s.pass_index /\ given' = Cur
    BY <1>2, <1>6, <1>8 DEF PassKept
  <2>2. Pass(layer, Cur) =
          [cout |-> s.cout_base, k |-> s.pass_base_k,
           wr_bank |-> s.pass_index % 2, first |-> s.pass_base_k = 0,
           final |-> last_k]
    BY <1>2, <1>3, Here
  <2> QED BY <2>1, <2>2 DEF FedPass, last_k, next_k
<1>12. FeedOK'
  BY <1>2, <1>3, <1>4, <1>6, <1>7, AnswersMean, PreparedNext, <1>f
     DEF FeedOK, FeedGone, FeedIdle, FeedHeld, FeedRuns, FeedComes, Prepared,
         Running, Parties, Edge, CoreEdge, RegistersOK, PrefetchNoted, PrefetchOK,
         feeder_start_ready, prefetch_ready_now, feeder_compute_ready, feed_kept
<1>13. ComputeOK'
  BY <1>2, <1>3, <1>4, <1>7 DEF ComputeOK, Parties, CoreEdge, ComputeKept
<1>14. PrefetchOK'
  BY <1>2, <1>3, <1>7
     DEF PrefetchOK, PrefetchNoted, PassKept, prefetch_enable_current, last_k,
         next_k, Parties, overlap_mode
<1>15. DrainOK'
  <2>1. SUFFICES ASSUME ~continuous PROVE DrainOK'
    BY <1>3 DEF DrainOK, Parties
  <2>2. ~collecting'
    BY <1>3, <2>1, AnswersMean DEF DrainOK, Parties
  <2> QED
    BY <1>2, <1>3, <1>4, <1>6, <1>7, <1>8, <2>1, <2>2, AnswersMean
       DEF DrainOK, DrainGone, DrainComes, Beginning, Parties, PendingNoted, DrainKept,
           drain_done, HistoryOK, RegistersOK, Running
<1>16. CollectOK'
  <2>1. SUFFICES ASSUME continuous PROVE CollectOK'
    BY <1>3 DEF CollectOK, Parties
  <2>2. DrainGone' /\ ~s'.prev_drain_pending
    BY <1>2, <1>3, <2>1, AnswersMean DEF CollectOK, DrainGone, Parties, PendingNoted
  <2>3. collecting' => collected' < given'
    BY <1>3, <1>6, <2>1, AnswersMean DEF CollectOK, Parties, HistoryOK
  <2>4. s'.busy => Cur' - s'.pass_index <= collected'
    BY <1>2, <1>3, <1>6, <1>8, <2>1, AnswersMean
       DEF CollectOK, Parties, HistoryOK, Typed, PassKept, PrefetchOK
  <2> QED
    BY <1>2, <1>3, <1>6, <1>7, <2>1, <2>2, <2>3, <2>4, AnswersMean
       DEF CollectOK, Parties, HistoryOK, Running
<1>17. EndOK'
  BY <1>2, <1>3, <1>6 DEF EndOK, Parties
<1> QED
  BY <1>5, <1>9, <1>10, <1>11, <1>12, <1>13, <1>14, <1>15, <1>16, <1>17

\* The vectors of the pass are waited for.
LEMMA FeedWaitStep ==
  ASSUME IInv, NEW in \in Answers, Edge(in), layer' = layer, FeedWait(in)
  PROVE  IInv'
<1> USE DEF IInv, raises, continuous
<1>1. Typed(s)
  BY DEF RegistersOK
<1>2. /\ s.state = "FEED_WAIT" /\ s'.state = (IF in.feeder_done \/ feeder_compute_ready THEN "COMP_START" ELSE "FEED_WAIT") /\ s'.pulse = {}
      /\ PassKept(s') /\ ComputeKept(s') /\ PrefetchNoted(s', in) /\ PendingNoted(s', in) /\ DrainKept(s') /\ HandoffNoted(s', in)
      /\ s'.busy = s.busy /\ s'.feeder_done_seen = (s.feeder_done_seen \/ in.feeder_done) /\ Typed(s')
  BY <1>1, FeedWaitFields
<1>3. Parties(in) /\ s.busy = (s.state # "IDLE") /\ s'.busy = (s'.state # "IDLE")
  BY <1>2, PartiesMove DEF RegistersOK
<1>4. /\ ~in.accepted /\ ~in.fire /\ ~fires_last(in)
      /\ left = 0 /\ ~compute_done /\ ~request /\ ~raises("compute_start")
      /\ ~s.fast_handoff_armed /\ ~s.fast_handoff_accepted
  BY <1>2, Quiet
<1>5. RegistersOK' /\ HistoryOK'
  BY <1>2, <1>3, HistoryStep, RegistersStep
<1>6. given' = given /\ given \in Nat
  BY <1>3, <1>4 DEF Parties, HistoryOK
<1>7. /\ ~s'.fast_handoff_armed /\ ~s'.fast_handoff_accepted
      /\ ~Taken /\ ~Taken' /\ ~Waiting /\ ~Waiting' /\ ~Handed /\ ~Handed'
  BY <1>2, <1>3, <1>4
     DEF HandoffNoted, fast_handoff_accepted_now, Taken, Ending, Waiting, Handed,
         Asked, Parties, CoreEdge, fast_handoff_pending_now
<1>8. Cur' = Cur /\ Cur = given
  BY <1>2, <1>6, <1>7 DEF Cur
<1>9. Position' /\ IdlePosition'
  BY <1>2, <1>3, <1>8, SamePosition
<1>10. PulsesOK'
  BY <1>2, <1>3, <1>4, AnswersMean
     DEF PulsesOK, Asked, Parties, LoadersEdge, CoreEdge, RegistersOK
<1>11. WeightOK'
  BY <1>2, <1>3, <1>4, <1>7, AnswersMean
     DEF WeightOK, WeightGone, WeightHeld, WeightComes, Parties, LoadersEdge,
         RegistersOK, PrefetchNoted, PrefetchOK, prefetch_ready_now
<1>12. FeedOK'
  BY <1>2, <1>3, <1>4, <1>6, <1>7, AnswersMean, PreparedNext
     DEF FeedOK, FeedGone, FeedIdle, FeedHeld, FeedRuns, FeedComes, Prepared,
         Running, Parties, Edge, CoreEdge, RegistersOK, PrefetchNoted, PrefetchOK,
         feeder_start_ready, prefetch_ready_now, feeder_compute_ready, feed_kept
<1>13. ComputeOK'
  BY <1>2, <1>3, <1>4, <1>7 DEF ComputeOK, Parties, CoreEdge, ComputeKept
<1>14. PrefetchOK'
  BY <1>2, <1>3, <1>7
     DEF PrefetchOK, PrefetchNoted, PassKept, prefetch_enable_current, last_k,
         next_k, Parties, overlap_mode
<1>15. DrainOK'
  <2>1. SUFFICES ASSUME ~continuous PROVE DrainOK'
    BY <1>3 DEF DrainOK, Parties
  <2>2. ~collecting'
    BY <1>3, <2>1, AnswersMean DEF DrainOK, Parties
  <2> QED
    BY <1>2, <1>3, <1>4, <1>6, <1>7, <1>8, <2>1, <2>2, AnswersMean
       DEF DrainOK, DrainGone, DrainComes, Beginning, Parties, PendingNoted, DrainKept,
           drain_done, HistoryOK, RegistersOK, Running
<1>16. CollectOK'
  <2>1. SUFFICES ASSUME continuous PROVE CollectOK'
    BY <1>3 DEF CollectOK, Parties
  <2>2. DrainGone' /\ ~s'.prev_drain_pending
    BY <1>2, <1>3, <2>1, AnswersMean DEF CollectOK, DrainGone, Parties, PendingNoted
  <2>3. collecting' => collected' < given'
    BY <1>3, <1>6, <2>1, AnswersMean DEF CollectOK, Parties, HistoryOK
  <2>4. s'.busy => Cur' - s'.pass_index <= collected'
    BY <1>2, <1>3, <1>6, <1>8, <2>1, AnswersMean
       DEF CollectOK, Parties, HistoryOK, Typed, PassKept, PrefetchOK
  <2> QED
    BY <1>2, <1>3, <1>6, <1>7, <2>1, <2>2, <2>3, <2>4, AnswersMean
       DEF CollectOK, Parties, HistoryOK, Running
<1>17. EndOK'
  BY <1>2, <1>3, <1>6 DEF EndOK, Parties
<1> QED
  BY <1>5, <1>9, <1>10, <1>11, <1>12, <1>13, <1>14, <1>15, <1>16, <1>17

\* The collector has no room for the context.
LEMMA ComputeWaitStep ==
  ASSUME IInv, NEW in \in Answers, Edge(in), layer' = layer, ComputeStart(in),
         continuous /\ ~context_start_ready
  PROVE  IInv'
<1> USE DEF IInv, raises, continuous
<1>1. Typed(s)
  BY DEF RegistersOK
<1>2. /\ s.state = "COMP_START" /\ s'.state = "COMP_START" /\ s'.pulse = {}
      /\ PassKept(s') /\ ComputeKept(s') /\ PrefetchNoted(s', in) /\ PendingNoted(s', in) /\ DrainKept(s') /\ HandoffNoted(s', in)
      /\ s'.busy = s.busy /\ s'.feeder_done_seen = feed_kept(in) /\ Typed(s')
  BY <1>1, ComputeWaitFields
<1>3. Parties(in) /\ s.busy = (s.state # "IDLE") /\ s'.busy = (s'.state # "IDLE")
  BY <1>2, PartiesMove DEF RegistersOK
<1>4. /\ ~in.accepted /\ ~in.fire /\ ~fires_last(in)
      /\ left = 0 /\ ~compute_done /\ ~request /\ ~raises("compute_start")
      /\ ~s.fast_handoff_armed /\ ~s.fast_handoff_accepted
  BY <1>2, Quiet
<1>5. RegistersOK' /\ HistoryOK'
  BY <1>2, <1>3, HistoryStep, RegistersStep
<1>6. given' = given /\ given \in Nat
  BY <1>3, <1>4 DEF Parties, HistoryOK
<1>7. /\ ~s'.fast_handoff_armed /\ ~s'.fast_handoff_accepted
      /\ ~Taken /\ ~Taken' /\ ~Waiting /\ ~Waiting' /\ ~Handed /\ ~Handed'
  BY <1>2, <1>3, <1>4
     DEF HandoffNoted, fast_handoff_accepted_now, Taken, Ending, Waiting, Handed,
         Asked, Parties, CoreEdge, fast_handoff_pending_now
<1>8. Cur' = Cur /\ Cur = given
  BY <1>2, <1>6, <1>7 DEF Cur
<1>9. Position' /\ IdlePosition'
  BY <1>2, <1>3, <1>8, SamePosition
<1>10. PulsesOK'
  BY <1>2, <1>3, <1>4, AnswersMean
     DEF PulsesOK, Asked, Parties, LoadersEdge, CoreEdge, RegistersOK
<1>11. WeightOK'
  BY <1>2, <1>3, <1>4, <1>7, AnswersMean
     DEF WeightOK, WeightGone, WeightHeld, WeightComes, Parties, LoadersEdge,
         RegistersOK, PrefetchNoted, PrefetchOK, prefetch_ready_now
<1>12. FeedOK'
  <2>1. /\ Prepared'
        /\ IF s'.feeder_done_seen THEN FeedIdle' /\ fed' = 1
           ELSE FeedRuns' /\ fed' = 0
    BY <1>2, <1>3, <1>4, FeedKept DEF FeedOK
  <2> QED BY <2>1, <1>2, <1>7 DEF FeedOK
<1>13. ComputeOK'
  BY <1>2, <1>3, <1>4, <1>7 DEF ComputeOK, Parties, CoreEdge, ComputeKept
<1>14. PrefetchOK'
  BY <1>2, <1>3, <1>7
     DEF PrefetchOK, PrefetchNoted, PassKept, prefetch_enable_current, last_k,
         next_k, Parties, overlap_mode
<1>15. DrainOK'
  <2>1. SUFFICES ASSUME ~continuous PROVE DrainOK'
    BY <1>3 DEF DrainOK, Parties
  <2>2. ~collecting'
    BY <1>3, <2>1, AnswersMean DEF DrainOK, Parties
  <2> QED
    BY <1>2, <1>3, <1>4, <1>6, <1>7, <1>8, <2>1, <2>2, AnswersMean
       DEF DrainOK, DrainGone, DrainComes, Beginning, Parties, PendingNoted, DrainKept,
           drain_done, HistoryOK, RegistersOK, Running
<1>16. CollectOK'
  <2>1. SUFFICES ASSUME continuous PROVE CollectOK'
    BY <1>3 DEF CollectOK, Parties
  <2>2. DrainGone' /\ ~s'.prev_drain_pending
    BY <1>2, <1>3, <2>1, AnswersMean DEF CollectOK, DrainGone, Parties, PendingNoted
  <2>3. collecting' => collected' < given'
    BY <1>3, <1>6, <2>1, AnswersMean DEF CollectOK, Parties, HistoryOK
  <2>4. s'.busy => Cur' - s'.pass_index <= collected'
    BY <1>2, <1>3, <1>6, <1>8, <2>1, AnswersMean
       DEF CollectOK, Parties, HistoryOK, Typed, PassKept, PrefetchOK
  <2> QED
    BY <1>2, <1>3, <1>6, <1>7, <2>1, <2>2, <2>3, <2>4, AnswersMean
       DEF CollectOK, Parties, HistoryOK, Running
<1>17. EndOK'
  BY <1>2, <1>3, <1>6 DEF EndOK, Parties
<1> QED
  BY <1>5, <1>9, <1>10, <1>11, <1>12, <1>13, <1>14, <1>15, <1>16, <1>17

\* The core is asked for the pass.
LEMMA ComputeStartStep ==
  ASSUME IInv, NEW in \in Answers, Edge(in), layer' = layer, ComputeStart(in),
         ~(continuous /\ ~context_start_ready)
  PROVE  IInv'
<1> USE DEF IInv, raises, continuous
<1>1. Typed(s)
  BY DEF RegistersOK
<1>2. /\ s.state = "COMP_START" /\ s'.state = "COMP_WAIT" /\ s'.pulse = {"compute_start"}
      /\ PassKept(s') /\ PendingNoted(s', in) /\ HandoffNoted(s', in)
      /\ s'.busy = s.busy /\ s'.feeder_done_seen = feed_kept(in)
      /\ ~s'.compute_done_seen /\ ~s'.compute_started_seen /\ ~s'.drain_started
      /\ ~s'.drain_done_seen /\ ~s'.collector_final_done_seen /\ ~s'.prefetch_started /\ Typed(s')
  BY <1>1, ComputeStartFields
<1>3. Parties(in) /\ s.busy = (s.state # "IDLE") /\ s'.busy = (s'.state # "IDLE")
  BY <1>2, PartiesMove DEF RegistersOK
<1>4. /\ ~in.accepted /\ ~in.fire /\ ~fires_last(in)
      /\ left = 0 /\ ~compute_done /\ ~request /\ ~raises("compute_start")
      /\ ~s.fast_handoff_armed /\ ~s.fast_handoff_accepted
  BY <1>2, Quiet
<1>5. RegistersOK' /\ HistoryOK'
  BY <1>2, <1>3, HistoryStep, RegistersStep
<1>6. given' = given /\ given \in Nat
  BY <1>3, <1>4 DEF Parties, HistoryOK
<1>7. /\ ~s'.fast_handoff_armed /\ ~s'.fast_handoff_accepted
      /\ ~Taken /\ ~Taken' /\ ~Waiting /\ Waiting' /\ ~Handed /\ ~Handed'
  BY <1>2, <1>3, <1>4
     DEF HandoffNoted, fast_handoff_accepted_now, Taken, Ending, Waiting, Handed,
         Asked, Parties, CoreEdge, fast_handoff_pending_now
<1>8. Cur' = Cur /\ Cur = given
  BY <1>2, <1>6, <1>7 DEF Cur
<1>9. Position' /\ IdlePosition'
  BY <1>2, <1>3, <1>8, SamePosition
<1>10. PulsesOK'
  BY <1>2, <1>3, <1>4, AnswersMean
     DEF PulsesOK, Asked, Parties, LoadersEdge, CoreEdge, RegistersOK
<1>11. WeightOK'
  BY <1>2, <1>3, <1>4, <1>7, AnswersMean
     DEF WeightOK, WeightGone, WeightHeld, WeightComes, Parties, LoadersEdge,
         RegistersOK, PrefetchNoted, PrefetchOK, prefetch_ready_now
<1>12. FeedOK'
  <2>1. /\ Prepared'
        /\ IF s'.feeder_done_seen THEN FeedIdle' /\ fed' = 1
           ELSE FeedRuns' /\ fed' = 0
    BY <1>2, <1>3, <1>4, FeedKept DEF FeedOK
  <2> QED BY <2>1, <1>2, <1>7 DEF FeedOK
<1>13. ComputeOK'
  BY <1>2, <1>3, <1>4, <1>7 DEF ComputeOK, Parties, CoreEdge, ComputeKept
<1>14. PrefetchOK'
  BY <1>2, <1>3, <1>7
     DEF PrefetchOK, PrefetchNoted, PassKept, prefetch_enable_current, last_k,
         next_k, Parties, overlap_mode
<1>15. DrainOK'
  <2>1. SUFFICES ASSUME ~continuous PROVE DrainOK'
    BY <1>3 DEF DrainOK, Parties
  <2>2. ~collecting'
    BY <1>3, <2>1, AnswersMean DEF DrainOK, Parties
  <2> QED
    BY <1>2, <1>3, <1>4, <1>6, <1>7, <1>8, <2>1, <2>2, AnswersMean
       DEF DrainOK, DrainGone, DrainComes, Beginning, Parties, PendingNoted, DrainKept,
           drain_done, HistoryOK, RegistersOK, Running
<1>16. CollectOK'
  <2>1. SUFFICES ASSUME continuous PROVE CollectOK'
    BY <1>3 DEF CollectOK, Parties
  <2>2. DrainGone' /\ ~s'.prev_drain_pending
    BY <1>2, <1>3, <2>1, AnswersMean DEF CollectOK, DrainGone, Parties, PendingNoted
  <2>3. collecting' => collected' < given'
    BY <1>3, <1>6, <2>1, AnswersMean DEF CollectOK, Parties, HistoryOK
  <2>4. s'.busy => Cur' - s'.pass_index <= collected'
    BY <1>2, <1>3, <1>6, <1>8, <2>1, AnswersMean
       DEF CollectOK, Parties, HistoryOK, Typed, PassKept, PrefetchOK
  <2> QED
    BY <1>2, <1>3, <1>6, <1>7, <2>1, <2>2, <2>3, <2>4, AnswersMean
       DEF CollectOK, Parties, HistoryOK, Running
<1>17. EndOK'
  BY <1>2, <1>3, <1>6 DEF EndOK, Parties
<1> QED
  BY <1>5, <1>9, <1>10, <1>11, <1>12, <1>13, <1>14, <1>15, <1>16, <1>17

\* The drain is requested.
LEMMA DrainStartStep ==
  ASSUME IInv, NEW in \in Answers, Edge(in), layer' = layer, DrainStart(in)
  PROVE  IInv'
<1> USE DEF IInv, raises, continuous
<1>1. Typed(s)
  BY DEF RegistersOK
<1>2. /\ s.state = "DRAIN_START" /\ s'.state = "DRAIN_WAIT" /\ s'.pulse = {"psum_drain_start"}
      /\ PassKept(s') /\ ComputeKept(s') /\ PrefetchNoted(s', in) /\ PendingNoted(s', in) /\ HandoffNoted(s', in) /\ s'.feeder_done_seen = s.feeder_done_seen
      /\ s'.busy = s.busy /\ s'.drain_started /\ s'.drain_done_seen = s.drain_done_seen /\ Typed(s')
  BY <1>1, DrainStartFields
<1>3. Parties(in) /\ s.busy = (s.state # "IDLE") /\ s'.busy = (s'.state # "IDLE")
  BY <1>2, PartiesMove DEF RegistersOK
<1>4. /\ ~in.accepted /\ ~in.fire /\ ~fires_last(in)
      /\ left = 0 /\ ~compute_done /\ ~request /\ ~raises("compute_start")
      /\ ~s.fast_handoff_armed /\ ~s.fast_handoff_accepted
  BY <1>2, Quiet
<1>5. RegistersOK' /\ HistoryOK'
  BY <1>2, <1>3, HistoryStep, RegistersStep
<1>6. given' = given /\ given \in Nat
  BY <1>3, <1>4 DEF Parties, HistoryOK
<1>7. /\ ~s'.fast_handoff_armed /\ ~s'.fast_handoff_accepted
      /\ Taken /\ Taken' /\ ~Waiting /\ ~Waiting' /\ ~Handed /\ ~Handed'
  BY <1>2, <1>3, <1>4
     DEF HandoffNoted, fast_handoff_accepted_now, Taken, Ending, Waiting, Handed,
         Asked, Parties, CoreEdge, fast_handoff_pending_now
<1>8. Cur' = Cur /\ Cur = given - 1
  BY <1>2, <1>6, <1>7 DEF Cur
<1>9. Position' /\ IdlePosition'
  BY <1>2, <1>3, <1>8, SamePosition
<1>10. PulsesOK'
  BY <1>2, <1>3, <1>4, AnswersMean
     DEF PulsesOK, Asked, Parties, LoadersEdge, CoreEdge, RegistersOK
<1>11. WeightOK'
  BY <1>2, <1>3, <1>4, <1>7, WeightNoted DEF WeightOK
<1>12. FeedOK'
  <2>1. s.feeder_done_seen
    BY <1>2, <1>7 DEF FeedOK
  <2>2. IF ~s'.prefetch_started THEN FeedGone' /\ fed' = Running'
        ELSE IF s'.prefetch_feed_done THEN FeedHeld' /\ fed' = Running' + 1
        ELSE FeedComes' /\ fed' = Running'
    BY <2>1, <1>2, <1>3, <1>4, <1>7, FeedNoted
  <2> QED BY <2>1, <2>2, <1>2, <1>7 DEF FeedOK
<1>13. ComputeOK'
  BY <1>2, <1>3, <1>4, <1>7 DEF ComputeOK, Parties, CoreEdge, ComputeKept
<1>14. PrefetchOK'
  BY <1>2, <1>3, <1>7
     DEF PrefetchOK, PrefetchNoted, PassKept, prefetch_enable_current, last_k,
         next_k, Parties, overlap_mode
<1>15. DrainOK'
  <2>1. SUFFICES ASSUME ~continuous PROVE DrainOK'
    BY <1>3 DEF DrainOK, Parties
  <2>2. ~collecting'
    BY <1>3, <2>1, AnswersMean DEF DrainOK, Parties
  <2> QED
    BY <1>2, <1>3, <1>4, <1>6, <1>7, <1>8, <2>1, <2>2, AnswersMean
       DEF DrainOK, DrainGone, DrainComes, Beginning, Parties, PendingNoted, DrainKept,
           drain_done, HistoryOK, RegistersOK, Running
<1>16. CollectOK'
  <2>1. SUFFICES ASSUME continuous PROVE CollectOK'
    BY <1>3 DEF CollectOK, Parties
  <2>2. DrainGone' /\ ~s'.prev_drain_pending
    BY <1>2, <1>3, <2>1, AnswersMean DEF CollectOK, DrainGone, Parties, PendingNoted
  <2>3. collecting' => collected' < given'
    BY <1>3, <1>6, <2>1, AnswersMean DEF CollectOK, Parties, HistoryOK
  <2>4. s'.busy => Cur' - s'.pass_index <= collected'
    BY <1>2, <1>3, <1>6, <1>8, <2>1, AnswersMean
       DEF CollectOK, Parties, HistoryOK, Typed, PassKept, PrefetchOK
  <2> QED
    BY <1>2, <1>3, <1>6, <1>7, <2>1, <2>2, <2>3, <2>4, AnswersMean
       DEF CollectOK, Parties, HistoryOK, Running
<1>17. EndOK'
  BY <1>2, <1>3, <1>6 DEF EndOK, Parties
<1> QED
  BY <1>5, <1>9, <1>10, <1>11, <1>12, <1>13, <1>14, <1>15, <1>16, <1>17

\* The prefetched pass becomes the current one.
LEMMA PrefetchGoStep ==
  ASSUME IInv, NEW in \in Answers, Edge(in), layer' = layer, PrefetchWait(in), prefetch_ready_now(in)
  PROVE  IInv'
<1> USE DEF IInv, raises, continuous
<1>1. Typed(s)
  BY DEF RegistersOK
<1>2. /\ s.state = "PREFETCH_WAIT" /\ s'.state = "PREFETCH_COMMIT" /\ s'.pulse = {}
      /\ ComputeKept(s') /\ PrefetchNoted(s', in) /\ PendingNoted(s', in) /\ DrainKept(s') /\ HandoffNoted(s', in) /\ s'.feeder_done_seen = s.feeder_done_seen
      /\ s'.busy = s.busy /\ s'.pass_base_k = s.prefetch_pass_base_k
      /\ s'.cout_base = s.cout_base /\ s'.pass_index = s.prefetch_pass_index
      /\ s'.pass_bank = 1 - s.pass_bank /\ Typed(s')
  BY <1>1, PrefetchGoFields
<1>3. Parties(in) /\ s.busy = (s.state # "IDLE") /\ s'.busy = (s'.state # "IDLE")
  BY <1>2, PartiesMove DEF RegistersOK
<1>4. /\ ~in.accepted /\ ~in.fire /\ ~fires_last(in)
      /\ left = 0 /\ ~compute_done /\ ~request /\ ~raises("compute_start")
      /\ ~s.fast_handoff_armed /\ ~s.fast_handoff_accepted
  BY <1>2, Quiet
<1>5. RegistersOK' /\ HistoryOK'
  BY <1>2, <1>3, HistoryStep, RegistersStep
<1>6. given' = given /\ given \in Nat
  BY <1>3, <1>4 DEF Parties, HistoryOK
<1>7. /\ ~s'.fast_handoff_armed /\ ~s'.fast_handoff_accepted
      /\ Taken /\ ~Taken' /\ ~Waiting /\ ~Waiting' /\ ~Handed /\ ~Handed'
  BY <1>2, <1>3, <1>4
     DEF HandoffNoted, fast_handoff_accepted_now, Taken, Ending, Waiting, Handed,
         Asked, Parties, CoreEdge, fast_handoff_pending_now
<1>8. Cur' = Cur + 1 /\ Cur = given - 1
  BY <1>2, <1>6, <1>7 DEF Cur
<1>9. Position' /\ IdlePosition'
  BY <1>2, <1>3, <1>7, <1>8, NextPosition DEF PrefetchOK, RegistersOK, Typed
<1>10. PulsesOK'
  BY <1>2, <1>3, <1>4, AnswersMean
     DEF PulsesOK, Asked, Parties, LoadersEdge, CoreEdge, RegistersOK
<1>11. WeightOK'
  BY <1>2, <1>3, <1>4, <1>7, AnswersMean
     DEF WeightOK, WeightGone, WeightHeld, WeightComes, Parties, LoadersEdge,
         RegistersOK, PrefetchNoted, PrefetchOK, prefetch_ready_now
<1>12. FeedOK'
  BY <1>2, <1>3, <1>4, <1>6, <1>7, AnswersMean, PreparedNext
     DEF FeedOK, FeedGone, FeedIdle, FeedHeld, FeedRuns, FeedComes, Prepared,
         Running, Parties, Edge, CoreEdge, RegistersOK, PrefetchNoted, PrefetchOK,
         feeder_start_ready, prefetch_ready_now, feeder_compute_ready, feed_kept
<1>13. ComputeOK'
  BY <1>2, <1>3, <1>4, <1>7 DEF ComputeOK, Parties, CoreEdge, ComputeKept
<1>14. PrefetchOK'
  BY <1>2, <1>3, <1>7
     DEF PrefetchOK, PrefetchNoted, PassKept, prefetch_enable_current, last_k,
         next_k, Parties, overlap_mode
<1>15. DrainOK'
  <2>1. SUFFICES ASSUME ~continuous PROVE DrainOK'
    BY <1>3 DEF DrainOK, Parties
  <2>2. ~collecting'
    BY <1>3, <2>1, AnswersMean DEF DrainOK, Parties
  <2> QED
    BY <1>2, <1>3, <1>4, <1>6, <1>7, <1>8, <2>1, <2>2, AnswersMean
       DEF DrainOK, DrainGone, DrainComes, Beginning, Parties, PendingNoted, DrainKept,
           drain_done, HistoryOK, RegistersOK, Running
<1>16. CollectOK'
  <2>1. SUFFICES ASSUME continuous PROVE CollectOK'
    BY <1>3 DEF CollectOK, Parties
  <2>2. DrainGone' /\ ~s'.prev_drain_pending
    BY <1>2, <1>3, <2>1, AnswersMean DEF CollectOK, DrainGone, Parties, PendingNoted
  <2>3. collecting' => collected' < given'
    BY <1>3, <1>6, <2>1, AnswersMean DEF CollectOK, Parties, HistoryOK
  <2>4. s'.busy => Cur' - s'.pass_index <= collected'
    BY <1>2, <1>3, <1>6, <1>8, <2>1, AnswersMean
       DEF CollectOK, Parties, HistoryOK, Typed, PassKept, PrefetchOK
  <2> QED
    BY <1>2, <1>3, <1>6, <1>7, <2>1, <2>2, <2>3, <2>4, AnswersMean
       DEF CollectOK, Parties, HistoryOK, Running
<1>17. EndOK'
  BY <1>2, <1>3, <1>6 DEF EndOK, Parties
<1> QED
  BY <1>5, <1>9, <1>10, <1>11, <1>12, <1>13, <1>14, <1>15, <1>16, <1>17

\* The prefetch is waited for.
LEMMA PrefetchWaitStep ==
  ASSUME IInv, NEW in \in Answers, Edge(in), layer' = layer, PrefetchWait(in), ~prefetch_ready_now(in)
  PROVE  IInv'
<1> USE DEF IInv, raises, continuous
<1>1. Typed(s)
  BY DEF RegistersOK
<1>2. /\ s.state = "PREFETCH_WAIT" /\ s'.state = "PREFETCH_WAIT" /\ s'.pulse = {}
      /\ PassKept(s') /\ ComputeKept(s') /\ PrefetchNoted(s', in) /\ PendingNoted(s', in) /\ DrainKept(s') /\ HandoffNoted(s', in) /\ s'.feeder_done_seen = s.feeder_done_seen
      /\ s'.busy = s.busy /\ Typed(s')
  BY <1>1, PrefetchWaitFields
<1>3. Parties(in) /\ s.busy = (s.state # "IDLE") /\ s'.busy = (s'.state # "IDLE")
  BY <1>2, PartiesMove DEF RegistersOK
<1>4. /\ ~in.accepted /\ ~in.fire /\ ~fires_last(in)
      /\ left = 0 /\ ~compute_done /\ ~request /\ ~raises("compute_start")
      /\ ~s.fast_handoff_armed /\ ~s.fast_handoff_accepted
  BY <1>2, Quiet
<1>5. RegistersOK' /\ HistoryOK'
  BY <1>2, <1>3, HistoryStep, RegistersStep
<1>6. given' = given /\ given \in Nat
  BY <1>3, <1>4 DEF Parties, HistoryOK
<1>7. /\ ~s'.fast_handoff_armed /\ ~s'.fast_handoff_accepted
      /\ Taken /\ Taken' /\ ~Waiting /\ ~Waiting' /\ ~Handed /\ ~Handed'
  BY <1>2, <1>3, <1>4
     DEF HandoffNoted, fast_handoff_accepted_now, Taken, Ending, Waiting, Handed,
         Asked, Parties, CoreEdge, fast_handoff_pending_now
<1>8. Cur' = Cur /\ Cur = given - 1
  BY <1>2, <1>6, <1>7 DEF Cur
<1>9. Position' /\ IdlePosition'
  BY <1>2, <1>3, <1>8, SamePosition
<1>10. PulsesOK'
  BY <1>2, <1>3, <1>4, AnswersMean
     DEF PulsesOK, Asked, Parties, LoadersEdge, CoreEdge, RegistersOK
<1>11. WeightOK'
  BY <1>2, <1>3, <1>4, <1>7, WeightNoted DEF WeightOK
<1>12. FeedOK'
  <2>1. s.feeder_done_seen
    BY <1>2, <1>7 DEF FeedOK
  <2>2. IF ~s'.prefetch_started THEN FeedGone' /\ fed' = Running'
        ELSE IF s'.prefetch_feed_done THEN FeedHeld' /\ fed' = Running' + 1
        ELSE FeedComes' /\ fed' = Running'
    BY <2>1, <1>2, <1>3, <1>4, <1>7, FeedNoted
  <2> QED BY <2>1, <2>2, <1>2, <1>7 DEF FeedOK
<1>13. ComputeOK'
  BY <1>2, <1>3, <1>4, <1>7 DEF ComputeOK, Parties, CoreEdge, ComputeKept
<1>14. PrefetchOK'
  BY <1>2, <1>3, <1>7
     DEF PrefetchOK, PrefetchNoted, PassKept, prefetch_enable_current, last_k,
         next_k, Parties, overlap_mode
<1>15. DrainOK'
  <2>1. SUFFICES ASSUME ~continuous PROVE DrainOK'
    BY <1>3 DEF DrainOK, Parties
  <2>2. ~collecting'
    BY <1>3, <2>1, AnswersMean DEF DrainOK, Parties
  <2> QED
    BY <1>2, <1>3, <1>4, <1>6, <1>7, <1>8, <2>1, <2>2, AnswersMean
       DEF DrainOK, DrainGone, DrainComes, Beginning, Parties, PendingNoted, DrainKept,
           drain_done, HistoryOK, RegistersOK, Running
<1>16. CollectOK'
  <2>1. SUFFICES ASSUME continuous PROVE CollectOK'
    BY <1>3 DEF CollectOK, Parties
  <2>2. DrainGone' /\ ~s'.prev_drain_pending
    BY <1>2, <1>3, <2>1, AnswersMean DEF CollectOK, DrainGone, Parties, PendingNoted
  <2>3. collecting' => collected' < given'
    BY <1>3, <1>6, <2>1, AnswersMean DEF CollectOK, Parties, HistoryOK
  <2>4. s'.busy => Cur' - s'.pass_index <= collected'
    BY <1>2, <1>3, <1>6, <1>8, <2>1, AnswersMean
       DEF CollectOK, Parties, HistoryOK, Typed, PassKept, PrefetchOK
  <2> QED
    BY <1>2, <1>3, <1>6, <1>7, <2>1, <2>2, <2>3, <2>4, AnswersMean
       DEF CollectOK, Parties, HistoryOK, Running
<1>17. EndOK'
  BY <1>2, <1>3, <1>6 DEF EndOK, Parties
<1> QED
  BY <1>5, <1>9, <1>10, <1>11, <1>12, <1>13, <1>14, <1>15, <1>16, <1>17

\* The prefetched pass is ready to compute.
LEMMA PrefetchCommitStep ==
  ASSUME IInv, NEW in \in Answers, Edge(in), layer' = layer, PrefetchCommit(in)
  PROVE  IInv'
<1> USE DEF IInv, raises, continuous
<1>1. Typed(s)
  BY DEF RegistersOK
<1>2. /\ s.state = "PREFETCH_COMMIT" /\ s'.state = "COMP_START" /\ s'.pulse = {}
      /\ PassKept(s') /\ ComputeKept(s') /\ PrefetchNoted(s', in) /\ PendingNoted(s', in) /\ DrainKept(s') /\ HandoffNoted(s', in) /\ s'.feeder_done_seen = s.feeder_done_seen
      /\ s'.busy = s.busy /\ Typed(s')
  BY <1>1, PrefetchCommitFields
<1>3. Parties(in) /\ s.busy = (s.state # "IDLE") /\ s'.busy = (s'.state # "IDLE")
  BY <1>2, PartiesMove DEF RegistersOK
<1>4. /\ ~in.accepted /\ ~in.fire /\ ~fires_last(in)
      /\ left = 0 /\ ~compute_done /\ ~request /\ ~raises("compute_start")
      /\ ~s.fast_handoff_armed /\ ~s.fast_handoff_accepted
  BY <1>2, Quiet
<1>5. RegistersOK' /\ HistoryOK'
  BY <1>2, <1>3, HistoryStep, RegistersStep
<1>6. given' = given /\ given \in Nat
  BY <1>3, <1>4 DEF Parties, HistoryOK
<1>7. /\ ~s'.fast_handoff_armed /\ ~s'.fast_handoff_accepted
      /\ ~Taken /\ ~Taken' /\ ~Waiting /\ ~Waiting' /\ ~Handed /\ ~Handed'
  BY <1>2, <1>3, <1>4
     DEF HandoffNoted, fast_handoff_accepted_now, Taken, Ending, Waiting, Handed,
         Asked, Parties, CoreEdge, fast_handoff_pending_now
<1>8. Cur' = Cur /\ Cur = given
  BY <1>2, <1>6, <1>7 DEF Cur
<1>9. Position' /\ IdlePosition'
  BY <1>2, <1>3, <1>8, SamePosition
<1>10. PulsesOK'
  BY <1>2, <1>3, <1>4, AnswersMean
     DEF PulsesOK, Asked, Parties, LoadersEdge, CoreEdge, RegistersOK
<1>11. WeightOK'
  BY <1>2, <1>3, <1>4, <1>7, AnswersMean
     DEF WeightOK, WeightGone, WeightHeld, WeightComes, Parties, LoadersEdge,
         RegistersOK, PrefetchNoted, PrefetchOK, prefetch_ready_now
<1>12. FeedOK'
  BY <1>2, <1>3, <1>4, <1>6, <1>7, AnswersMean, PreparedNext
     DEF FeedOK, FeedGone, FeedIdle, FeedHeld, FeedRuns, FeedComes, Prepared,
         Running, Parties, Edge, CoreEdge, RegistersOK, PrefetchNoted, PrefetchOK,
         feeder_start_ready, prefetch_ready_now, feeder_compute_ready, feed_kept
<1>13. ComputeOK'
  BY <1>2, <1>3, <1>4, <1>7 DEF ComputeOK, Parties, CoreEdge, ComputeKept
<1>14. PrefetchOK'
  BY <1>2, <1>3, <1>7
     DEF PrefetchOK, PrefetchNoted, PassKept, prefetch_enable_current, last_k,
         next_k, Parties, overlap_mode
<1>15. DrainOK'
  <2>1. SUFFICES ASSUME ~continuous PROVE DrainOK'
    BY <1>3 DEF DrainOK, Parties
  <2>2. ~collecting'
    BY <1>3, <2>1, AnswersMean DEF DrainOK, Parties
  <2> QED
    BY <1>2, <1>3, <1>4, <1>6, <1>7, <1>8, <2>1, <2>2, AnswersMean
       DEF DrainOK, DrainGone, DrainComes, Beginning, Parties, PendingNoted, DrainKept,
           drain_done, HistoryOK, RegistersOK, Running
<1>16. CollectOK'
  <2>1. SUFFICES ASSUME continuous PROVE CollectOK'
    BY <1>3 DEF CollectOK, Parties
  <2>2. DrainGone' /\ ~s'.prev_drain_pending
    BY <1>2, <1>3, <2>1, AnswersMean DEF CollectOK, DrainGone, Parties, PendingNoted
  <2>3. collecting' => collected' < given'
    BY <1>3, <1>6, <2>1, AnswersMean DEF CollectOK, Parties, HistoryOK
  <2>4. s'.busy => Cur' - s'.pass_index <= collected'
    BY <1>2, <1>3, <1>6, <1>8, <2>1, AnswersMean
       DEF CollectOK, Parties, HistoryOK, Typed, PassKept, PrefetchOK
  <2> QED
    BY <1>2, <1>3, <1>6, <1>7, <2>1, <2>2, <2>3, <2>4, AnswersMean
       DEF CollectOK, Parties, HistoryOK, Running
<1>17. EndOK'
  BY <1>2, <1>3, <1>6 DEF EndOK, Parties
<1> QED
  BY <1>5, <1>9, <1>10, <1>11, <1>12, <1>13, <1>14, <1>15, <1>16, <1>17

\* The layer is done.
LEMMA DoneStep ==
  ASSUME IInv, NEW in \in Answers, Edge(in), layer' = layer, Done(in)
  PROVE  IInv'
<1> USE DEF IInv, raises, continuous
<1>1. Typed(s)
  BY DEF RegistersOK
<1>2. /\ s.state = "DONE" /\ s'.state = "IDLE" /\ s'.pulse = {"done"}
      /\ PassKept(s') /\ ComputeKept(s') /\ PrefetchNoted(s', in) /\ PendingNoted(s', in) /\ DrainKept(s') /\ HandoffNoted(s', in) /\ s'.feeder_done_seen = s.feeder_done_seen
      /\ s'.busy = FALSE /\ Typed(s')
  BY <1>1, DoneFields
<1>3. Parties(in) /\ s.busy = (s.state # "IDLE") /\ s'.busy = (s'.state # "IDLE")
  BY <1>2, PartiesMove DEF RegistersOK
<1>4. /\ ~in.accepted /\ ~in.fire /\ ~fires_last(in)
      /\ left = 0 /\ ~compute_done /\ ~request /\ ~raises("compute_start")
      /\ ~s.fast_handoff_armed /\ ~s.fast_handoff_accepted
  BY <1>2, Quiet
<1>5. RegistersOK' /\ HistoryOK'
  BY <1>2, <1>3, HistoryStep, RegistersStep
<1>6. given' = given /\ given \in Nat
  BY <1>3, <1>4 DEF Parties, HistoryOK
<1>7. /\ ~s'.fast_handoff_armed /\ ~s'.fast_handoff_accepted
      /\ Taken /\ ~Taken' /\ ~Waiting /\ ~Waiting' /\ ~Handed /\ ~Handed'
  BY <1>2, <1>3, <1>4
     DEF HandoffNoted, fast_handoff_accepted_now, Taken, Ending, Waiting, Handed,
         Asked, Parties, CoreEdge, fast_handoff_pending_now
<1>8. s'.busy = FALSE
  BY <1>2, <1>6, <1>7 DEF Cur
<1>9. Position' /\ IdlePosition'
  BY <1>2, <1>3, <1>8, SamePosition
<1>10. PulsesOK'
  BY <1>2, <1>3, <1>4, AnswersMean
     DEF PulsesOK, Asked, Parties, LoadersEdge, CoreEdge, RegistersOK
<1>11. WeightOK'
  BY <1>2, <1>3, <1>4, <1>7, AnswersMean
     DEF WeightOK, WeightGone, WeightHeld, WeightComes, Parties, LoadersEdge,
         RegistersOK, PrefetchNoted, PrefetchOK, prefetch_ready_now
<1>12. FeedOK'
  BY <1>2, <1>3, <1>4, <1>6, <1>7, AnswersMean, PreparedNext
     DEF FeedOK, FeedGone, FeedIdle, FeedHeld, FeedRuns, FeedComes, Prepared,
         Running, Parties, Edge, CoreEdge, RegistersOK, PrefetchNoted, PrefetchOK,
         feeder_start_ready, prefetch_ready_now, feeder_compute_ready, feed_kept
<1>13. ComputeOK'
  BY <1>2, <1>3, <1>4, <1>7 DEF ComputeOK, Parties, CoreEdge, ComputeKept
<1>14. PrefetchOK'
  BY <1>2, <1>3, <1>7
     DEF PrefetchOK, PrefetchNoted, PassKept, prefetch_enable_current, last_k,
         next_k, Parties, overlap_mode
<1>15. DrainOK'
  <2>1. SUFFICES ASSUME ~continuous PROVE DrainOK'
    BY <1>3 DEF DrainOK, Parties
  <2>2. ~collecting'
    BY <1>3, <2>1, AnswersMean DEF DrainOK, Parties
  <2> QED
    BY <1>2, <1>3, <1>4, <1>6, <1>7, <1>8, <2>1, <2>2, AnswersMean
       DEF DrainOK, DrainGone, DrainComes, Beginning, Parties, PendingNoted, DrainKept,
           drain_done, HistoryOK, RegistersOK, Running
<1>16. CollectOK'
  <2>1. SUFFICES ASSUME continuous PROVE CollectOK'
    BY <1>3 DEF CollectOK, Parties
  <2>2. DrainGone' /\ ~s'.prev_drain_pending
    BY <1>2, <1>3, <2>1, AnswersMean DEF CollectOK, DrainGone, Parties, PendingNoted
  <2>3. collecting' => collected' < given'
    BY <1>3, <1>6, <2>1, AnswersMean DEF CollectOK, Parties, HistoryOK
  <2>4. s'.busy => Cur' - s'.pass_index <= collected'
    BY <1>2, <1>3, <1>6, <1>8, <2>1, AnswersMean
       DEF CollectOK, Parties, HistoryOK, Typed, PassKept, PrefetchOK
  <2> QED
    BY <1>2, <1>3, <1>6, <1>7, <2>1, <2>2, <2>3, <2>4, AnswersMean
       DEF CollectOK, Parties, HistoryOK, Running
<1>17. EndOK'
  BY <1>2, <1>3, <1>6 DEF EndOK, Parties
<1> QED
  BY <1>5, <1>9, <1>10, <1>11, <1>12, <1>13, <1>14, <1>15, <1>16, <1>17


-----------------------------------------------------------------------------
(* COMP_WAIT *)

\* The next pass is requested only while the current one runs, its feed is over
\* and nothing else is asked.
LEMMA PrefetchStart ==
  ASSUME IInv, NEW in \in Answers, Edge(in), prefetch_start_now(in),
         s.state \in {"COMP_WAIT", "DRAIN_WAIT"}
  PROVE  /\ s.state = "COMP_WAIT" /\ Taken /\ ~Handed /\ ~Waiting
         /\ ~s.fast_handoff_armed /\ ~s.fast_handoff_accepted
         /\ ~s.prefetch_started /\ ~Asked /\ ~in.accepted
         /\ s.feeder_done_seen /\ FeedGone /\ fed = Running /\ WeightGone
         /\ prefetch_enable_current /\ ~last_k
<1> USE DEF IInv
<1>1. /\ prefetch_enable_current /\ ~s.prefetch_started /\ feeder_start_ready
      /\ fed_all(in) /\ (computed \/ s.compute_started_seen)
  BY DEF prefetch_start_now
<1>2. ~s.fast_handoff_armed /\ ~s.fast_handoff_accepted /\ ~Handed
  BY <1>1 DEF PrefetchOK, Handed
<1>3. s.state = "COMP_WAIT"
  BY <1>1 DEF PrefetchOK
<1>4. ~Waiting
  BY <1>1, <1>3 DEF ComputeOK, computed
<1>5. Taken
  BY <1>3, <1>4 DEF Waiting
<1>6. ~Asked
  BY <1>2, <1>3, <1>5 DEF Taken, Ending
<1>7. ~in.accepted
  BY <1>6, AnswersMean DEF Asked
<1>8. s.feeder_done_seen
  BY <1>1, <1>5 DEF FeedOK, FeedRuns, feeder_start_ready
<1>9. FeedGone /\ fed = Running
  BY <1>1, <1>5, <1>8 DEF FeedOK
<1>10. WeightGone
  BY <1>1, <1>5 DEF WeightOK
<1>11. ~last_k
  BY <1>1 DEF prefetch_enable_current
<1> QED
  BY <1>1, <1>2, <1>3, <1>4, <1>5, <1>6, <1>7, <1>8, <1>9, <1>10, <1>11

\* The drain is requested as soon as its first data is there.
DrainsEarly(in) ==
  /\ layer.early_drain_enable /\ ~continuous
  /\ ~s.drain_started /\ ~s.prev_drain_pending
  /\ in.fire /\ in.drain_data

\* What an edge in COMP_WAIT notes, and what it requests.
WatchNoted(t, in) ==
  /\ t.compute_done_seen = (s.compute_done_seen \/ compute_done)
  /\ t.compute_started_seen = (s.compute_started_seen \/ in.fire)
  /\ t.feeder_done_seen = (s.feeder_done_seen \/ in.feeder_done)
  /\ t.drain_done_seen =
       (s.drain_done_seen \/ (drain_done(in) /\ ~s.prev_drain_pending))
  /\ t.drain_started = (s.drain_started \/ DrainsEarly(in))
DrainPulse(in) == IF DrainsEarly(in) THEN {"psum_drain_start"} ELSE {}
PrefetchAsked(t) ==
  /\ t.prefetch_started = TRUE /\ t.prefetch_weight_done = FALSE
  /\ t.prefetch_feed_done = FALSE
  /\ t.prefetch_pass_base_k = next_k /\ t.prefetch_pass_index = s.pass_index + 1
  /\ t.feeder_pass_base_k = next_k /\ t.feeder_k_pass = s.pass_index + 1

\* The notes that every edge in COMP_WAIT takes.
CompNoted(in) ==
  [Noted(in) EXCEPT
     !.compute_done_seen = @ \/ compute_done,
     !.compute_started_seen = @ \/ in.fire,
     !.feeder_done_seen = @ \/ in.feeder_done,
     !.drain_done_seen = @ \/ (drain_done(in) /\ ~s.prev_drain_pending)]

\* What an edge of COMP_WAIT notes before it looks for a prefetch or a drain.
LEMMA CompNotedFields ==
  ASSUME Typed(s), NEW in \in Answers, compute_done \in BOOLEAN,
         in.fire \in BOOLEAN, in.feeder_done \in BOOLEAN
  PROVE  LET t == CompNoted(in)
         IN /\ Typed(t) /\ t.state = s.state /\ t.busy = s.busy /\ t.pulse = {}
            /\ PassKept(t) /\ FeedAddressKept(t)
            /\ t.compute_done_seen = (s.compute_done_seen \/ compute_done)
            /\ t.compute_started_seen = (s.compute_started_seen \/ in.fire)
            /\ t.feeder_done_seen = (s.feeder_done_seen \/ in.feeder_done)
            /\ t.drain_done_seen =
                 (s.drain_done_seen \/ (drain_done(in) /\ ~s.prev_drain_pending))
            /\ t.drain_started = s.drain_started
            /\ PrefetchNoted(t, in) /\ PendingNoted(t, in)
            /\ FinalNoted(t, in) /\ HandoffNoted(t, in)
<1> DEFINE n == Noted(in)
           m == CompNoted(in)
<1>1. Typed(n) /\ DOMAIN n = Registers
  BY NotedFields DEF Typed
<1>2. /\ n.state = s.state /\ n.busy = s.busy /\ n.pulse = {}
      /\ PassKept(n) /\ FeedAddressKept(n) /\ ComputeKept(n)
      /\ n.feeder_done_seen = s.feeder_done_seen
      /\ PrefetchNoted(n, in) /\ PendingNoted(n, in) /\ DrainKept(n)
      /\ FinalNoted(n, in) /\ HandoffNoted(n, in)
  BY NotedFields
<1>3. m = [n EXCEPT
              !.compute_done_seen = @ \/ compute_done,
              !.compute_started_seen = @ \/ in.fire,
              !.feeder_done_seen = @ \/ in.feeder_done,
              !.drain_done_seen = @ \/ (drain_done(in) /\ ~s.prev_drain_pending)]
  BY DEF CompNoted
<1> HIDE DEF n, m
<1>4. DOMAIN m = Registers
  BY <1>1, <1>3
<1>5. /\ m.state = n.state /\ m.busy = n.busy /\ m.pulse = n.pulse
      /\ m.pass_base_k = n.pass_base_k /\ m.cout_base = n.cout_base
      /\ m.pass_index = n.pass_index /\ m.pass_bank = n.pass_bank
      /\ m.feeder_pass_base_k = n.feeder_pass_base_k
      /\ m.feeder_k_pass = n.feeder_k_pass
      /\ m.prefetch_pass_base_k = n.prefetch_pass_base_k
      /\ m.prefetch_pass_index = n.prefetch_pass_index
      /\ m.prefetch_started = n.prefetch_started
      /\ m.prefetch_weight_done = n.prefetch_weight_done
      /\ m.prefetch_feed_done = n.prefetch_feed_done
      /\ m.prev_drain_pending = n.prev_drain_pending
      /\ m.drain_started = n.drain_started
      /\ m.drain_packet_seen = n.drain_packet_seen
      /\ m.collector_final_done_seen = n.collector_final_done_seen
      /\ m.fast_handoff_armed = n.fast_handoff_armed
      /\ m.fast_handoff_accepted = n.fast_handoff_accepted
      /\ m.compute_done_seen = (n.compute_done_seen \/ compute_done)
      /\ m.compute_started_seen = (n.compute_started_seen \/ in.fire)
      /\ m.feeder_done_seen = (n.feeder_done_seen \/ in.feeder_done)
      /\ m.drain_done_seen =
           (n.drain_done_seen \/ (drain_done(in) /\ ~s.prev_drain_pending))
  BY <1>1, <1>3 DEF Registers
<1>6. Typed(m)
  BY <1>1, <1>4, <1>5 DEF Typed, drain_done
<1> QED
  BY <1>2, <1>5, <1>6
     DEF m, PassKept, FeedAddressKept, ComputeKept, PrefetchNoted, PendingNoted,
         DrainKept, FinalNoted, HandoffNoted

\* The registers that a request of the drain leaves alone.
SameButDrain(t, m) ==
  /\ t.state = m.state /\ t.busy = m.busy
  /\ t.pass_base_k = m.pass_base_k /\ t.cout_base = m.cout_base
  /\ t.pass_index = m.pass_index /\ t.pass_bank = m.pass_bank
  /\ t.feeder_pass_base_k = m.feeder_pass_base_k /\ t.feeder_k_pass = m.feeder_k_pass
  /\ t.prefetch_pass_base_k = m.prefetch_pass_base_k /\ t.prefetch_pass_index = m.prefetch_pass_index
  /\ t.compute_done_seen = m.compute_done_seen /\ t.compute_started_seen = m.compute_started_seen
  /\ t.feeder_done_seen = m.feeder_done_seen /\ t.drain_done_seen = m.drain_done_seen
  /\ t.prev_drain_pending = m.prev_drain_pending /\ t.prefetch_started = m.prefetch_started
  /\ t.prefetch_weight_done = m.prefetch_weight_done /\ t.prefetch_feed_done = m.prefetch_feed_done
  /\ t.collector_final_done_seen = m.collector_final_done_seen /\ t.fast_handoff_armed = m.fast_handoff_armed
  /\ t.fast_handoff_accepted = m.fast_handoff_accepted

DrainRequested(m, in) ==
  IF ~DrainsEarly(in) THEN m
  ELSE [m EXCEPT !.pulse = @ \cup {"psum_drain_start"},
          !.drain_started = TRUE, !.drain_packet_seen = FALSE]

\* A drain that is requested early adds its pulse and its note.
LEMMA DrainAdded ==
  ASSUME NEW in, NEW m, Typed(m)
  PROVE  LET t == DrainRequested(m, in)
         IN /\ Typed(t) /\ t.pulse = m.pulse \cup DrainPulse(in)
            /\ t.drain_started = (m.drain_started \/ DrainsEarly(in))
            /\ SameButDrain(t, m)
<1> DEFINE t == DrainRequested(m, in)
<1>1. DOMAIN m = Registers
  BY DEF Typed
<1>2. CASE ~DrainsEarly(in)
  <2>1. t = m /\ m.drain_started \in BOOLEAN
    BY <1>2 DEF Typed, DrainRequested
  <2> HIDE DEF t
  <2> QED BY <1>2, <2>1 DEF SameButDrain, DrainPulse, t
<1>3. CASE DrainsEarly(in)
  <2>1. t = [m EXCEPT !.pulse = m.pulse \cup {"psum_drain_start"},
               !.drain_started = TRUE, !.drain_packet_seen = FALSE]
    BY <1>3 DEF DrainRequested
  <2> HIDE DEF t
  <2>2. DOMAIN t = Registers
    BY <2>1, <1>1
  <2>3. t.pulse = m.pulse \cup {"psum_drain_start"} /\ t.drain_started = TRUE
        /\ t.drain_packet_seen = FALSE /\ SameButDrain(t, m)
    BY <2>1, <1>1 DEF Registers, SameButDrain
  <2>4. (m.drain_started \/ DrainsEarly(in)) = TRUE
    BY <1>3
  <2>5. Typed(t)
    BY <2>2, <2>3 DEF Typed, SameButDrain
  <2> QED BY <1>3, <2>3, <2>4, <2>5 DEF DrainPulse, t
<1> QED BY <1>2, <1>3

\* The answers to a request are booleans.
LEMMA AcceptedBoolean ==
  ASSUME NEW in \in Answers
  PROVE  in.accepted \in BOOLEAN
<1>1. in.accepted \in Optional(request)
  BY DEF Answers
<1> QED BY <1>1 DEF Optional

\* Without a prefetch.
LEMMA WatchedFields ==
  ASSUME Typed(s), NEW in \in Answers, compute_done \in BOOLEAN,
         in.fire \in BOOLEAN, in.feeder_done \in BOOLEAN,
         ~prefetch_start_now(in)
  PROVE  LET t == Watched(in)
         IN /\ Typed(t) /\ t.state = s.state /\ t.busy = s.busy
            /\ t.pulse = DrainPulse(in)
            /\ PassKept(t) /\ FeedAddressKept(t) /\ WatchNoted(t, in)
            /\ PrefetchNoted(t, in) /\ PendingNoted(t, in)
            /\ FinalNoted(t, in) /\ HandoffNoted(t, in)
<1> DEFINE m == CompNoted(in)
           t == Watched(in)
<1>1. /\ Typed(m) /\ m.state = s.state /\ m.busy = s.busy /\ m.pulse = {}
      /\ PassKept(m) /\ FeedAddressKept(m)
      /\ m.compute_done_seen = (s.compute_done_seen \/ compute_done)
      /\ m.compute_started_seen = (s.compute_started_seen \/ in.fire)
      /\ m.feeder_done_seen = (s.feeder_done_seen \/ in.feeder_done)
      /\ m.drain_done_seen =
           (s.drain_done_seen \/ (drain_done(in) /\ ~s.prev_drain_pending))
      /\ m.drain_started = s.drain_started
      /\ PrefetchNoted(m, in) /\ PendingNoted(m, in)
      /\ FinalNoted(m, in) /\ HandoffNoted(m, in)
  BY CompNotedFields
<1>2. t = DrainRequested(m, in)
  BY DEF Watched, DrainsEarly, CompNoted, DrainRequested
<1> HIDE DEF m, t
<1>3. /\ Typed(t) /\ t.pulse = m.pulse \cup DrainPulse(in)
      /\ t.drain_started = (m.drain_started \/ DrainsEarly(in))
      /\ SameButDrain(t, m)
  BY <1>1, <1>2, DrainAdded
<1>4. t.pulse = DrainPulse(in)
  BY <1>1, <1>3
<1>5. PassKept(t) /\ FeedAddressKept(t) /\ WatchNoted(t, in)
  BY <1>1, <1>3 DEF PassKept, FeedAddressKept, WatchNoted, SameButDrain
<1>6. PrefetchNoted(t, in) /\ PendingNoted(t, in) /\ FinalNoted(t, in)
      /\ HandoffNoted(t, in)
  BY <1>1, <1>3
     DEF PrefetchNoted, PendingNoted, FinalNoted, HandoffNoted, SameButDrain
<1> QED BY <1>1, <1>3, <1>4, <1>5, <1>6 DEF t, SameButDrain

\* With a prefetch.
LEMMA WatchedPrefetchFields ==
  ASSUME Typed(s), NEW in \in Answers, compute_done \in BOOLEAN,
         in.fire \in BOOLEAN, in.feeder_done \in BOOLEAN, ~in.accepted,
         ~s.fast_handoff_armed, ~s.fast_handoff_accepted,
         prefetch_start_now(in)
  PROVE  LET t == Watched(in)
         IN /\ Typed(t) /\ t.state = s.state /\ t.busy = s.busy
            /\ t.pulse = {"weight_load_start", "feeder_start"}
                  \cup (IF fast_handoff_mode_current THEN {"compute_start"} ELSE {})
                  \cup DrainPulse(in)
            /\ PassKept(t) /\ WatchNoted(t, in)
            /\ PrefetchAsked(t) /\ PendingNoted(t, in) /\ FinalNoted(t, in)
            /\ t.fast_handoff_armed = fast_handoff_mode_current
            /\ t.fast_handoff_accepted = FALSE
<1> DEFINE m == CompNoted(in)
           p == Prefetched(m, in)
           q == IF ~fast_handoff_mode_current THEN p
                ELSE [p EXCEPT !.pulse = @ \cup {"compute_start"},
                        !.fast_handoff_armed = TRUE,
                        !.fast_handoff_accepted = in.accepted]
           t == Watched(in)
<1>1. /\ Typed(m) /\ m.state = s.state /\ m.busy = s.busy /\ m.pulse = {}
      /\ PassKept(m)
      /\ m.compute_done_seen = (s.compute_done_seen \/ compute_done)
      /\ m.compute_started_seen = (s.compute_started_seen \/ in.fire)
      /\ m.feeder_done_seen = (s.feeder_done_seen \/ in.feeder_done)
      /\ m.drain_done_seen =
           (s.drain_done_seen \/ (drain_done(in) /\ ~s.prev_drain_pending))
      /\ m.drain_started = s.drain_started
      /\ PendingNoted(m, in) /\ FinalNoted(m, in) /\ HandoffNoted(m, in)
  BY CompNotedFields
<1>2. t = DrainRequested(q, in)
  BY DEF Watched, DrainsEarly, CompNoted, DrainRequested
<1>3. p = [m EXCEPT !.prefetch_started = TRUE,
             !.prefetch_weight_done = FALSE, !.prefetch_feed_done = FALSE,
             !.prefetch_pass_base_k = next_k,
             !.prefetch_pass_index = s.pass_index + 1,
             !.feeder_pass_base_k = next_k, !.feeder_k_pass = s.pass_index + 1,
             !.pulse = {"weight_load_start", "feeder_start"}]
  BY DEF Prefetched
<1>4. DOMAIN m = Registers
  BY <1>1 DEF Typed
<1>5. next_k \in Nat /\ s.pass_index + 1 \in Nat
  BY TileAssumption DEF Typed, next_k
<1> HIDE DEF m, p, t
<1>6. DOMAIN p = Registers
  BY <1>3, <1>4
<1>7. /\ PrefetchAsked(p) /\ p.pulse = {"weight_load_start", "feeder_start"}
      /\ p.state = m.state /\ p.busy = m.busy
      /\ p.pass_base_k = m.pass_base_k /\ p.cout_base = m.cout_base
      /\ p.pass_index = m.pass_index /\ p.pass_bank = m.pass_bank
      /\ p.compute_done_seen = m.compute_done_seen /\ p.compute_started_seen = m.compute_started_seen
      /\ p.feeder_done_seen = m.feeder_done_seen /\ p.drain_done_seen = m.drain_done_seen
      /\ p.prev_drain_pending = m.prev_drain_pending /\ p.collector_final_done_seen = m.collector_final_done_seen
      /\ p.fast_handoff_armed = m.fast_handoff_armed /\ p.fast_handoff_accepted = m.fast_handoff_accepted
      /\ p.drain_started = m.drain_started /\ p.drain_packet_seen = m.drain_packet_seen
  BY <1>3, <1>4 DEF Registers, PrefetchAsked
<1>8. Typed(p)
  BY <1>1, <1>5, <1>6, <1>7 DEF Typed, PrefetchAsked
<1>9. /\ Typed(q) /\ PrefetchAsked(q)
      /\ q.pulse = {"weight_load_start", "feeder_start"}
            \cup (IF fast_handoff_mode_current THEN {"compute_start"} ELSE {})
      /\ q.state = m.state /\ q.busy = m.busy
      /\ q.pass_base_k = m.pass_base_k /\ q.cout_base = m.cout_base
      /\ q.pass_index = m.pass_index /\ q.pass_bank = m.pass_bank
      /\ q.compute_done_seen = m.compute_done_seen /\ q.compute_started_seen = m.compute_started_seen
      /\ q.feeder_done_seen = m.feeder_done_seen /\ q.drain_done_seen = m.drain_done_seen
      /\ q.prev_drain_pending = m.prev_drain_pending /\ q.collector_final_done_seen = m.collector_final_done_seen
      /\ q.drain_started = m.drain_started /\ q.drain_packet_seen = m.drain_packet_seen
      /\ q.fast_handoff_armed = fast_handoff_mode_current
      /\ q.fast_handoff_accepted = FALSE
  <2>1. CASE ~fast_handoff_mode_current
    <3>1. q = p
      BY <2>1
    <3>2. fast_handoff_mode_current = FALSE
      BY <2>1 DEF fast_handoff_mode_current
    <3>3. p.fast_handoff_armed = FALSE /\ p.fast_handoff_accepted = FALSE
      BY <1>1, <1>7 DEF HandoffNoted, fast_handoff_accepted_now, Typed
    <3> HIDE DEF q
    <3> QED BY <1>7, <1>8, <3>1, <3>2, <3>3
  <2>2. CASE fast_handoff_mode_current
    <3>1. q = [p EXCEPT !.pulse = p.pulse \cup {"compute_start"},
                 !.fast_handoff_armed = TRUE,
                 !.fast_handoff_accepted = in.accepted]
      BY <2>2
    <3> HIDE DEF q
    <3>2. fast_handoff_mode_current = TRUE
      BY <2>2 DEF fast_handoff_mode_current
    <3>3. DOMAIN q = Registers
      BY <1>6, <3>1
    <3>4. /\ q.pulse = p.pulse \cup {"compute_start"}
          /\ q.fast_handoff_armed = TRUE /\ q.fast_handoff_accepted = in.accepted
          /\ q.state = p.state /\ q.busy = p.busy
          /\ q.pass_base_k = p.pass_base_k /\ q.cout_base = p.cout_base
          /\ q.pass_index = p.pass_index /\ q.pass_bank = p.pass_bank
          /\ q.compute_done_seen = p.compute_done_seen /\ q.compute_started_seen = p.compute_started_seen
          /\ q.feeder_done_seen = p.feeder_done_seen /\ q.drain_done_seen = p.drain_done_seen
          /\ q.prev_drain_pending = p.prev_drain_pending /\ q.collector_final_done_seen = p.collector_final_done_seen
          /\ q.drain_started = p.drain_started /\ q.drain_packet_seen = p.drain_packet_seen
          /\ q.prefetch_started = p.prefetch_started /\ q.prefetch_weight_done = p.prefetch_weight_done
          /\ q.prefetch_feed_done = p.prefetch_feed_done /\ q.prefetch_pass_base_k = p.prefetch_pass_base_k
          /\ q.prefetch_pass_index = p.prefetch_pass_index /\ q.feeder_pass_base_k = p.feeder_pass_base_k
          /\ q.feeder_k_pass = p.feeder_k_pass
      BY <1>6, <3>1 DEF Registers
    <3>5. in.accepted = FALSE
      BY AcceptedBoolean
    <3>6. Typed(q)
      BY <1>8, <3>3, <3>4, <3>5 DEF Typed
    <3>7. PrefetchAsked(q)
      BY <1>7, <3>4 DEF PrefetchAsked
    <3> QED BY <1>7, <3>2, <3>4, <3>5, <3>6, <3>7
  <2> QED BY <2>1, <2>2
<1> HIDE DEF q
<1>10. /\ Typed(t) /\ t.pulse = q.pulse \cup DrainPulse(in)
       /\ t.drain_started = (q.drain_started \/ DrainsEarly(in))
       /\ SameButDrain(t, q)
  BY <1>2, <1>9, DrainAdded
<1>11. PassKept(t) /\ WatchNoted(t, in) /\ PrefetchAsked(t)
  BY <1>1, <1>9, <1>10 DEF PassKept, WatchNoted, PrefetchAsked, SameButDrain
<1>12. PendingNoted(t, in) /\ FinalNoted(t, in)
  BY <1>1, <1>9, <1>10 DEF PendingNoted, FinalNoted, SameButDrain
<1> QED BY <1>1, <1>9, <1>10, <1>11, <1>12 DEF t, SameButDrain


\* The facts about the edge that the cases of COMP_WAIT share.
LEMMA CompWaitEdge ==
  ASSUME IInv, NEW in \in Answers, Edge(in), layer' = layer, s.state = "COMP_WAIT"
  PROVE  /\ Typed(s) /\ s.busy /\ Parties(in) /\ in.accepted \in BOOLEAN
         /\ in.fire \in BOOLEAN /\ in.feeder_done \in BOOLEAN
         /\ in.collects \in BOOLEAN /\ compute_done \in BOOLEAN
         /\ given \in Nat /\ collected \in Nat /\ collected <= given
         /\ left \in Nat /\ left' \in Nat /\ layer.num_pixels \in Nat \ {0}
         /\ ENABLE_FAST_CONTEXT_HANDOFF' = ENABLE_FAST_CONTEXT_HANDOFF
         /\ given' = given + (IF in.accepted THEN 1 ELSE 0)
         /\ collected' = collected + (IF in.collects THEN 1 ELSE 0)
         /\ left' = (IF in.accepted THEN layer.num_pixels
                     ELSE IF in.fire THEN left - 1 ELSE left)
         /\ compute_done' = (in.fire /\ left = 1)
         /\ request' = ((request \/ raises("compute_start")) /\ ~in.accepted)
         /\ draining' = (raises("psum_drain_start") \/ (draining /\ ~drain_done(in)))
         /\ in.fire => left # 0 /\ (left = 1 => fed # 0 \/ in.feeder_done)
         /\ in.accepted => request /\ (left = 0 \/ (in.fire /\ left = 1))
         /\ in.collects => /\ collected + Running < given
                           /\ IF continuous THEN collecting ELSE draining
<1> USE DEF IInv
<1>1. Parties(in)
  BY PartiesMove
<1>2. layer.num_pixels \in Nat \ {0} /\ left \in Nat
  BY LayersAssumption, PixelsAssumption DEF RegistersOK
<1>3. /\ Typed(s) /\ s.busy /\ compute_done \in BOOLEAN
      /\ given \in Nat /\ collected \in Nat /\ collected <= given
  BY DEF RegistersOK, HistoryOK
<1>4. /\ in.accepted \in BOOLEAN
      /\ in.fire \in BOOLEAN /\ in.feeder_done \in BOOLEAN /\ in.collects \in BOOLEAN
      /\ in.fire => left # 0 /\ (left = 1 => fed # 0 \/ in.feeder_done)
      /\ in.accepted => request /\ (left = 0 \/ (in.fire /\ left = 1))
      /\ in.collects => /\ collected + Running < given
                        /\ IF continuous THEN collecting ELSE draining
  BY AnswersMean
<1>5. left' = (IF in.accepted THEN layer.num_pixels
               ELSE IF in.fire THEN left - 1 ELSE left)
  BY <1>1 DEF Parties, CoreEdge
<1>6. left' \in Nat
  BY <1>2, <1>4, <1>5
<1> QED
  BY <1>1, <1>2, <1>3, <1>4, <1>5, <1>6 DEF Parties, CoreEdge, fires_last

\* The drain while a pass runs, in the drained modes.
LEMMA DrainWatched ==
  ASSUME IInv, NEW in \in Answers, Edge(in), layer' = layer,
         s.state = "COMP_WAIT", s'.state = "COMP_WAIT", Taken, Taken', ~Handed,
         ~in.accepted, Cur' = Cur, WatchNoted(s', in), PendingNoted(s', in),
         raises("psum_drain_start")' <=> DrainsEarly(in)
  PROVE  DrainOK'
<1> SUFFICES ASSUME ~continuous PROVE DrainOK'
  BY DEF DrainOK, continuous
<1> USE DEF IInv
<1>1. /\ Typed(s) /\ Parties(in) /\ in.collects \in BOOLEAN
      /\ given \in Nat /\ collected \in Nat
      /\ given' = given /\ collected' = collected + (IF in.collects THEN 1 ELSE 0)
      /\ draining' = (raises("psum_drain_start") \/ (draining /\ ~drain_done(in)))
      /\ in.collects => collected + Running < given /\ draining
  BY CompWaitEdge
<1>2. ~collecting'
  BY <1>1, AnswersMean DEF DrainOK, Parties
<1>3. ~Waiting' /\ ~Waiting /\ Cur = given - 1
  BY DEF Waiting, Cur
<1>4. drain_done(in) = in.collects
  BY <1>1 DEF drain_done
<1>5. /\ s'.drain_done_seen =
           (s.drain_done_seen \/ (in.collects /\ ~s.prev_drain_pending))
      /\ s'.drain_started = (s.drain_started \/ DrainsEarly(in))
      /\ s'.prev_drain_pending = (s.prev_drain_pending /\ ~in.collects)
  BY <1>4 DEF WatchNoted, PendingNoted
<1>6. DrainsEarly(in) => ~s.drain_started /\ ~s.prev_drain_pending
  BY DEF DrainsEarly
<1>7. DrainsEarly(in) \in BOOLEAN /\ draining \in BOOLEAN
      /\ s.prev_drain_pending \in BOOLEAN /\ s.drain_started \in BOOLEAN
      /\ s.drain_done_seen \in BOOLEAN
  BY <1>1 DEF DrainsEarly, RegistersOK, Typed
<1>8. CASE s.prev_drain_pending
  <2>1. /\ draining /\ ~raises("psum_drain_start") /\ collected = Cur - 1
        /\ ~s.drain_started /\ ~s.drain_done_seen
    BY <1>8 DEF DrainOK
  <2>2. ~s'.drain_started /\ ~s'.drain_done_seen /\ ~raises("psum_drain_start")'
        /\ s'.prev_drain_pending = ~in.collects /\ draining' = ~in.collects
    BY <1>1, <1>4, <1>5, <1>6, <1>7, <1>8, <2>1
  <2>3. collected' = IF in.collects THEN Cur ELSE Cur - 1
    BY <1>1, <1>3, <2>1
  <2> QED BY <1>1, <1>2, <1>3, <2>2, <2>3 DEF DrainOK, DrainGone, Beginning
<1>9. CASE ~s.prev_drain_pending
  <2>1. IF ~s.drain_started
        THEN DrainGone /\ ~s.drain_done_seen /\ collected = Cur
        ELSE IF s.drain_done_seen THEN DrainGone /\ collected = given
        ELSE DrainComes /\ collected = Cur
    BY <1>9 DEF DrainOK
  <2>2. ~s'.prev_drain_pending
    BY <1>5, <1>9
  <2>3. CASE ~s.drain_started
    <3>1. ~in.collects /\ ~draining' /\ collected' = Cur' /\ ~s'.drain_done_seen
          /\ s'.drain_started = DrainsEarly(in)
      BY <1>1, <1>4, <1>5, <1>7, <2>1, <2>3 DEF DrainGone
    <3> QED BY <1>2, <1>3, <2>2, <3>1 DEF DrainOK, DrainGone, DrainComes, Beginning
  <2>4. CASE s.drain_started /\ s.drain_done_seen
    <3>0. ~raises("psum_drain_start")' /\ s'.drain_done_seen /\ s'.drain_started
      BY <1>5, <1>6, <2>4
    <3>1. /\ ~in.collects /\ ~draining' /\ collected' = given' /\ s'.drain_done_seen
          /\ s'.drain_started /\ ~raises("psum_drain_start")'
      BY <1>1, <1>4, <2>1, <2>4, <3>0 DEF DrainGone
    <3> QED BY <1>2, <1>3, <2>2, <3>1 DEF DrainOK, DrainGone, DrainComes, Beginning
  <2>5. CASE s.drain_started /\ ~s.drain_done_seen
    <3>1. /\ s'.drain_started /\ ~raises("psum_drain_start")'
          /\ s'.drain_done_seen = in.collects /\ draining' = ~in.collects
      BY <1>1, <1>4, <1>5, <1>6, <1>7, <1>9, <2>1, <2>5 DEF DrainComes, raises
    <3>2. collected' = IF in.collects THEN given' ELSE Cur'
      BY <1>1, <1>3, <2>1, <2>5
    <3> QED BY <1>2, <1>3, <2>2, <3>1, <3>2 DEF DrainOK, DrainGone, DrainComes, Beginning
  <2> QED BY <1>7, <2>3, <2>4, <2>5
<1> QED BY <1>8, <1>9

\* The collector while a pass runs, in continuous mode.
LEMMA CollectWatched ==
  ASSUME IInv, NEW in \in Answers, Edge(in), layer' = layer,
         s.state = "COMP_WAIT", s'.state = "COMP_WAIT", Taken, Taken',
         ~in.accepted, Cur' = Cur, PassKept(s'), PendingNoted(s', in),
         FinalNoted(s', in), raises("psum_drain_start")' => DrainsEarly(in)
  PROVE  CollectOK'
<1> SUFFICES ASSUME continuous PROVE CollectOK'
  BY DEF CollectOK, continuous
<1> USE DEF IInv
<1>1. /\ Typed(s) /\ Parties(in) /\ in.collects \in BOOLEAN /\ s.busy
      /\ given \in Nat /\ collected \in Nat
      /\ given' = given /\ collected' = collected + (IF in.collects THEN 1 ELSE 0)
      /\ draining' = (raises("psum_drain_start") \/ (draining /\ ~drain_done(in)))
      /\ in.collects => collected + Running < given /\ collecting
  BY CompWaitEdge
<1>2. ~Waiting'
  BY DEF Waiting
<1>3. DrainGone' /\ ~s'.prev_drain_pending
  BY <1>1 DEF CollectOK, DrainGone, PendingNoted, DrainsEarly
<1>4. collecting' => collected' < given'
  BY <1>1, AnswersMean DEF CollectOK, Parties
<1>5. Cur' - s'.pass_index <= collected'
  <2>1. s'.pass_index = s.pass_index /\ s.pass_index \in Nat /\ Cur \in Nat
    BY <1>1 DEF PassKept, Typed, Position
  <2>2. Cur - s.pass_index <= collected /\ collected <= collected'
    BY <1>1 DEF CollectOK
  <2> HIDE DEF Cur
  <2> QED BY <1>1, <2>1, <2>2
<1>6. last_k' = last_k
  BY DEF last_k, next_k, PassKept
<1>7. s'.collector_final_done_seen => last_k' /\ collected' = given'
  <2>1. CASE s.collector_final_done_seen
    <3>1. last_k /\ collected = given
      BY <2>1 DEF CollectOK
    <3>2. ~in.collects
      BY <1>1, <3>1 DEF Running
    <3> QED BY <1>1, <1>6, <3>1, <3>2
  <2>2. CASE ~s.collector_final_done_seen /\ final_done(in)
    <3>1. last_k /\ collected + 1 = given /\ in.collects
      BY <1>1, <2>2, FinalSeen DEF final_done
    <3> QED BY <1>1, <1>6, <3>1
  <2>3. CASE ~s.collector_final_done_seen /\ ~final_done(in)
    BY <2>3 DEF FinalNoted
  <2> QED BY <2>1, <2>2, <2>3
<1> QED BY <1>2, <1>3, <1>4, <1>5, <1>7 DEF CollectOK, continuous


\* The pass runs on, and nothing is requested.
LEMMA RunStep ==
  ASSUME IInv, NEW in \in Answers, Edge(in), layer' = layer,
         s.state = "COMP_WAIT", Taken, ~Handed, ~in.accepted,
         ~prefetch_start_now(in), s' = Watched(in)
  PROVE  IInv'
<1> USE DEF IInv
<1>1. /\ Typed(s) /\ s.busy /\ Parties(in) /\ in.fire \in BOOLEAN
      /\ in.feeder_done \in BOOLEAN /\ compute_done \in BOOLEAN
      /\ given' = given /\ given \in Nat /\ left \in Nat
      /\ left' = (IF in.fire THEN left - 1 ELSE left)
      /\ compute_done' = (in.fire /\ left = 1)
      /\ request' = (request \/ raises("compute_start"))
      /\ in.fire => left # 0 /\ (left = 1 => fed # 0 \/ in.feeder_done)
  BY CompWaitEdge
<1>2. /\ Typed(s') /\ s'.state = "COMP_WAIT" /\ s'.busy = s.busy
      /\ s'.pulse = DrainPulse(in)
      /\ PassKept(s') /\ FeedAddressKept(s') /\ WatchNoted(s', in)
      /\ PrefetchNoted(s', in) /\ PendingNoted(s', in)
      /\ FinalNoted(s', in) /\ HandoffNoted(s', in)
  BY <1>1, WatchedFields
<1>3. /\ raises("psum_drain_start")' <=> DrainsEarly(in)
      /\ ~raises("bias_load_start")' /\ ~raises("weight_load_start")'
      /\ ~raises("feeder_start")' /\ ~raises("compute_start")'
  BY <1>2 DEF raises, DrainPulse
<1>4. /\ Asked' = Asked /\ s'.fast_handoff_armed = s.fast_handoff_armed
      /\ s'.fast_handoff_accepted = s.fast_handoff_accepted
  BY <1>1, <1>2, <1>3
     DEF Asked, HandoffNoted, fast_handoff_accepted_now, Typed, raises, RegistersOK
<1>5. Taken' /\ ~Handed' /\ ~Waiting /\ ~Waiting'
  BY <1>2, <1>4 DEF Taken, Handed, Waiting, Ending
<1>6. Cur' = Cur
  BY <1>1, <1>5 DEF Cur
<1>7. RegistersOK' /\ HistoryOK' /\ Position' /\ IdlePosition'
  BY <1>1, <1>2, <1>6, HistoryStep, RegistersStep, SamePosition DEF RegistersOK
<1>8. PulsesOK'
  BY <1>1, <1>2, <1>3, <1>4 DEF PulsesOK, Parties, LoadersEdge, Asked
<1>9. WeightOK'
  BY <1>1, <1>2, <1>5, WeightNoted DEF WeightOK, DrainPulse
<1>10. FeedOK'
  <2>1. CASE s.feeder_done_seen
    <3>1. IF ~s'.prefetch_started THEN FeedGone' /\ fed' = Running'
          ELSE IF s'.prefetch_feed_done THEN FeedHeld' /\ fed' = Running' + 1
          ELSE FeedComes' /\ fed' = Running'
      BY <1>1, <1>2, <2>1, FeedNoted DEF DrainPulse
    <3>2. s'.feeder_done_seen
      BY <1>2, <2>1 DEF WatchNoted
    <3> QED BY <1>2, <1>3, <1>5, <3>1, <3>2 DEF FeedOK
  <2>2. CASE ~s.feeder_done_seen
    <3>1. left # 0 /\ ~s.prefetch_started /\ FeedRuns /\ fed = 0 /\ prepared = <<>>
          /\ ~raises("feeder_start")
      BY <2>2 DEF FeedOK, FeedRuns
    <3>2. /\ IF in.feeder_done THEN FeedIdle' ELSE FeedRuns'
          /\ prepared' = <<>>
      BY <1>1, <1>2, <3>1, FeedsCome DEF DrainPulse
    <3>3. /\ s'.feeder_done_seen = in.feeder_done /\ ~s'.prefetch_started
          /\ fed' = (IF in.feeder_done THEN 1 ELSE 0)
                      - (IF in.fire /\ left = 1 THEN 1 ELSE 0)
      BY <1>1, <1>2, <2>2, <3>1 DEF WatchNoted, PrefetchNoted, Parties, fires_last
    <3>4. CASE in.feeder_done
      <4>1. FeedGone' /\ fed' = Running'
        BY <1>1, <3>1, <3>2, <3>3, <3>4 DEF FeedGone, Running
      <4> QED BY <1>2, <1>3, <1>5, <3>3, <3>4, <4>1 DEF FeedOK
    <3>5. CASE ~in.feeder_done
      <4>1. FeedRuns' /\ fed' = 0 /\ left' # 0
        BY <1>1, <3>1, <3>2, <3>3, <3>5
      <4> QED BY <1>2, <1>3, <1>5, <3>2, <3>3, <3>5, <4>1 DEF FeedOK
    <3> QED BY <1>1, <3>4, <3>5
  <2> QED BY <2>1, <2>2
<1>11. ComputeOK'
  <2>1. left = 0 <=> compute_done \/ s.compute_done_seen
    BY <1>1 DEF ComputeOK
  <2>2. s'.compute_done_seen <=> left = 0
    BY <1>1, <1>2, <2>1 DEF WatchNoted, Typed
  <2>3. left' = 0 <=> left = 0 \/ (in.fire /\ left = 1)
    BY <1>1
  <2>4. left' = 0 <=> compute_done' \/ s'.compute_done_seen
    BY <1>1, <2>2, <2>3
  <2> QED BY <1>2, <1>5, <2>4 DEF ComputeOK
<1>12. PrefetchOK'
  BY <1>1, <1>2, <1>4, <1>5
     DEF PrefetchOK, PrefetchNoted, PassKept, last_k, next_k, Parties, continuous
<1>13. DrainOK'
  BY <1>1, <1>2, <1>3, <1>5, <1>6, DrainWatched
<1>14. CollectOK'
  BY <1>1, <1>2, <1>3, <1>5, <1>6, CollectWatched
<1>15. EndOK'
  BY <1>2 DEF EndOK
<1> QED
  BY <1>7, <1>8, <1>9, <1>10, <1>11, <1>12, <1>13, <1>14, <1>15

\* The next pass is requested while this one runs.
LEMMA PrefetchStep ==
  ASSUME IInv, NEW in \in Answers, Edge(in), layer' = layer,
         s.state = "COMP_WAIT", prefetch_start_now(in), s' = Watched(in)
  PROVE  IInv'
<1> USE DEF IInv
<1>0. /\ Taken /\ ~Handed /\ ~Waiting
      /\ ~s.fast_handoff_armed /\ ~s.fast_handoff_accepted
      /\ ~s.prefetch_started /\ ~Asked /\ ~in.accepted
      /\ s.feeder_done_seen /\ FeedGone /\ fed = Running /\ WeightGone
      /\ prefetch_enable_current /\ ~last_k
  BY PrefetchStart
<1>1. /\ Typed(s) /\ s.busy /\ Parties(in) /\ in.fire \in BOOLEAN
      /\ in.feeder_done \in BOOLEAN /\ compute_done \in BOOLEAN
      /\ given' = given /\ given \in Nat /\ left \in Nat
      /\ left' = (IF in.fire THEN left - 1 ELSE left)
      /\ compute_done' = (in.fire /\ left = 1)
      /\ request' = (request \/ raises("compute_start"))
      /\ in.fire => left # 0 /\ (left = 1 => fed # 0 \/ in.feeder_done)
  BY <1>0, CompWaitEdge
<1>2. /\ Typed(s') /\ s'.state = "COMP_WAIT" /\ s'.busy = s.busy
      /\ s'.pulse = {"weight_load_start", "feeder_start"}
            \cup (IF fast_handoff_mode_current THEN {"compute_start"} ELSE {})
            \cup DrainPulse(in)
      /\ PassKept(s') /\ WatchNoted(s', in)
      /\ PrefetchAsked(s') /\ PendingNoted(s', in) /\ FinalNoted(s', in)
      /\ s'.fast_handoff_armed = fast_handoff_mode_current
      /\ s'.fast_handoff_accepted = FALSE
  BY <1>0, <1>1, WatchedPrefetchFields
<1>3. /\ raises("psum_drain_start")' <=> DrainsEarly(in)
      /\ ~raises("bias_load_start")' /\ raises("weight_load_start")'
      /\ raises("feeder_start")'
      /\ raises("compute_start")' <=> fast_handoff_mode_current
  BY <1>2 DEF raises, DrainPulse
<1>4. (Asked' <=> fast_handoff_mode_current) /\ ~request'
  BY <1>0, <1>1, <1>3 DEF Asked
<1>5. Taken' /\ ~Handed' /\ ~Waiting'
  BY <1>2, <1>4 DEF Taken, Handed, Waiting, Ending
<1>6. Cur' = Cur /\ Cur = given - 1
  BY <1>0, <1>1, <1>5 DEF Cur
<1>7. RegistersOK' /\ HistoryOK' /\ Position' /\ IdlePosition'
  BY <1>1, <1>2, <1>6, HistoryStep, RegistersStep, SamePosition DEF RegistersOK
<1>8. PulsesOK'
  BY <1>0, <1>1, <1>2, <1>3, <1>4 DEF PulsesOK, Parties, LoadersEdge, Asked
<1>9. WeightOK'
  <2>1. WeightComes'
    BY <1>0, <1>1, <1>3, AnswersMean
       DEF WeightGone, WeightComes, Parties, LoadersEdge, raises
  <2> QED BY <1>2, <1>5, <2>1 DEF WeightOK, PrefetchAsked
<1>10. FeedOK'
  <2>1. ~in.feeder_done /\ ~raises("feeder_start") /\ prepared = <<>> /\ feeding = "none"
    BY <1>0, AnswersMean DEF FeedGone, FeedIdle
  <2>2. feeding' = "none"
    BY <1>1, <2>1, AnswersMean DEF Parties
  <2>3. prepared' = <<>>
    BY <1>0, <2>1, PreparedNext DEF Edge
  <2>4. FeedComes'
    BY <1>3, <2>2, <2>3 DEF FeedComes
  <2>5. fed' = Running'
    BY <1>0, <1>1, <2>1 DEF Parties, fires_last, Running
  <2>6. FedPass' = Pass(layer', given')
    <3>1. Cur + 1 = given'
      BY <1>1, <1>6
    <3>2. Pass(layer, Cur + 1) =
                   [cout |-> s.cout_base, k |-> next_k,
                    wr_bank |-> (s.pass_index + 1) % 2, first |-> next_k = 0,
                    final |-> next_k + K_TILE >= layer.k_total]
      BY <1>0, <1>1, Here
    <3>3. s'.cout_base = s.cout_base /\ s'.feeder_pass_base_k = next_k
          /\ s'.feeder_k_pass = s.pass_index + 1
      BY <1>2 DEF PassKept, PrefetchAsked
    <3> HIDE DEF Cur
    <3> QED BY <3>1, <3>2, <3>3 DEF FedPass
  <2>7. s'.feeder_done_seen
    BY <1>0, <1>2 DEF WatchNoted
  <2> QED BY <1>2, <1>5, <2>4, <2>5, <2>6, <2>7 DEF FeedOK, PrefetchAsked
<1>11. ComputeOK'
  <2>1. left = 0 <=> compute_done \/ s.compute_done_seen
    BY <1>0, <1>1 DEF ComputeOK
  <2>2. s'.compute_done_seen <=> left = 0
    BY <1>1, <1>2, <2>1 DEF WatchNoted, Typed
  <2>3. left' = 0 <=> left = 0 \/ (in.fire /\ left = 1)
    BY <1>1
  <2>4. left' = 0 <=> compute_done' \/ s'.compute_done_seen
    BY <1>1, <2>2, <2>3
  <2> QED BY <1>2, <1>5, <2>4 DEF ComputeOK
<1>12. PrefetchOK'
  <2>1. last_k' = last_k /\ next_k' = next_k /\ s'.pass_index = s.pass_index
    BY <1>2 DEF PassKept, last_k, next_k
  <2> QED
    BY <1>0, <1>1, <1>2, <1>4, <1>5, <2>1
     DEF PrefetchOK, PrefetchAsked, Parties, continuous, fast_handoff_mode_current
<1>13. DrainOK'
  BY <1>0, <1>1, <1>2, <1>3, <1>5, <1>6, DrainWatched
<1>14. CollectOK'
  BY <1>0, <1>1, <1>2, <1>3, <1>5, <1>6, CollectWatched
<1>15. EndOK'
  BY <1>2 DEF EndOK
<1> QED
  BY <1>7, <1>8, <1>9, <1>10, <1>11, <1>12, <1>13, <1>14, <1>15

\* The core has not yet accepted the pass it was asked for.
LEMMA WaitStep ==
  ASSUME IInv, NEW in \in Answers, Edge(in), layer' = layer,
         Waiting, ~in.accepted, s' = Watched(in)
  PROVE  IInv'
<1> USE DEF IInv
<1>0. /\ s.state = "COMP_WAIT" /\ ~Taken /\ Asked
      /\ ~s.fast_handoff_armed /\ ~s.fast_handoff_accepted /\ ~Handed
      /\ left = 0 /\ ~compute_done /\ ~s.compute_done_seen
      /\ ~s.compute_started_seen /\ ~s.prefetch_started
  BY DEF Waiting, Taken, Ending, PrefetchOK, Handed, ComputeOK
<1>1. /\ Typed(s) /\ s.busy /\ Parties(in) /\ in.fire \in BOOLEAN
      /\ in.feeder_done \in BOOLEAN /\ compute_done \in BOOLEAN
      /\ given' = given /\ given \in Nat /\ ~in.fire
      /\ left' = 0 /\ ~compute_done' /\ collected \in Nat
      /\ collected' = collected + (IF in.collects THEN 1 ELSE 0)
      /\ request' = (request \/ raises("compute_start"))
      /\ draining' = (raises("psum_drain_start") \/ (draining /\ ~drain_done(in)))
      /\ in.collects \in BOOLEAN
      /\ in.collects => /\ collected + Running < given
                        /\ IF continuous THEN collecting ELSE draining
  BY <1>0, CompWaitEdge
<1>2. ~prefetch_start_now(in) /\ ~DrainsEarly(in) /\ DrainPulse(in) = {}
  BY <1>0, <1>1, PrefetchStart DEF DrainsEarly, DrainPulse
<1>3. /\ Typed(s') /\ s'.state = "COMP_WAIT" /\ s'.busy = s.busy /\ s'.pulse = {}
      /\ PassKept(s') /\ WatchNoted(s', in)
      /\ PrefetchNoted(s', in) /\ PendingNoted(s', in)
      /\ FinalNoted(s', in) /\ HandoffNoted(s', in)
  BY <1>0, <1>1, <1>2, WatchedFields
<1>4. Asked' /\ request' /\ ~s'.fast_handoff_armed /\ ~s'.fast_handoff_accepted
  BY <1>0, <1>1, <1>3 DEF Asked, HandoffNoted, fast_handoff_accepted_now
<1>5. Waiting' /\ ~Taken' /\ ~Handed'
  BY <1>3, <1>4 DEF Taken, Handed, Waiting, Ending
<1>6. Cur' = Cur /\ Cur = given
  BY <1>0, <1>1, <1>5 DEF Cur
<1>7. RegistersOK' /\ HistoryOK' /\ Position' /\ IdlePosition'
  BY <1>1, <1>3, <1>6, HistoryStep, RegistersStep, SamePosition DEF RegistersOK
<1>8. PulsesOK'
  BY <1>0, <1>1, <1>3, <1>4 DEF PulsesOK, Parties, LoadersEdge, raises
<1>9. WeightOK'
  BY <1>0, <1>1, <1>3, <1>5, WeightsCome DEF WeightOK
<1>10. FeedOK'
  <2>1. s'.feeder_done_seen = feed_kept(in)
    BY <1>3 DEF WatchNoted, feed_kept
  <2>2. /\ Prepared'
        /\ IF s'.feeder_done_seen THEN FeedIdle' /\ fed' = 1
           ELSE FeedRuns' /\ fed' = 0
    BY <1>0, <1>1, <1>3, <2>1, FeedKept DEF FeedOK
  <2> QED BY <1>3, <1>5, <2>2 DEF FeedOK, FeedIdle, FeedRuns
<1>11. ComputeOK'
  BY <1>0, <1>1, <1>3, <1>5 DEF ComputeOK, WatchNoted, PrefetchNoted
<1>12. PrefetchOK'
  BY <1>3, <1>4, <1>5 DEF PrefetchOK
<1>13. DrainOK'
  <2>1. SUFFICES ASSUME ~continuous PROVE DrainOK'
    BY <1>1 DEF DrainOK, Parties, continuous
  <2>2. ~collecting'
    BY <1>1, <2>1, AnswersMean DEF DrainOK, Parties
  <2>3. drain_done(in) = in.collects /\ ~raises("psum_drain_start")'
    BY <1>1, <1>3, <2>1 DEF drain_done, raises
  <2>4. ~s'.drain_started /\ (s.prev_drain_pending => ~s'.drain_done_seen)
    BY <1>2, <1>3, <1>0, <2>1 DEF DrainOK, WatchNoted
  <2> QED
    BY <1>0, <1>1, <1>3, <1>5, <1>6, <2>1, <2>2, <2>3, <2>4
       DEF DrainOK, DrainGone, Beginning, PendingNoted, WatchNoted, RegistersOK
<1>14. CollectOK'
  <2>1. SUFFICES ASSUME continuous PROVE CollectOK'
    BY <1>1 DEF CollectOK, Parties, continuous
  <2>2. DrainGone' /\ ~s'.prev_drain_pending
    BY <1>1, <1>3, <2>1 DEF CollectOK, DrainGone, PendingNoted, raises
  <2>3. collecting' => collected' < given'
    BY <1>1, <2>1, AnswersMean DEF CollectOK, Parties
  <2>4. Cur' - s'.pass_index <= collected'
    BY <1>1, <1>3, <1>6, <2>1 DEF CollectOK, PassKept, Typed
  <2>5. ~s'.collector_final_done_seen
    BY <1>0, <1>1, <1>3, <2>1, FinalSeen DEF CollectOK, FinalNoted
  <2> QED BY <1>3, <1>5, <2>2, <2>3, <2>4, <2>5 DEF CollectOK
<1>15. EndOK'
  BY <1>3 DEF EndOK
<1> QED
  BY <1>7, <1>8, <1>9, <1>10, <1>11, <1>12, <1>13, <1>14, <1>15


\* The core takes the weights and the descriptor of the pass that it accepts.
LEMMA AcceptTakes ==
  ASSUME IInv, NEW in \in Answers, Edge(in), Parties(in), in.accepted,
         "weight_load_start" \notin s'.pulse, "feeder_start" \notin s'.pulse
  PROVE  /\ WeightGone' /\ prepared' = <<>> /\ ~request'
         /\ FeedIdle => FeedIdle' /\ ~in.feeder_done
         /\ FeedRuns => IF in.feeder_done THEN FeedIdle' ELSE FeedRuns'
<1> USE DEF IInv
<1>1. /\ s.state = "COMP_WAIT"
      /\ Waiting \/ (s.fast_handoff_armed /\ ~s.fast_handoff_accepted)
      /\ ~Handed /\ Prepared
      /\ ~raises("feeder_start") /\ ~raises("compute_start")
  BY Acceptance
<1>2. /\ weights # 0 \/ in.weight_load_done
      /\ in.weight_load_done \in BOOLEAN /\ (in.weight_load_done => weight_loading)
      /\ in.feeder_done \in BOOLEAN /\ in.level \in BOOLEAN
      /\ (in.feeder_done => feeding # "none") /\ (in.level => feeding = "filling")
  BY AnswersMean
<1>3. WeightHeld \/ WeightComes
  BY <1>1, <1>2 DEF WeightOK, PrefetchOK, Taken, Handed, WeightGone
<1>4. /\ weight_loading' =
           (raises("weight_load_start") \/ (weight_loading /\ ~in.weight_load_done))
      /\ weights' = weights + (IF in.weight_load_done THEN 1 ELSE 0) - 1
      /\ weights \in Nat /\ weight_loading \in BOOLEAN /\ ~request'
      /\ feeding' = (IF raises("feeder_start") /\ feeder_start_ready THEN "filling"
                     ELSE IF in.feeder_done THEN "none"
                     ELSE IF in.level THEN "level" ELSE feeding)
      /\ feeding \in {"none", "filling", "level"} /\ FeederEdge(in)
  BY DEF Parties, Edge, LoadersEdge, CoreEdge, RegistersOK
<1>5. ~raises("weight_load_start")' /\ ~raises("feeder_start")'
  BY DEF raises
<1>6. WeightGone'
  <2>1. CASE WeightHeld
    BY <2>1, <1>2, <1>4, <1>5 DEF WeightHeld, WeightGone, raises
  <2>2. CASE WeightComes
    <3>1. weights = 0 /\ in.weight_load_done /\ weight_loading
          /\ ~raises("weight_load_start")
      BY <2>2, <1>2 DEF WeightComes
    <3>2. ~weight_loading'
      BY <3>1, <1>4
    <3>3. weights' = 0
      BY <3>1, <1>4
    <3> QED BY <3>2, <3>3, <1>5 DEF WeightGone
  <2> QED BY <1>3, <2>1, <2>2
<1>7. prepared' = <<>>
  BY <1>1, <1>4, PreparedNext DEF Prepared
<1>8. FeedIdle => FeedIdle' /\ ~in.feeder_done
  BY <1>1, <1>2, <1>4, <1>5 DEF FeedIdle
<1>9. FeedRuns => IF in.feeder_done THEN FeedIdle' ELSE FeedRuns'
  BY <1>1, <1>2, <1>4, <1>5 DEF FeedIdle, FeedRuns
<1> QED BY <1>4, <1>6, <1>7, <1>8, <1>9

\* The core accepts the pass it was asked for.
LEMMA AcceptStep ==
  ASSUME IInv, NEW in \in Answers, Edge(in), layer' = layer,
         Waiting, in.accepted, s' = Watched(in)
  PROVE  IInv'
<1> USE DEF IInv
<1>0. /\ s.state = "COMP_WAIT" /\ ~Taken /\ Asked
      /\ ~s.fast_handoff_armed /\ ~s.fast_handoff_accepted /\ ~Handed
      /\ left = 0 /\ ~compute_done /\ ~s.compute_done_seen
      /\ ~s.compute_started_seen /\ ~s.prefetch_started
  BY DEF Waiting, Taken, Ending, PrefetchOK, Handed, ComputeOK
<1>1. /\ Typed(s) /\ s.busy /\ Parties(in) /\ in.fire \in BOOLEAN
      /\ in.feeder_done \in BOOLEAN /\ compute_done \in BOOLEAN
      /\ given' = given + 1 /\ given \in Nat /\ ~in.fire
      /\ left' # 0 /\ ~compute_done' /\ collected \in Nat
      /\ collected' = collected + (IF in.collects THEN 1 ELSE 0)
      /\ draining' = (raises("psum_drain_start") \/ (draining /\ ~drain_done(in)))
      /\ in.collects \in BOOLEAN
      /\ in.collects => /\ collected + Running < given
                        /\ IF continuous THEN collecting ELSE draining
  BY <1>0, CompWaitEdge
<1>2. ~prefetch_start_now(in) /\ ~DrainsEarly(in) /\ DrainPulse(in) = {}
  BY <1>0, <1>1, PrefetchStart DEF DrainsEarly, DrainPulse
<1>3. /\ Typed(s') /\ s'.state = "COMP_WAIT" /\ s'.busy = s.busy /\ s'.pulse = {}
      /\ PassKept(s') /\ WatchNoted(s', in)
      /\ PrefetchNoted(s', in) /\ PendingNoted(s', in)
      /\ FinalNoted(s', in) /\ HandoffNoted(s', in)
  BY <1>0, <1>1, <1>2, WatchedFields
<1>4. /\ WeightGone' /\ prepared' = <<>> /\ ~request' /\ ~Asked'
      /\ FeedIdle => FeedIdle' /\ ~in.feeder_done
      /\ FeedRuns => IF in.feeder_done THEN FeedIdle' ELSE FeedRuns'
      /\ ~s'.fast_handoff_armed /\ ~s'.fast_handoff_accepted
  BY <1>0, <1>1, <1>2, <1>3, AcceptTakes
     DEF Asked, raises, HandoffNoted, fast_handoff_accepted_now, fast_handoff_pending_now
<1>5. Taken' /\ ~Waiting' /\ ~Handed'
  BY <1>3, <1>4 DEF Taken, Handed, Waiting, Ending
<1>6. Cur' = Cur /\ Cur = given
  BY <1>0, <1>1, <1>5 DEF Cur
<1>7. RegistersOK' /\ HistoryOK' /\ Position' /\ IdlePosition'
  BY <1>1, <1>3, <1>6, HistoryStep, RegistersStep, SamePosition DEF RegistersOK
<1>8. PulsesOK'
  BY <1>0, <1>1, <1>3, <1>4 DEF PulsesOK, Parties, LoadersEdge, raises
<1>9. ~s'.prefetch_started
  BY <1>0, <1>3 DEF PrefetchNoted
<1>10. WeightOK'
  BY <1>3, <1>4, <1>5, <1>9 DEF WeightOK
<1>11. FeedOK'
  <2>1. s'.feeder_done_seen = (s.feeder_done_seen \/ in.feeder_done)
    BY <1>3 DEF WatchNoted
  <2>2. fed' = fed + (IF in.feeder_done THEN 1 ELSE 0) /\ Running' = 1
    BY <1>1 DEF Parties, fires_last, Running, RegistersOK
  <2>3. IF s.feeder_done_seen THEN FeedIdle /\ fed = 1 ELSE FeedRuns /\ fed = 0
    BY DEF FeedOK
  <2>4. IF s'.feeder_done_seen THEN FeedGone' /\ fed' = Running'
        ELSE FeedRuns' /\ fed' = 0
    BY <1>1, <1>4, <2>1, <2>2, <2>3 DEF FeedGone, Typed
  <2> QED BY <1>1, <1>3, <1>4, <1>5, <1>9, <2>4 DEF FeedOK, raises
<1>12. ComputeOK'
  BY <1>0, <1>1, <1>3, <1>5 DEF ComputeOK, WatchNoted
<1>13. PrefetchOK'
  BY <1>3, <1>4, <1>5, <1>9 DEF PrefetchOK
<1>14. DrainOK'
  <2>1. SUFFICES ASSUME ~continuous PROVE DrainOK'
    BY <1>1 DEF DrainOK, Parties, continuous
  <2>2. ~collecting'
    BY <1>1, <2>1, AnswersMean DEF DrainOK, Parties
  <2>3. drain_done(in) = in.collects /\ ~raises("psum_drain_start")'
    BY <1>1, <1>3, <2>1 DEF drain_done, raises
  <2>4. /\ ~s.drain_started /\ ~s.drain_done_seen /\ ~s'.drain_started
        /\ s'.drain_done_seen = (in.collects /\ ~s.prev_drain_pending)
        /\ s'.prev_drain_pending = (s.prev_drain_pending /\ ~in.collects)
        /\ s.prev_drain_pending \in BOOLEAN
    BY <1>1, <1>2, <1>3, <2>1, <2>3
       DEF DrainOK, WatchNoted, PendingNoted, Typed
  <2>5. CASE s.prev_drain_pending
    <3>1. draining /\ ~raises("psum_drain_start") /\ collected = Cur - 1
      BY <2>1, <2>5 DEF DrainOK
    <3>2. /\ ~s'.drain_done_seen /\ s'.prev_drain_pending = ~in.collects
          /\ draining' = ~in.collects
      BY <1>1, <2>3, <2>4, <2>5, <3>1
    <3>3. collected' = IF in.collects THEN Cur ELSE Cur - 1
      BY <1>1, <1>6, <3>1
    <3> QED
      BY <1>1, <1>3, <1>5, <1>6, <2>2, <2>3, <2>4, <3>2, <3>3
         DEF DrainOK, DrainGone, Beginning
  <2>6. CASE ~s.prev_drain_pending
    <3>1. DrainGone /\ collected = given
      BY <2>1, <2>6 DEF DrainOK
    <3>2. ~in.collects
      BY <1>1, <2>1, <3>1 DEF DrainGone
    <3> QED
      BY <1>1, <1>3, <1>5, <1>6, <2>2, <2>3, <2>4, <2>6, <3>1, <3>2
         DEF DrainOK, DrainGone, Beginning
  <2> QED BY <2>5, <2>6
<1>15. CollectOK'
  <2>1. SUFFICES ASSUME continuous PROVE CollectOK'
    BY <1>1 DEF CollectOK, Parties, continuous
  <2>2. DrainGone' /\ ~s'.prev_drain_pending
    BY <1>1, <1>3, <2>1 DEF CollectOK, DrainGone, PendingNoted, raises
  <2>3. collecting' => collected' < given'
    BY <1>1, <2>1, AnswersMean DEF CollectOK, Parties
  <2>4. Cur' - s'.pass_index <= collected'
    BY <1>1, <1>3, <1>6, <2>1 DEF CollectOK, PassKept, Typed
  <2>5. ~s'.collector_final_done_seen
    BY <1>0, <1>1, <1>3, <2>1, FinalSeen DEF CollectOK, FinalNoted
  <2> QED BY <1>3, <1>5, <2>2, <2>3, <2>4, <2>5 DEF CollectOK
<1>16. EndOK'
  BY <1>3 DEF EndOK
<1> QED
  BY <1>7, <1>8, <1>10, <1>11, <1>12, <1>13, <1>14, <1>15, <1>16

\* The facts about an armed handoff.
LEMMA Armed ==
  ASSUME IInv, s.fast_handoff_armed
  PROVE  /\ s.state = "COMP_WAIT" /\ continuous /\ Taken /\ ~Waiting
         /\ s.prefetch_started /\ s.feeder_done_seen /\ ~last_k
         /\ s.prefetch_pass_base_k = next_k
         /\ s.prefetch_pass_index = s.pass_index + 1
         /\ Asked <=> ~s.fast_handoff_accepted
         /\ Handed <=> s.fast_handoff_accepted
         /\ ~s.collector_final_done_seen
<1> USE DEF IInv
<1>1. /\ s.state = "COMP_WAIT" /\ continuous /\ s.prefetch_started
      /\ Asked <=> ~s.fast_handoff_accepted
  BY DEF PrefetchOK
<1>2. Taken /\ ~Waiting /\ (Handed <=> s.fast_handoff_accepted)
  BY <1>1 DEF Taken, Waiting, Handed
<1>3. ~last_k /\ s.prefetch_pass_base_k = next_k
      /\ s.prefetch_pass_index = s.pass_index + 1
  BY <1>1, <1>2 DEF PrefetchOK
<1>4. s.feeder_done_seen
  BY <1>1, <1>2 DEF FeedOK
<1>5. ~s.collector_final_done_seen
  BY <1>1, <1>2, <1>3 DEF CollectOK
<1> QED BY <1>1, <1>2, <1>3, <1>4, <1>5


\* The core accepts the armed pass while the last vector of the running one is
\* fired: the handoff follows on the next edge.
LEMMA ArmedAcceptStep ==
  ASSUME IInv, NEW in \in Answers, Edge(in), layer' = layer,
         s.fast_handoff_armed, in.accepted, ~active_context_complete_now(in),
         s' = Watched(in)
  PROVE  IInv'
<1> USE DEF IInv
<1>0. /\ s.state = "COMP_WAIT" /\ continuous /\ Taken /\ ~Waiting
      /\ s.prefetch_started /\ s.feeder_done_seen /\ ~last_k
      /\ s.prefetch_pass_base_k = next_k
      /\ s.prefetch_pass_index = s.pass_index + 1
      /\ ~s.collector_final_done_seen
      /\ ~s.fast_handoff_accepted /\ ~Handed /\ Prepared
      /\ ~raises("feeder_start") /\ ~raises("compute_start")
  BY Armed, Acceptance
<1>1. /\ Typed(s) /\ s.busy /\ Parties(in) /\ in.fire \in BOOLEAN
      /\ in.feeder_done \in BOOLEAN /\ compute_done \in BOOLEAN
      /\ given' = given + 1 /\ given \in Nat /\ left \in Nat
      /\ left' # 0 /\ compute_done' = (in.fire /\ left = 1)
      /\ collected \in Nat
      /\ collected' = collected + (IF in.collects THEN 1 ELSE 0)
      /\ draining' = (raises("psum_drain_start") \/ (draining /\ ~drain_done(in)))
      /\ in.collects \in BOOLEAN
      /\ left = 0 \/ (in.fire /\ left = 1)
      /\ in.collects => /\ collected + Running < given
                        /\ IF continuous THEN collecting ELSE draining
  BY <1>0, CompWaitEdge
<1>2. ~prefetch_start_now(in) /\ ~DrainsEarly(in) /\ DrainPulse(in) = {}
  BY <1>0 DEF prefetch_start_now, DrainsEarly, DrainPulse
<1>3. /\ Typed(s') /\ s'.state = "COMP_WAIT" /\ s'.busy = s.busy /\ s'.pulse = {}
      /\ PassKept(s') /\ WatchNoted(s', in)
      /\ PrefetchNoted(s', in) /\ PendingNoted(s', in)
      /\ FinalNoted(s', in) /\ HandoffNoted(s', in)
  BY <1>0, <1>1, <1>2, WatchedFields
<1>4. /\ WeightGone' /\ prepared' = <<>> /\ ~request' /\ ~Asked'
      /\ FeedIdle => FeedIdle' /\ ~in.feeder_done
      /\ FeedRuns => IF in.feeder_done THEN FeedIdle' ELSE FeedRuns'
      /\ s'.fast_handoff_armed /\ s'.fast_handoff_accepted
  BY <1>0, <1>1, <1>2, <1>3, AcceptTakes
     DEF Asked, raises, HandoffNoted, fast_handoff_accepted_now, fast_handoff_pending_now
<1>5. Taken' /\ ~Waiting' /\ Handed'
  BY <1>3, <1>4 DEF Taken, Handed, Waiting, Ending
<1>6. Cur' = Cur /\ Cur = given - 1
  BY <1>0, <1>1, <1>5 DEF Cur
<1>7. RegistersOK' /\ HistoryOK' /\ Position' /\ IdlePosition'
  BY <1>1, <1>3, <1>6, HistoryStep, RegistersStep, SamePosition DEF RegistersOK
<1>8. PulsesOK'
  BY <1>0, <1>1, <1>3, <1>4 DEF PulsesOK, Parties, LoadersEdge, raises
<1>9. left = 1 /\ compute_done' /\ s'.feeder_done_seen /\ s'.prefetch_started
  <2>1. ~computed
    BY <1>0 DEF active_context_complete_now, fed_all
  <2>2. left # 0
    BY <2>1, <1>0 DEF ComputeOK, computed
  <2> QED BY <2>2, <1>0, <1>1, <1>3 DEF WatchNoted, PrefetchNoted
<1>10. WeightOK'
  BY <1>3, <1>4, <1>5 DEF WeightOK
<1>11. FeedOK'
  <2>1. /\ fed' = fed + (IF in.feeder_done THEN 1 ELSE 0) - 1 /\ Running = 1
        /\ fed \in Nat
    BY <1>1, <1>9 DEF Parties, fires_last, Running, RegistersOK
  <2>2. IF s.prefetch_feed_done THEN FeedIdle /\ fed = 2 ELSE FeedRuns /\ fed = 1
    BY <1>0, <2>1 DEF FeedOK, FeedHeld, FeedComes, Prepared
  <2>3. /\ s'.prefetch_feed_done = (s.prefetch_feed_done \/ in.feeder_done)
        /\ s.prefetch_feed_done \in BOOLEAN
    BY <1>0, <1>1, <1>3 DEF PrefetchNoted, Typed
  <2>4. IF s'.prefetch_feed_done THEN FeedIdle' /\ fed' = 1 ELSE FeedRuns' /\ fed' = 0
    BY <1>1, <1>4, <2>1, <2>2, <2>3
  <2> QED BY <1>3, <1>4, <1>5, <1>9, <2>4 DEF FeedOK, raises
<1>12. ComputeOK'
  BY <1>1, <1>3, <1>5, <1>9 DEF ComputeOK
<1>13. PrefetchOK'
  <2>1. last_k' = last_k /\ next_k' = next_k /\ s'.pass_index = s.pass_index
    BY <1>1, <1>3 DEF PassKept, last_k, next_k, Parties
  <2>2. ENABLE_FAST_CONTEXT_HANDOFF
    BY DEF PrefetchOK
  <2> QED
    BY <1>0, <1>1, <1>3, <1>4, <1>5, <2>1, <2>2
       DEF PrefetchOK, PrefetchNoted, Parties, continuous
<1>14. DrainOK'
  BY <1>0, <1>1 DEF DrainOK, Parties, continuous
<1>15. CollectOK'
  <2>2. DrainGone' /\ ~s'.prev_drain_pending
    BY <1>0, <1>1, <1>3 DEF CollectOK, DrainGone, PendingNoted, raises
  <2>3. collecting' => collected' < given'
    BY <1>0, <1>1, AnswersMean DEF CollectOK, Parties
  <2>4. Cur' - s'.pass_index <= collected'
    BY <1>0, <1>1, <1>3, <1>6 DEF CollectOK, PassKept, Typed
  <2>5. ~s'.collector_final_done_seen
    BY <1>0, <1>1, <1>3, FinalSeen DEF CollectOK, FinalNoted
  <2> QED BY <1>3, <1>5, <2>2, <2>3, <2>4, <2>5 DEF CollectOK
<1>16. EndOK'
  BY <1>3 DEF EndOK
<1> QED
  BY <1>7, <1>8, <1>10, <1>11, <1>12, <1>13, <1>14, <1>15, <1>16

\* The registers after a handoff.
LEMMA FastHandoffFields ==
  ASSUME Typed(s), NEW in \in Answers, compute_done \in BOOLEAN,
         in.fire \in BOOLEAN, in.feeder_done \in BOOLEAN,
         ~prefetch_start_now(in), ~DrainsEarly(in), FastHandoff(in)
  PROVE  /\ Typed(s') /\ s'.state = "COMP_WAIT" /\ s'.busy = s.busy /\ s'.pulse = {}
         /\ s'.pass_base_k = s.prefetch_pass_base_k /\ s'.cout_base = s.cout_base
         /\ s'.pass_index = s.prefetch_pass_index /\ s'.pass_bank = 1 - s.pass_bank
         /\ ~s'.compute_done_seen
         /\ s'.feeder_done_seen = (s.prefetch_feed_done \/
                                     (s.prefetch_started /\ in.feeder_done))
         /\ ~s'.prefetch_started /\ ~s'.collector_final_done_seen
         /\ ~s'.fast_handoff_armed /\ ~s'.fast_handoff_accepted
         /\ PendingNoted(s', in)
<1> DEFINE t == Watched(in)
<1>1. /\ Typed(t) /\ t.state = s.state /\ t.busy = s.busy /\ t.pulse = {}
      /\ PassKept(t) /\ FeedAddressKept(t) /\ PrefetchNoted(t, in)
      /\ PendingNoted(t, in)
  BY WatchedFields DEF DrainPulse
<1>2. s' = [t EXCEPT
       !.pass_base_k = s.prefetch_pass_base_k,
       !.pass_index = s.prefetch_pass_index, !.pass_bank = 1 - s.pass_bank,
       !.compute_done_seen = FALSE, !.compute_started_seen = in.fire,
       !.feeder_done_seen = s.prefetch_feed_done \/
                              (s.prefetch_started /\ in.feeder_done),
       !.drain_started = FALSE, !.drain_done_seen = FALSE,
       !.drain_packet_seen = FALSE, !.collector_final_done_seen = FALSE,
       !.prefetch_started = FALSE, !.prefetch_weight_done = FALSE,
       !.prefetch_feed_done = FALSE,
       !.fast_handoff_armed = FALSE, !.fast_handoff_accepted = FALSE]
      /\ s.state = "COMP_WAIT"
  BY DEF FastHandoff
<1> HIDE DEF t
<1>3. DOMAIN t = Registers
  BY <1>1 DEF Typed
<1>4. DOMAIN s' = Registers
  BY <1>2, <1>3
<1>5. /\ s'.state = t.state /\ s'.busy = t.busy /\ s'.pulse = t.pulse
      /\ s'.cout_base = t.cout_base
      /\ s'.feeder_pass_base_k = t.feeder_pass_base_k
      /\ s'.feeder_k_pass = t.feeder_k_pass
      /\ s'.prefetch_pass_base_k = t.prefetch_pass_base_k
      /\ s'.prefetch_pass_index = t.prefetch_pass_index
      /\ s'.prev_drain_pending = t.prev_drain_pending
      /\ s'.pass_base_k = s.prefetch_pass_base_k
      /\ s'.pass_index = s.prefetch_pass_index /\ s'.pass_bank = 1 - s.pass_bank
      /\ s'.compute_done_seen = FALSE /\ s'.compute_started_seen = in.fire
      /\ s'.feeder_done_seen = (s.prefetch_feed_done \/
                                  (s.prefetch_started /\ in.feeder_done))
      /\ s'.drain_started = FALSE /\ s'.drain_done_seen = FALSE
      /\ s'.drain_packet_seen = FALSE /\ s'.collector_final_done_seen = FALSE
      /\ s'.prefetch_started = FALSE /\ s'.prefetch_weight_done = FALSE
      /\ s'.prefetch_feed_done = FALSE
      /\ s'.fast_handoff_armed = FALSE /\ s'.fast_handoff_accepted = FALSE
  BY <1>2, <1>3 DEF Registers
<1>6. /\ s.prefetch_pass_base_k \in Nat /\ s.prefetch_pass_index \in Nat
      /\ 1 - s.pass_bank \in {0, 1}
      /\ (s.prefetch_feed_done \/ (s.prefetch_started /\ in.feeder_done)) \in BOOLEAN
  BY DEF Typed
<1>7. Typed(s')
  BY <1>1, <1>4, <1>5, <1>6 DEF Typed
<1> QED BY <1>1, <1>2, <1>5, <1>7 DEF PassKept, PendingNoted

\* The handoff itself, with the acceptance on this edge or on the one before.
LEMMA FastHandoffStep ==
  ASSUME IInv, NEW in \in Answers, Edge(in), layer' = layer, FastHandoff(in)
  PROVE  IInv'
<1> USE DEF IInv
<1>1. /\ s.state = "COMP_WAIT" /\ continuous
      /\ fast_handoff_pending_now(in) /\ fast_handoff_accepted_now(in)
      /\ active_context_complete_now(in)
  BY DEF FastHandoff
<1>2. s.fast_handoff_armed
  BY <1>1, PrefetchStart DEF fast_handoff_pending_now, fast_handoff_accepted_now
<1>3. /\ Taken /\ ~Waiting /\ s.prefetch_started /\ s.feeder_done_seen /\ ~last_k
      /\ s.prefetch_pass_base_k = next_k
      /\ s.prefetch_pass_index = s.pass_index + 1
      /\ Asked <=> ~s.fast_handoff_accepted
      /\ Handed <=> s.fast_handoff_accepted
  BY <1>2, Armed
<1>4. /\ Typed(s) /\ s.busy /\ Parties(in) /\ in.fire \in BOOLEAN
      /\ in.accepted \in BOOLEAN
      /\ in.feeder_done \in BOOLEAN /\ compute_done \in BOOLEAN
      /\ given' = given + (IF in.accepted THEN 1 ELSE 0)
      /\ given \in Nat /\ left \in Nat /\ layer.num_pixels \in Nat \ {0}
      /\ left' = (IF in.accepted THEN layer.num_pixels
                  ELSE IF in.fire THEN left - 1 ELSE left)
      /\ compute_done' = (in.fire /\ left = 1)
      /\ request' = ((request \/ raises("compute_start")) /\ ~in.accepted)
      /\ collected \in Nat
      /\ collected' = collected + (IF in.collects THEN 1 ELSE 0)
      /\ draining' = (raises("psum_drain_start") \/ (draining /\ ~drain_done(in)))
      /\ in.fire => left # 0 /\ (left = 1 => fed # 0 \/ in.feeder_done)
      /\ in.collects \in BOOLEAN
  BY <1>1, CompWaitEdge
<1>5. ~prefetch_start_now(in) /\ ~DrainsEarly(in)
  BY <1>1, <1>3 DEF prefetch_start_now, DrainsEarly
<1>6. /\ Typed(s') /\ s'.state = "COMP_WAIT" /\ s'.busy = s.busy /\ s'.pulse = {}
      /\ s'.pass_base_k = s.prefetch_pass_base_k /\ s'.cout_base = s.cout_base
      /\ s'.pass_index = s.prefetch_pass_index /\ s'.pass_bank = 1 - s.pass_bank
      /\ ~s'.compute_done_seen
      /\ s'.feeder_done_seen = (s.prefetch_feed_done \/
                                  (s.prefetch_started /\ in.feeder_done))
      /\ ~s'.prefetch_started /\ ~s'.collector_final_done_seen
      /\ ~s'.fast_handoff_armed /\ ~s'.fast_handoff_accepted
      /\ PendingNoted(s', in)
  BY <1>4, <1>5, FastHandoffFields
<1>7. \/ s.fast_handoff_accepted /\ ~in.accepted
      \/ ~s.fast_handoff_accepted /\ in.accepted
  <2>1. s.fast_handoff_accepted \/ in.accepted
    BY <1>1 DEF fast_handoff_accepted_now
  <2>2. ~(s.fast_handoff_accepted /\ in.accepted)
    BY Acceptance, <1>3
  <2> QED BY <2>1, <2>2
<1>8. /\ WeightGone' /\ prepared' = <<>> /\ ~request'
      /\ FeedIdle => FeedIdle' /\ ~in.feeder_done
      /\ FeedRuns => IF in.feeder_done THEN FeedIdle' ELSE FeedRuns'
  <2>1. CASE in.accepted
    BY <2>1, <1>4, <1>6, AcceptTakes
  <2>2. CASE ~in.accepted
    <3>1. Handed /\ WeightGone /\ prepared = <<>> /\ ~raises("feeder_start")
          /\ ~request /\ ~raises("compute_start")
      BY <2>2, <1>3, <1>7 DEF WeightOK, FeedOK, FeedIdle, FeedRuns, Asked
    <3> QED BY <2>2, <3>1, <1>4, <1>6, WeightsCome, FeedsCome
  <2> QED BY <1>4, <2>1, <2>2
<1>9. ~Asked' /\ Taken' /\ ~Waiting' /\ ~Handed'
  BY <1>6, <1>8 DEF Asked, raises, Taken, Handed, Waiting, Ending
<1>10. Cur' = Cur + 1
  <2>1. Cur' = given' - 1
    BY <1>9 DEF Cur
  <2>2. Cur = IF s.fast_handoff_accepted THEN given - 2 ELSE given - 1
    BY <1>3 DEF Cur
  <2> HIDE DEF Cur
  <2> QED BY <2>1, <2>2, <1>4, <1>7
<1>11. RegistersOK' /\ HistoryOK'
  BY <1>4, <1>6, HistoryStep, RegistersStep DEF RegistersOK
<1>12. Position' /\ IdlePosition'
  BY <1>3, <1>4, <1>6, <1>10, NextPosition
<1>13. PulsesOK'
  BY <1>1, <1>4, <1>6, <1>8, <1>9 DEF PulsesOK, Parties, LoadersEdge, raises
<1>14. WeightOK'
  BY <1>6, <1>8, <1>9 DEF WeightOK
<1>15. FeedOK'
  <2>1. /\ fed' = fed + (IF in.feeder_done THEN 1 ELSE 0)
                      - (IF in.fire /\ left = 1 THEN 1 ELSE 0)
        /\ fed \in Nat
    BY <1>4 DEF Parties, fires_last, RegistersOK
  <2>2. /\ s'.feeder_done_seen = (s.prefetch_feed_done \/ in.feeder_done)
        /\ s.prefetch_feed_done \in BOOLEAN
    BY <1>3, <1>4, <1>6 DEF Typed
  <2>3. IF s.prefetch_feed_done THEN FeedIdle /\ fed = 1 ELSE FeedRuns /\ fed = 0
    <3>1. CASE s.fast_handoff_accepted
      BY <3>1, <1>3 DEF FeedOK
    <3>2. CASE ~s.fast_handoff_accepted
      <4>1. left = 0
        BY <1>1, <1>3, <3>2 DEF ComputeOK, active_context_complete_now, computed
      <4>2. Prepared
        BY <1>7, <3>2, Acceptance
      <4> QED
        BY <1>3, <3>2, <4>1, <4>2 DEF FeedOK, FeedHeld, FeedComes, Prepared, Running
    <3> QED BY <3>1, <3>2
  <2>4. ~in.accepted => left # 0
    BY <1>3, <1>7 DEF ComputeOK
  <2>5. in.accepted => left = 0
    BY <1>1, <1>3, <1>7 DEF ComputeOK, active_context_complete_now, computed
  <2>6. CASE s'.feeder_done_seen
    <3>1. FeedGone'
      BY <1>8, <2>2, <2>3, <2>6 DEF FeedGone
    <3>2. fed + (IF in.feeder_done THEN 1 ELSE 0) = 1
      BY <1>8, <2>2, <2>3, <2>6
    <3>3. fed' = Running'
      <4>1. CASE in.accepted
        <5>1. ~in.fire /\ Running' = 1
          BY <4>1, <1>4, <2>5 DEF Running
        <5> QED BY <5>1, <2>1, <3>2
      <4>2. CASE ~in.accepted
        <5>1. Running' = 1 - (IF in.fire /\ left = 1 THEN 1 ELSE 0)
          BY <4>2, <1>4, <2>4 DEF Running
        <5> QED BY <5>1, <2>1, <3>2
      <4> QED BY <4>1, <4>2
    <3> QED BY <1>6, <1>8, <1>9, <2>6, <3>1, <3>3 DEF FeedOK, raises
  <2>7. CASE ~s'.feeder_done_seen
    <3>1. FeedRuns' /\ fed = 0 /\ ~in.feeder_done
      BY <1>8, <2>2, <2>3, <2>7
    <3>2. fed' = 0 /\ left' # 0
      BY <1>4, <2>1, <2>4, <3>1
    <3> QED BY <1>6, <1>8, <1>9, <2>7, <3>1, <3>2 DEF FeedOK, raises
  <2> QED BY <2>6, <2>7
<1>16. ComputeOK'
  <2>1. ~in.accepted => left # 0
    BY <1>3, <1>7 DEF ComputeOK
  <2>2. in.accepted => left = 0
    BY <1>1, <1>3, <1>7 DEF ComputeOK, active_context_complete_now, computed
  <2>3. left' = 0 <=> compute_done'
    BY <1>4, <2>1, <2>2
  <2> QED BY <1>6, <1>9, <2>3 DEF ComputeOK
<1>17. PrefetchOK'
  BY <1>6, <1>9 DEF PrefetchOK
<1>18. DrainOK'
  BY <1>1, <1>4 DEF DrainOK, Parties, continuous
<1>19. CollectOK'
  <2>1. DrainGone' /\ ~s'.prev_drain_pending
    BY <1>1, <1>4, <1>6 DEF CollectOK, DrainGone, PendingNoted, raises
  <2>2. collecting' => collected' < given'
    BY <1>1, <1>4, AnswersMean DEF CollectOK, Parties
  <2>3. Cur' - s'.pass_index <= collected'
    <3>1. Cur - s.pass_index <= collected /\ Cur \in Nat
      BY <1>1, <1>4 DEF CollectOK, Position
    <3> HIDE DEF Cur
    <3> QED BY <1>3, <1>4, <1>6, <1>10, <3>1 DEF Typed
  <2> QED BY <1>6, <1>9, <2>1, <2>2, <2>3 DEF CollectOK
<1>20. EndOK'
  BY <1>6 DEF EndOK
<1> QED
  BY <1>11, <1>12, <1>13, <1>14, <1>15, <1>16, <1>17, <1>18, <1>19, <1>20


-----------------------------------------------------------------------------
(* The end of a pass *)

\* The running pass is over: it was fired and fed completely, and nothing else
\* is asked of the core.
LEMMA Over ==
  ASSUME IInv, NEW in \in Answers, Edge(in), s.state = "COMP_WAIT",
         active_context_complete_now(in), ~prefetch_start_now(in),
         ~s.fast_handoff_armed
  PROVE  /\ Taken /\ ~Handed /\ ~Asked /\ ~in.accepted /\ ~in.fire
         /\ left = 0 /\ s.feeder_done_seen /\ s.busy
         /\ prefetch_enable_current => s.prefetch_started
<1> USE DEF IInv
<1>1. computed /\ fed_all(in)
  BY DEF active_context_complete_now
<1>2. ~Waiting
  BY <1>1 DEF ComputeOK, computed
<1>3. Taken /\ ~Handed /\ ~Asked
  BY <1>2 DEF Waiting, Taken, Ending, Handed
<1>4. ~in.accepted
  BY <1>3, AnswersMean DEF Asked
<1>5. left = 0
  BY <1>1, <1>3 DEF ComputeOK, computed
<1>6. s.feeder_done_seen
  BY <1>3, <1>5 DEF FeedOK
<1>7. s.busy /\ ~in.fire
  BY <1>5, AnswersMean DEF RegistersOK
<1>8. ASSUME prefetch_enable_current, ~s.prefetch_started PROVE FALSE
  <2>1. FeedGone
    BY <1>3, <1>6, <1>8 DEF FeedOK
  <2>2. feeder_start_ready
    BY <2>1 DEF FeedGone, FeedIdle, feeder_start_ready
  <2> QED BY <1>1, <1>7, <1>8, <2>2 DEF prefetch_start_now
<1> QED BY <1>3, <1>4, <1>5, <1>6, <1>7, <1>8

\* What an edge keeps of the registers when a pass is over.
EndKept(t, in) ==
  /\ Typed(t) /\ t.busy = s.busy /\ t.pulse = {}
  /\ PrefetchNoted(t, in) /\ HandoffNoted(t, in)
  /\ t.feeder_done_seen = (s.feeder_done_seen \/ in.feeder_done)
EndNoted(t, in) == EndKept(t, in) /\ PassKept(t) /\ PendingNoted(t, in)

\* An edge of COMP_WAIT with no vector started and no prefetch notes the rest.
LEMMA EndWatched ==
  ASSUME IInv, NEW in \in Answers, Edge(in), ~in.fire, ~prefetch_start_now(in)
  PROVE  /\ EndNoted(Watched(in), in)
         /\ Watched(in).drain_started = s.drain_started
<1> DEFINE t == Watched(in)
<1>1. /\ Typed(s) /\ compute_done \in BOOLEAN
      /\ in.fire \in BOOLEAN /\ in.feeder_done \in BOOLEAN
  BY AnswersMean DEF IInv, RegistersOK
<1>2. ~DrainsEarly(in) /\ DrainPulse(in) = {}
  BY DEF DrainsEarly, DrainPulse
<1>3. /\ Typed(t) /\ t.state = s.state /\ t.busy = s.busy
      /\ t.pulse = DrainPulse(in)
      /\ PassKept(t) /\ FeedAddressKept(t) /\ WatchNoted(t, in)
      /\ PrefetchNoted(t, in) /\ PendingNoted(t, in)
      /\ FinalNoted(t, in) /\ HandoffNoted(t, in)
  BY <1>1, WatchedFields
<1> HIDE DEF t
<1>4. t.drain_started = s.drain_started
  BY <1>1, <1>2, <1>3 DEF WatchNoted, Typed
<1> QED BY <1>2, <1>3, <1>4 DEF t, EndNoted, EndKept, WatchNoted

\* A new state, and nothing else.
LEMMA StateFields ==
  ASSUME NEW in, NEW r, EndNoted(r, in), NEW st \in State
  PROVE  LET t == [r EXCEPT !.state = st]
         IN /\ EndNoted(t, in) /\ t.state = st
            /\ t.drain_started = r.drain_started
<1> DEFINE t == [r EXCEPT !.state = st]
<1>1. DOMAIN r = Registers /\ Typed(r)
  BY DEF EndNoted, EndKept, Typed
<1>2. DOMAIN t = Registers
  BY <1>1
<1>3. /\ t.state = st
      /\ t.busy = r.busy /\ t.pass_base_k = r.pass_base_k
      /\ t.cout_base = r.cout_base /\ t.pass_index = r.pass_index
      /\ t.pass_bank = r.pass_bank /\ t.feeder_pass_base_k = r.feeder_pass_base_k
      /\ t.feeder_k_pass = r.feeder_k_pass /\ t.prefetch_pass_base_k = r.prefetch_pass_base_k
      /\ t.prefetch_pass_index = r.prefetch_pass_index /\ t.compute_done_seen = r.compute_done_seen
      /\ t.compute_started_seen = r.compute_started_seen /\ t.feeder_done_seen = r.feeder_done_seen
      /\ t.drain_started = r.drain_started /\ t.drain_done_seen = r.drain_done_seen
      /\ t.drain_packet_seen = r.drain_packet_seen /\ t.prev_drain_pending = r.prev_drain_pending
      /\ t.prefetch_started = r.prefetch_started /\ t.prefetch_weight_done = r.prefetch_weight_done
      /\ t.prefetch_feed_done = r.prefetch_feed_done /\ t.collector_final_done_seen = r.collector_final_done_seen
      /\ t.fast_handoff_armed = r.fast_handoff_armed /\ t.fast_handoff_accepted = r.fast_handoff_accepted
      /\ t.pulse = r.pulse
  BY <1>1 DEF Registers
<1> HIDE DEF t
<1>4. Typed(t)
  BY <1>1, <1>2, <1>3 DEF Typed
<1> QED
  BY <1>3, <1>4
     DEF t, EndNoted, EndKept, PassKept, PrefetchNoted, PendingNoted, HandoffNoted

\* The next reduction pass of the block.
LEMMA NextPassFields ==
  ASSUME Typed(s), NEW in, NEW r, EndNoted(r, in), NEW st \in State
  PROVE  LET t == NextPass(r, st)
         IN /\ EndKept(t, in) /\ PendingNoted(t, in) /\ t.state = st
            /\ t.pass_base_k = next_k /\ t.cout_base = s.cout_base
            /\ t.pass_index = s.pass_index + 1 /\ t.pass_bank = 1 - s.pass_bank
<1> DEFINE t == NextPass(r, st)
<1>1. DOMAIN r = Registers /\ Typed(r)
  BY DEF EndNoted, EndKept, Typed
<1>2. t = [r EXCEPT !.pass_base_k = next_k, !.pass_index = s.pass_index + 1,
             !.pass_bank = 1 - s.pass_bank, !.state = st]
  BY DEF NextPass
<1> HIDE DEF t
<1>3. DOMAIN t = Registers
  BY <1>1, <1>2
<1>4. /\ t.state = st /\ t.pass_base_k = next_k
      /\ t.pass_index = s.pass_index + 1 /\ t.pass_bank = 1 - s.pass_bank
      /\ t.busy = r.busy /\ t.cout_base = r.cout_base
      /\ t.feeder_pass_base_k = r.feeder_pass_base_k /\ t.feeder_k_pass = r.feeder_k_pass
      /\ t.prefetch_pass_base_k = r.prefetch_pass_base_k /\ t.prefetch_pass_index = r.prefetch_pass_index
      /\ t.compute_done_seen = r.compute_done_seen /\ t.compute_started_seen = r.compute_started_seen
      /\ t.feeder_done_seen = r.feeder_done_seen /\ t.drain_started = r.drain_started
      /\ t.drain_done_seen = r.drain_done_seen /\ t.drain_packet_seen = r.drain_packet_seen
      /\ t.prev_drain_pending = r.prev_drain_pending /\ t.prefetch_started = r.prefetch_started
      /\ t.prefetch_weight_done = r.prefetch_weight_done /\ t.prefetch_feed_done = r.prefetch_feed_done
      /\ t.collector_final_done_seen = r.collector_final_done_seen /\ t.fast_handoff_armed = r.fast_handoff_armed
      /\ t.fast_handoff_accepted = r.fast_handoff_accepted /\ t.pulse = r.pulse
  BY <1>1, <1>2 DEF Registers
<1>5. next_k \in Nat /\ s.pass_index + 1 \in Nat /\ 1 - s.pass_bank \in {0, 1}
  BY TileAssumption DEF Typed, next_k
<1>6. Typed(t)
  BY <1>1, <1>3, <1>4, <1>5 DEF Typed
<1> QED
  BY <1>4, <1>6
     DEF t, EndNoted, EndKept, PassKept, PrefetchNoted, PendingNoted, HandoffNoted

\* The next block, or the end of the layer.
LEMMA NextBlockFields ==
  ASSUME RegistersOK, NEW in, NEW r, EndNoted(r, in)
  PROVE  LET t == NextBlock(r)
         IN /\ EndKept(t, in) /\ PendingNoted(t, in)
            /\ last_cout => t.state = "DONE" /\ PassKept(t)
            /\ ~last_cout =>
                 /\ t.state = "BIAS_START"
                 /\ t.cout_base = (s.cout_base + COUT_TILE) % CoutMod
                 /\ t.pass_base_k = 0 /\ t.pass_index = 0 /\ t.pass_bank = 0
<1> DEFINE t == NextBlock(r)
<1>1. CASE last_cout
  <2>1. t = [r EXCEPT !.state = "DONE"]
    BY <1>1 DEF NextBlock
  <2>2. "DONE" \in State
    BY DEF State
  <2>3. EndNoted(t, in) /\ t.state = "DONE"
    BY <2>1, <2>2, StateFields
  <2> HIDE DEF t
  <2> QED BY <1>1, <2>3 DEF t, EndNoted
<1>2. CASE ~last_cout
  <2>1. DOMAIN r = Registers /\ Typed(r)
    BY DEF EndNoted, EndKept, Typed
  <2>2. t = [r EXCEPT !.cout_base = (s.cout_base + COUT_TILE) % CoutMod,
               !.pass_base_k = 0, !.pass_index = 0, !.pass_bank = 0,
               !.state = "BIAS_START"]
    BY <1>2 DEF NextBlock
  <2> HIDE DEF t
  <2>3. DOMAIN t = Registers
    BY <2>1, <2>2
  <2>4. /\ t.state = "BIAS_START"
        /\ t.cout_base = (s.cout_base + COUT_TILE) % CoutMod
        /\ t.pass_base_k = 0 /\ t.pass_index = 0 /\ t.pass_bank = 0
        /\ t.busy = r.busy /\ t.feeder_pass_base_k = r.feeder_pass_base_k
        /\ t.feeder_k_pass = r.feeder_k_pass /\ t.prefetch_pass_base_k = r.prefetch_pass_base_k
        /\ t.prefetch_pass_index = r.prefetch_pass_index /\ t.compute_done_seen = r.compute_done_seen
        /\ t.compute_started_seen = r.compute_started_seen /\ t.feeder_done_seen = r.feeder_done_seen
        /\ t.drain_started = r.drain_started /\ t.drain_done_seen = r.drain_done_seen
        /\ t.drain_packet_seen = r.drain_packet_seen /\ t.prev_drain_pending = r.prev_drain_pending
        /\ t.prefetch_started = r.prefetch_started /\ t.prefetch_weight_done = r.prefetch_weight_done
        /\ t.prefetch_feed_done = r.prefetch_feed_done /\ t.collector_final_done_seen = r.collector_final_done_seen
        /\ t.fast_handoff_armed = r.fast_handoff_armed /\ t.fast_handoff_accepted = r.fast_handoff_accepted
        /\ t.pulse = r.pulse
    BY <2>1, <2>2 DEF Registers
  <2>5. (s.cout_base + COUT_TILE) % CoutMod \in Nat
    <3>1. CoutMod \in Nat \ {0} /\ s.cout_base + COUT_TILE \in Nat
      BY LayersAssumption, PixelsAssumption, TileAssumption DEF RegistersOK, Typed
    <3> DEFINE x == s.cout_base + COUT_TILE
    <3> HIDE DEF x
    <3>2. x % CoutMod \in Nat
      BY <3>1 DEF x
    <3> QED BY <3>2 DEF x
  <2>6. Typed(t)
    BY <2>1, <2>3, <2>4, <2>5 DEF Typed, State
  <2> QED
    BY <1>2, <2>4, <2>6
       DEF t, EndNoted, EndKept, PassKept, PrefetchNoted, PendingNoted, HandoffNoted
<1> QED BY <1>1, <1>2


\* A pass is over on this edge.
Ended(in) ==
  /\ s.state \in {"COMP_WAIT", "DRAIN_WAIT"} /\ Taken /\ ~Asked
  /\ ~s.fast_handoff_armed /\ ~in.accepted /\ ~in.fire
  /\ left = 0 /\ s.feeder_done_seen /\ s.busy

\* What every way out of a pass that is over keeps.
LEMMA EndedStep ==
  ASSUME IInv, NEW in \in Answers, Edge(in), layer' = layer, Ended(in),
         EndKept(s', in), s'.state \notin {"IDLE", "COMP_WAIT"}
  PROVE  /\ RegistersOK' /\ HistoryOK' /\ PulsesOK' /\ ComputeOK'
         /\ Parties(in) /\ s'.busy
         /\ given' = given /\ given \in Nat /\ Cur = given - 1 /\ Cur \in Nat
         /\ collected \in Nat /\ in.collects \in BOOLEAN
         /\ collected' = collected + (IF in.collects THEN 1 ELSE 0)
         /\ in.collects => collected < given
         /\ drain_done(in) = (in.collects /\ ~continuous)
         /\ ~raises("bias_load_start")' /\ ~raises("weight_load_start")'
         /\ ~raises("feeder_start")' /\ ~raises("compute_start")'
         /\ ~raises("psum_drain_start")'
         /\ ~s'.fast_handoff_armed /\ ~s'.fast_handoff_accepted
         /\ ~Waiting' /\ ~Handed' /\ Running' = 0 /\ s'.feeder_done_seen
         /\ s'.prefetch_started = s.prefetch_started
         /\ s'.prefetch_weight_done =
              (s.prefetch_weight_done \/ (s.prefetch_started /\ in.weight_load_done))
         /\ s'.prefetch_feed_done =
              (s.prefetch_feed_done \/ (s.prefetch_started /\ in.feeder_done))
         /\ s.prefetch_started => ~last_k /\ s.prefetch_pass_base_k = next_k
                                  /\ s.prefetch_pass_index = s.pass_index + 1
         /\ IF ~s'.prefetch_started THEN WeightGone'
            ELSE IF s'.prefetch_weight_done THEN WeightHeld' ELSE WeightComes'
         /\ IF ~s'.prefetch_started THEN FeedGone' /\ fed' = Running'
            ELSE IF s'.prefetch_feed_done THEN FeedHeld' /\ fed' = Running' + 1
            ELSE FeedComes' /\ fed' = Running'
<1> USE DEF IInv, Ended
<1>1. /\ Typed(s) /\ s.busy /\ given \in Nat /\ collected \in Nat /\ left \in Nat
      /\ s'.busy = s.busy /\ s'.pulse = {} /\ Typed(s')
      /\ PrefetchNoted(s', in) /\ HandoffNoted(s', in)
  BY DEF RegistersOK, HistoryOK, EndKept
<1>2. Parties(in)
  BY PartiesMove
<1>3. in.collects \in BOOLEAN /\ (in.collects => collected + Running < given)
  BY AnswersMean
<1>4. /\ given' = given /\ left' = 0 /\ ~compute_done'
      /\ request' = (request \/ raises("compute_start"))
      /\ collected' = collected + (IF in.collects THEN 1 ELSE 0)
  <2>1. /\ given' = given + 0 /\ left' = left
        /\ collected' = collected + (IF in.collects THEN 1 ELSE 0)
    BY <1>2 DEF Parties, CoreEdge
  <2>2. compute_done' = fires_last(in)
        /\ request' = ((request \/ raises("compute_start")) /\ ~in.accepted)
    BY <1>2 DEF Parties, CoreEdge
  <2>3. ~fires_last(in)
    BY DEF fires_last
  <2> QED BY <1>1, <2>1, <2>2, <2>3
<1>5. /\ ~raises("bias_load_start")' /\ ~raises("weight_load_start")'
      /\ ~raises("feeder_start")' /\ ~raises("compute_start")'
      /\ ~raises("psum_drain_start")'
  BY <1>1 DEF raises
<1>6. ~Handed /\ ~s.fast_handoff_accepted
  BY DEF Handed, PrefetchOK
<1>7. ~s'.fast_handoff_armed /\ ~s'.fast_handoff_accepted
  BY <1>1, <1>6 DEF HandoffNoted, fast_handoff_accepted_now
<1>8. ~Waiting' /\ ~Handed' /\ Running' = 0
  BY <1>4, <1>7 DEF Waiting, Handed, Running
<1>9. Cur = given - 1 /\ Cur \in Nat
  BY <1>1, <1>6 DEF Cur, Position
<1>10. s'.feeder_done_seen
  BY <1>1 DEF EndKept
<1>11. ~Asked'
  BY <1>4, <1>5 DEF Asked
<1>12. RegistersOK' /\ HistoryOK'
  BY <1>1, <1>2, HistoryStep, RegistersStep
<1>13. PulsesOK'
  <2>1. ~bias_loading'
    BY <1>2 DEF Parties, LoadersEdge, PulsesOK
  <2> QED BY <1>5, <1>11, <2>1 DEF PulsesOK
<1>14. ComputeOK'
  BY <1>4, <1>8 DEF ComputeOK
<1>15. drain_done(in) = (in.collects /\ ~continuous)
  BY DEF drain_done
<1>16. s.prefetch_started => ~last_k /\ s.prefetch_pass_base_k = next_k
                             /\ s.prefetch_pass_index = s.pass_index + 1
  BY DEF PrefetchOK
<1>17. IF ~s'.prefetch_started THEN WeightGone'
       ELSE IF s'.prefetch_weight_done THEN WeightHeld' ELSE WeightComes'
  BY <1>1, <1>2, <1>6, WeightNoted
<1>18. IF ~s'.prefetch_started THEN FeedGone' /\ fed' = Running'
       ELSE IF s'.prefetch_feed_done THEN FeedHeld' /\ fed' = Running' + 1
       ELSE FeedComes' /\ fed' = Running'
  BY <1>1, <1>2, <1>6, FeedNoted
<1>19. in.collects => collected < given
  BY <1>1, <1>3 DEF Running
<1>20. /\ s'.prefetch_started = s.prefetch_started
       /\ s'.prefetch_weight_done =
            (s.prefetch_weight_done \/ (s.prefetch_started /\ in.weight_load_done))
       /\ s'.prefetch_feed_done =
            (s.prefetch_feed_done \/ (s.prefetch_started /\ in.feeder_done))
  BY <1>1 DEF PrefetchNoted
<1> QED
  BY <1>1, <1>2, <1>3, <1>4, <1>5, <1>7, <1>8, <1>9, <1>10, <1>12, <1>13, <1>14,
     <1>15, <1>16, <1>17, <1>18, <1>19, <1>20

\* The next pass of the block: prefetched, or to be loaded from scratch.
LEMMA ToNextPass ==
  ASSUME IInv, NEW in \in Answers, Edge(in), layer' = layer, Ended(in), ~last_k,
         EndKept(s', in),
         \/ s'.state = "PREFETCH_COMMIT" /\ prefetch_ready_now(in)
         \/ s'.state = "WGT_START" /\ ~s.prefetch_started,
         s'.pass_base_k = next_k, s'.cout_base = s.cout_base,
         s'.pass_index = s.pass_index + 1, s'.pass_bank = 1 - s.pass_bank,
         ~continuous =>
           IF s'.prev_drain_pending
           THEN s'.state = "PREFETCH_COMMIT" /\ draining' /\ collected' = Cur
           ELSE ~draining' /\ collected' = given',
         continuous => ~s'.prev_drain_pending
  PROVE  IInv'
<1> USE DEF IInv
<1> DEFINE E ==
  /\ RegistersOK' /\ HistoryOK' /\ PulsesOK' /\ ComputeOK'
  /\ Parties(in) /\ s'.busy
  /\ given' = given /\ given \in Nat /\ Cur = given - 1 /\ Cur \in Nat
  /\ collected \in Nat /\ in.collects \in BOOLEAN
  /\ collected' = collected + (IF in.collects THEN 1 ELSE 0)
  /\ ~raises("feeder_start")' /\ ~raises("psum_drain_start")'
  /\ ~s'.fast_handoff_armed /\ ~s'.fast_handoff_accepted
  /\ ~Waiting' /\ ~Handed' /\ Running' = 0 /\ s'.feeder_done_seen
<1>1. E
  BY EndedStep
<1>2. /\ s'.prefetch_started = s.prefetch_started
      /\ s'.prefetch_weight_done =
           (s.prefetch_weight_done \/ (s.prefetch_started /\ in.weight_load_done))
      /\ s'.prefetch_feed_done =
           (s.prefetch_feed_done \/ (s.prefetch_started /\ in.feeder_done))
  BY EndedStep
<1>3. IF ~s'.prefetch_started THEN WeightGone'
      ELSE IF s'.prefetch_weight_done THEN WeightHeld' ELSE WeightComes'
  BY EndedStep
<1>4. IF ~s'.prefetch_started THEN FeedGone' /\ fed' = Running'
      ELSE IF s'.prefetch_feed_done THEN FeedHeld' /\ fed' = Running' + 1
      ELSE FeedComes' /\ fed' = Running'
  BY EndedStep
<1>5. s'.state = "PREFETCH_COMMIT" =>
        s'.prefetch_started /\ s'.prefetch_weight_done /\ s'.prefetch_feed_done
  BY <1>2 DEF prefetch_ready_now
<1>6. ~Taken'
  BY DEF Taken, Ending
<1>7. Cur' = Cur + 1 /\ Cur' = given'
  BY <1>1, <1>6 DEF Cur
<1>8. Position' /\ IdlePosition'
  BY <1>1, <1>7, NextPosition DEF Ended
<1>9. WeightOK'
  BY <1>1, <1>2, <1>3, <1>5, <1>6 DEF WeightOK
<1>10. FeedOK'
  BY <1>1, <1>2, <1>4, <1>5, <1>6 DEF FeedOK, FeedHeld
<1>11. PrefetchOK'
  BY <1>1, <1>2, <1>6 DEF PrefetchOK
<1>12. DrainOK'
  <2>1. SUFFICES ASSUME ~continuous PROVE DrainOK'
    BY DEF DrainOK, continuous
  <2>2. ~collecting'
    BY <1>1, <2>1, AnswersMean DEF DrainOK, Parties
  <2>3. Cur' - 1 = Cur
    BY <1>1, <1>7
  <2> QED
    BY <1>1, <1>6, <2>1, <2>2, <2>3 DEF DrainOK, DrainGone, raises
<1>13. CollectOK'
  <2>1. SUFFICES ASSUME continuous PROVE CollectOK'
    BY DEF CollectOK, continuous
  <2>2. DrainGone'
    BY <1>1, <2>1 DEF CollectOK, DrainGone, Parties
  <2>3. collecting' => collected' < given'
    BY <1>1, <2>1, AnswersMean DEF CollectOK, Parties
  <2>4. Cur' - s'.pass_index <= collected'
    <3>1. Cur - s.pass_index <= collected /\ s.pass_index \in Nat
      BY <2>1 DEF CollectOK, Ended, RegistersOK, Typed
    <3> QED BY <1>1, <1>7, <3>1
  <2> QED BY <1>1, <1>6, <2>1, <2>2, <2>3, <2>4 DEF CollectOK
<1>14. EndOK'
  BY DEF EndOK
<1> QED
  BY <1>1, <1>8, <1>9, <1>10, <1>11, <1>12, <1>13, <1>14

\* The next block, or the end of the layer.
LEMMA ToNextBlock ==
  ASSUME IInv, NEW in \in Answers, Edge(in), layer' = layer, Ended(in), last_k,
         EndKept(s', in),
         last_cout => s'.state = "DONE" /\ PassKept(s'),
         ~last_cout =>
           /\ s'.state = "BIAS_START"
           /\ s'.cout_base = (s.cout_base + COUT_TILE) % CoutMod
           /\ s'.pass_base_k = 0 /\ s'.pass_index = 0 /\ s'.pass_bank = 0,
         ~s'.prev_drain_pending, ~continuous => ~draining',
         collected' = given'
  PROVE  IInv'
<1> USE DEF IInv
<1> DEFINE E ==
  /\ RegistersOK' /\ HistoryOK' /\ PulsesOK' /\ ComputeOK'
  /\ Parties(in) /\ s'.busy
  /\ given' = given /\ given \in Nat /\ Cur = given - 1 /\ Cur \in Nat
  /\ collected \in Nat /\ in.collects \in BOOLEAN
  /\ collected' = collected + (IF in.collects THEN 1 ELSE 0)
  /\ ~raises("feeder_start")' /\ ~raises("psum_drain_start")'
  /\ ~s'.fast_handoff_armed /\ ~s'.fast_handoff_accepted
  /\ ~Waiting' /\ ~Handed' /\ Running' = 0 /\ s'.feeder_done_seen
<1>0. s'.state \in {"DONE", "BIAS_START"}
  OBVIOUS
<1>1. E
  BY <1>0, EndedStep
<1>2. s'.prefetch_started = s.prefetch_started /\ ~s.prefetch_started
  BY <1>0, EndedStep
<1>3. WeightGone' /\ FeedGone' /\ fed' = 0
  BY <1>0, <1>2, EndedStep
<1>4. Position' /\ IdlePosition' /\ EndOK'
      /\ (Taken' <=> last_cout)
      /\ (s'.state = "BIAS_START" => s'.pass_index = 0 /\ Cur' = given')
      /\ (s'.state = "DONE" => Cur' = Cur /\ s'.pass_index = s.pass_index)
  <2>1. CASE last_cout
    <3>1. Taken' /\ s'.state = "DONE"
      BY <2>1 DEF Taken, Ending
    <3>2. Cur' = Cur
      BY <1>1, <3>1 DEF Cur
    <3>3. Position' /\ IdlePosition'
      BY <2>1, <1>1, <3>2, SamePosition DEF Ended
    <3>4. EndOK'
      <4>1. Cur + 1 = Total(layer)
        BY <2>1, Here DEF Ended
      <4> QED BY <1>1, <4>1 DEF EndOK
    <3> QED BY <2>1, <3>1, <3>2, <3>3, <3>4 DEF PassKept
  <2>2. CASE ~last_cout
    <3>1. ~Taken' /\ s'.state = "BIAS_START"
      BY <2>2 DEF Taken, Ending
    <3>2. Cur' = Cur + 1 /\ Cur' = given'
      BY <1>1, <3>1 DEF Cur
    <3>3. Position' /\ IdlePosition'
      BY <2>2, <1>1, <3>2, NextBlockPosition DEF Ended
    <3> QED BY <2>2, <3>1, <3>2, <3>3 DEF EndOK
  <2> QED BY <2>1, <2>2
<1>5. WeightOK'
  BY <1>0, <1>1, <1>2, <1>3 DEF WeightOK, Taken, Ending
<1>6. FeedOK'
  BY <1>0, <1>1, <1>2, <1>3 DEF FeedOK, Taken, Ending
<1>7. PrefetchOK'
  BY <1>0, <1>1, <1>2 DEF PrefetchOK
<1>8. DrainOK'
  <2>1. SUFFICES ASSUME ~continuous PROVE DrainOK'
    BY DEF DrainOK, continuous
  <2>2. ~collecting'
    BY <1>1, <2>1, AnswersMean DEF DrainOK, Parties
  <2> QED
    BY <1>0, <1>1, <2>1, <2>2 DEF DrainOK, DrainGone
<1>9. CollectOK'
  <2>1. SUFFICES ASSUME continuous PROVE CollectOK'
    BY DEF CollectOK, continuous
  <2>2. DrainGone'
    BY <1>1, <2>1 DEF CollectOK, DrainGone, Parties
  <2>3. collecting' => collected' < given'
    BY <1>1, <2>1, AnswersMean DEF CollectOK, Parties
  <2>4. Cur' - s'.pass_index <= collected'
    <3>1. s.pass_index \in Nat
      BY DEF RegistersOK, Typed
    <3>2. CASE s'.state = "DONE"
      BY <1>1, <1>4, <3>1, <3>2
    <3>3. CASE s'.state = "BIAS_START"
      BY <1>1, <1>4, <3>3
    <3> QED BY <1>0, <3>2, <3>3
  <2> QED BY <1>0, <1>1, <2>1, <2>2, <2>3, <2>4 DEF CollectOK
<1> QED
  BY <1>1, <1>4, <1>5, <1>6, <1>7, <1>8, <1>9

\* On to the drain, or after it to a prefetch that is not yet complete.
LEMMA ToDrain ==
  ASSUME IInv, NEW in \in Answers, Edge(in), layer' = layer, Ended(in),
         EndNoted(s', in), ~continuous, ~s'.prev_drain_pending,
         \/ s'.state = "DRAIN_START" /\ ~draining' /\ collected' = Cur
         \/ s'.state = "DRAIN_WAIT" /\ draining' /\ collected' = Cur
            /\ s'.drain_started
         \/ s'.state = "PREFETCH_WAIT" /\ ~draining' /\ collected' = given'
            /\ s.prefetch_started,
         prefetch_enable_current => s.prefetch_started
  PROVE  IInv'
<1> USE DEF IInv
<1> DEFINE E ==
  /\ RegistersOK' /\ HistoryOK' /\ PulsesOK' /\ ComputeOK'
  /\ Parties(in) /\ s'.busy
  /\ given' = given /\ given \in Nat /\ Cur = given - 1 /\ Cur \in Nat
  /\ ~raises("feeder_start")' /\ ~raises("psum_drain_start")'
  /\ ~s'.fast_handoff_armed /\ ~s'.fast_handoff_accepted
  /\ ~Waiting' /\ ~Handed' /\ Running' = 0 /\ s'.feeder_done_seen
<1>0. s'.state \in {"DRAIN_START", "DRAIN_WAIT", "PREFETCH_WAIT"} /\ EndKept(s', in)
  BY DEF EndNoted
<1>1. E
  BY <1>0, EndedStep
<1>2. /\ s'.prefetch_started = s.prefetch_started
      /\ s.prefetch_started => ~last_k /\ s.prefetch_pass_base_k = next_k
                                  /\ s.prefetch_pass_index = s.pass_index + 1
  BY <1>0, EndedStep
<1>3. IF ~s'.prefetch_started THEN WeightGone'
      ELSE IF s'.prefetch_weight_done THEN WeightHeld' ELSE WeightComes'
  BY <1>0, EndedStep
<1>4. IF ~s'.prefetch_started THEN FeedGone' /\ fed' = Running'
      ELSE IF s'.prefetch_feed_done THEN FeedHeld' /\ fed' = Running' + 1
      ELSE FeedComes' /\ fed' = Running'
  BY <1>0, EndedStep
<1>5. Taken'
  BY <1>0 DEF Taken, Ending
<1>6. Cur' = Cur
  BY <1>1, <1>5 DEF Cur
<1>7. PassKept(s') /\ PrefetchNoted(s', in)
  BY DEF EndNoted, EndKept
<1>8. Position' /\ IdlePosition'
  BY <1>1, <1>6, <1>7, SamePosition DEF Ended
<1>9. WeightOK'
  BY <1>0, <1>1, <1>3, <1>5 DEF WeightOK
<1>10. FeedOK'
  BY <1>0, <1>1, <1>4, <1>5 DEF FeedOK
<1>11. PrefetchOK'
  <2>1. last_k' = last_k /\ next_k' = next_k /\ s'.pass_index = s.pass_index
        /\ s'.prefetch_pass_base_k = s.prefetch_pass_base_k
        /\ s'.prefetch_pass_index = s.prefetch_pass_index
    BY <1>7 DEF PassKept, PrefetchNoted, last_k, next_k
  <2>2. prefetch_enable_current' => prefetch_enable_current
    BY <2>1 DEF prefetch_enable_current
  <2> QED BY <1>0, <1>1, <1>2, <2>1, <2>2 DEF PrefetchOK
<1>12. DrainOK'
  <2>2. ~collecting'
    BY <1>1, AnswersMean DEF DrainOK, Parties
  <2> QED
    BY <1>0, <1>1, <1>6, <2>2 DEF DrainOK, DrainGone, DrainComes, Beginning
<1>13. CollectOK'
  BY DEF CollectOK, continuous
<1>14. EndOK'
  BY <1>0 DEF EndOK
<1> QED
  BY <1>1, <1>8, <1>9, <1>10, <1>11, <1>12, <1>13, <1>14


-----------------------------------------------------------------------------
(* The edges of COMP_WAIT *)

\* The pass is not over: the scheduler stays.
LEMMA StayStep ==
  ASSUME IInv, NEW in \in Answers, Edge(in), layer' = layer,
         s.state = "COMP_WAIT", s' = Watched(in),
         ~(/\ continuous /\ fast_handoff_pending_now(in)
           /\ fast_handoff_accepted_now(in) /\ active_context_complete_now(in))
  PROVE  IInv'
<1> USE DEF IInv
<1>1. CASE prefetch_start_now(in)
  BY <1>1, PrefetchStep
<1>2. CASE ~prefetch_start_now(in) /\ Waiting
  <2>1. CASE in.accepted
    BY <1>2, <2>1, AcceptStep
  <2>2. CASE ~in.accepted
    BY <1>2, <2>2, WaitStep
  <2> QED BY <2>1, <2>2
<1>3. CASE ~prefetch_start_now(in) /\ Taken
  <2>1. CASE in.accepted
    <3>1. s.fast_handoff_armed
      BY <1>3, <2>1, Acceptance DEF Waiting
    <3>2. continuous
      BY <3>1, Armed
    <3>3. fast_handoff_pending_now(in) /\ fast_handoff_accepted_now(in)
      BY <2>1, <3>1 DEF fast_handoff_pending_now, fast_handoff_accepted_now
    <3>4. ~active_context_complete_now(in)
      BY <3>2, <3>3
    <3> QED BY <2>1, <3>1, <3>4, ArmedAcceptStep
  <2>2. CASE ~in.accepted
    <3>1. ~Handed
      <4> SUFFICES ASSUME Handed PROVE FALSE
        OBVIOUS
      <4>1. s.fast_handoff_armed /\ s.fast_handoff_accepted
        BY DEF Handed
      <4>2. continuous /\ s.feeder_done_seen
        BY <4>1, Armed
      <4>3. fast_handoff_pending_now(in) /\ fast_handoff_accepted_now(in)
        BY <4>1 DEF fast_handoff_pending_now, fast_handoff_accepted_now
      <4>4. compute_done
        BY DEF ComputeOK
      <4>5. active_context_complete_now(in)
        BY <4>2, <4>4 DEF active_context_complete_now, computed, fed_all
      <4> QED BY <4>2, <4>3, <4>5
    <3> QED BY <1>3, <2>2, <3>1, RunStep
  <2> QED BY <2>1, <2>2
<1> QED BY <1>1, <1>2, <1>3 DEF Waiting

\* Continuous mode.
LEMMA ContinuousWaitStep ==
  ASSUME IInv, NEW in \in Answers, Edge(in), layer' = layer, ContinuousWait(in)
  PROVE  IInv'
<1> USE DEF IInv
<1> DEFINE r == Watched(in)
           over == /\ ~fast_handoff_pending_now(in) /\ ~prefetch_start_now(in)
                   /\ active_context_complete_now(in)
<1>1. s.state = "COMP_WAIT" /\ continuous
  BY DEF ContinuousWait
<1>2. \/ /\ over /\ ~last_k /\ prefetch_ready_now(in)
         /\ s' = NextPass(r, "PREFETCH_COMMIT")
      \/ /\ over /\ ~last_k /\ ~s.prefetch_started
         /\ s' = NextPass(r, "WGT_START")
      \/ /\ over /\ last_k /\ final_collected(in)
         /\ s' = NextBlock(r)
      \/ /\ ~(/\ fast_handoff_pending_now(in) /\ fast_handoff_accepted_now(in)
              /\ active_context_complete_now(in))
         /\ s' = r
  BY DEF ContinuousWait
<1>3. ASSUME over
      PROVE  /\ Ended(in) /\ EndNoted(r, in) /\ Typed(s) /\ RegistersOK
             /\ Taken /\ ~in.accepted
  <2>1. ~s.fast_handoff_armed
    BY <1>3 DEF fast_handoff_pending_now
  <2>2. Ended(in) /\ ~in.fire
    BY <1>1, <1>3, <2>1, Over DEF Ended
  <2>3. EndNoted(r, in)
    BY <1>3, <2>2, EndWatched
  <2> QED BY <2>2, <2>3 DEF Ended, RegistersOK
<1> HIDE DEF r
<1>4. ~s.prev_drain_pending
  BY <1>1 DEF CollectOK
<1>5. CASE over /\ ~last_k /\ prefetch_ready_now(in) /\ s' = NextPass(r, "PREFETCH_COMMIT")
  <2>1. /\ EndKept(s', in) /\ PendingNoted(s', in) /\ s'.state = "PREFETCH_COMMIT"
        /\ s'.pass_base_k = next_k /\ s'.cout_base = s.cout_base
        /\ s'.pass_index = s.pass_index + 1 /\ s'.pass_bank = 1 - s.pass_bank
    BY <1>3, <1>5, NextPassFields DEF State
  <2>2. ~s'.prev_drain_pending
    BY <1>4, <2>1 DEF PendingNoted
  <2> QED BY <1>1, <1>3, <1>5, <2>1, <2>2, ToNextPass
<1>6. CASE over /\ ~last_k /\ ~s.prefetch_started /\ s' = NextPass(r, "WGT_START")
  <2>1. /\ EndKept(s', in) /\ PendingNoted(s', in) /\ s'.state = "WGT_START"
        /\ s'.pass_base_k = next_k /\ s'.cout_base = s.cout_base
        /\ s'.pass_index = s.pass_index + 1 /\ s'.pass_bank = 1 - s.pass_bank
    BY <1>3, <1>6, NextPassFields DEF State
  <2>2. ~s'.prev_drain_pending
    BY <1>4, <2>1 DEF PendingNoted
  <2> QED BY <1>1, <1>3, <1>6, <2>1, <2>2, ToNextPass
<1>7. CASE over /\ last_k /\ final_collected(in) /\ s' = NextBlock(r)
  <2>1. /\ EndKept(s', in) /\ PendingNoted(s', in)
        /\ last_cout => s'.state = "DONE" /\ PassKept(s')
        /\ ~last_cout =>
             /\ s'.state = "BIAS_START"
             /\ s'.cout_base = (s.cout_base + COUT_TILE) % CoutMod
             /\ s'.pass_base_k = 0 /\ s'.pass_index = 0 /\ s'.pass_bank = 0
    BY <1>3, <1>7, NextBlockFields
  <2>2. ~s'.prev_drain_pending
    BY <1>4, <2>1 DEF PendingNoted
  <2>3. collected' = given'
    <3>1. s.busy /\ layer' = layer /\ s.state # "IDLE"
      BY <1>1 DEF RegistersOK
    <3>2. Parties(in)
      BY <3>1, PartiesMove
    <3>3. /\ given' = given + (IF in.accepted THEN 1 ELSE 0)
          /\ collected' = collected + (IF in.collects THEN 1 ELSE 0)
          /\ given \in Nat /\ collected \in Nat
      BY <3>2 DEF Parties, HistoryOK
    <3>4. ~in.accepted
      BY <1>3, <1>7
    <3>5. CASE final_done(in)
      <4>1. collected + 1 = given /\ in.collects
        BY <3>1, <3>5, FinalSeen DEF final_done
      <4> QED BY <3>3, <3>4, <4>1
    <3>6. CASE s.collector_final_done_seen
      <4>1. collected = given
        BY <1>1, <1>3, <1>7, <3>6 DEF CollectOK
      <4>2. ~in.collects
        BY <3>3, <4>1, AnswersMean DEF Running
      <4> QED BY <3>3, <3>4, <4>1, <4>2
    <3> QED BY <1>7, <3>5, <3>6 DEF final_collected
  <2> QED BY <1>1, <1>3, <1>7, <2>1, <2>2, <2>3, ToNextBlock
<1>8. CASE /\ ~(/\ fast_handoff_pending_now(in) /\ fast_handoff_accepted_now(in)
                /\ active_context_complete_now(in))
           /\ s' = r
  BY <1>1, <1>8, StayStep DEF r
<1> QED BY <1>2, <1>5, <1>6, <1>7, <1>8


-----------------------------------------------------------------------------
(* The end of a drain *)

\* The registers that the end of a pass is about.
SameEnd(u, t) ==
  /\ u.state = t.state /\ u.busy = t.busy /\ u.pulse = t.pulse
  /\ u.pass_base_k = t.pass_base_k /\ u.cout_base = t.cout_base
  /\ u.pass_index = t.pass_index /\ u.pass_bank = t.pass_bank
  /\ u.feeder_done_seen = t.feeder_done_seen
  /\ u.prefetch_started = t.prefetch_started
  /\ u.prefetch_weight_done = t.prefetch_weight_done
  /\ u.prefetch_feed_done = t.prefetch_feed_done
  /\ u.prefetch_pass_base_k = t.prefetch_pass_base_k
  /\ u.prefetch_pass_index = t.prefetch_pass_index
  /\ u.fast_handoff_armed = t.fast_handoff_armed
  /\ u.fast_handoff_accepted = t.fast_handoff_accepted

\* What was noted stays so in a record with the same registers.
LEMMA SameEndKept ==
  ASSUME NEW in, NEW t, NEW u, EndKept(t, in), Typed(u), SameEnd(u, t)
  PROVE  EndKept(u, in) /\ (PassKept(t) => PassKept(u))
BY DEF EndKept, SameEnd, PassKept, PrefetchNoted, HandoffNoted

\* The registers about the drain, and no others.
LEMMA DrainFields ==
  ASSUME NEW t, Typed(t), NEW a \in BOOLEAN, NEW b \in BOOLEAN, NEW c \in BOOLEAN
  PROVE  LET u == [t EXCEPT !.prev_drain_pending = a, !.drain_started = b,
                     !.drain_done_seen = c]
         IN Typed(u) /\ SameEnd(u, t) /\ u.prev_drain_pending = a
<1> DEFINE u == [t EXCEPT !.prev_drain_pending = a, !.drain_started = b,
                   !.drain_done_seen = c]
<1>1. DOMAIN t = Registers /\ DOMAIN u = Registers
  BY DEF Typed
<1>2. SameEnd(u, t) /\ u.prev_drain_pending = a
  BY <1>1 DEF Registers, SameEnd
<1>3. /\ u.drain_started = b /\ u.drain_done_seen = c
      /\ u.feeder_pass_base_k = t.feeder_pass_base_k
      /\ u.feeder_k_pass = t.feeder_k_pass
      /\ u.compute_done_seen = t.compute_done_seen
      /\ u.compute_started_seen = t.compute_started_seen
      /\ u.drain_packet_seen = t.drain_packet_seen
      /\ u.collector_final_done_seen = t.collector_final_done_seen
  BY <1>1 DEF Registers
<1> HIDE DEF u
<1>4. Typed(u)
  BY <1>1, <1>2, <1>3 DEF Typed, SameEnd
<1> QED BY <1>2, <1>4 DEF u

\* The note that the drain is done.
LEMMA DrainDoneField ==
  ASSUME NEW t, Typed(t)
  PROVE  LET u == [t EXCEPT !.drain_done_seen = TRUE]
         IN /\ Typed(u) /\ SameEnd(u, t)
            /\ u.prev_drain_pending = t.prev_drain_pending
<1> DEFINE u == [t EXCEPT !.drain_done_seen = TRUE]
<1>1. DOMAIN t = Registers /\ DOMAIN u = Registers
  BY DEF Typed
<1>2. SameEnd(u, t) /\ u.prev_drain_pending = t.prev_drain_pending
  BY <1>1 DEF Registers, SameEnd
<1>3. /\ u.drain_started = t.drain_started /\ u.drain_done_seen = TRUE
      /\ u.feeder_pass_base_k = t.feeder_pass_base_k
      /\ u.feeder_k_pass = t.feeder_k_pass
      /\ u.compute_done_seen = t.compute_done_seen
      /\ u.compute_started_seen = t.compute_started_seen
      /\ u.drain_packet_seen = t.drain_packet_seen
      /\ u.collector_final_done_seen = t.collector_final_done_seen
  BY <1>1 DEF Registers
<1> HIDE DEF u
<1>4. Typed(u)
  BY <1>1, <1>2, <1>3 DEF Typed, SameEnd
<1> QED BY <1>2, <1>4 DEF u

\* What DRAIN_WAIT notes of the core.
LEMMA StartedNoted ==
  ASSUME NEW in, in.fire \in BOOLEAN, NEW t, Typed(t)
  PROVE  LET u == [t EXCEPT !.compute_started_seen = @ \/ in.fire]
         IN /\ Typed(u) /\ SameEnd(u, t)
            /\ u.prev_drain_pending = t.prev_drain_pending
            /\ u.drain_started = t.drain_started
<1> DEFINE u == [t EXCEPT !.compute_started_seen = @ \/ in.fire]
<1>1. DOMAIN t = Registers /\ DOMAIN u = Registers
  BY DEF Typed
<1>2. /\ SameEnd(u, t) /\ u.prev_drain_pending = t.prev_drain_pending
      /\ u.drain_started = t.drain_started
  BY <1>1 DEF Registers, SameEnd
<1>3. /\ u.drain_done_seen = t.drain_done_seen
      /\ u.feeder_pass_base_k = t.feeder_pass_base_k
      /\ u.feeder_k_pass = t.feeder_k_pass
      /\ u.compute_done_seen = t.compute_done_seen
      /\ u.compute_started_seen = (t.compute_started_seen \/ in.fire)
      /\ u.drain_packet_seen = t.drain_packet_seen
      /\ u.collector_final_done_seen = t.collector_final_done_seen
  BY <1>1 DEF Registers
<1> HIDE DEF u
<1>4. Typed(u)
  BY <1>1, <1>2, <1>3 DEF Typed, SameEnd
<1> QED BY <1>2, <1>4 DEF u

\* The drain of a pass that is over is over: on to the prefetched pass, to
\* waiting for it, to the next pass from scratch, or to the next block.
LEMMA AfterDrainStep ==
  ASSUME IInv, NEW in \in Answers, Edge(in), layer' = layer, Ended(in),
         NEW r, EndNoted(r, in), NEW t, t = AfterDrain(r, in),
         s' = t \/ s' = [t EXCEPT !.drain_done_seen = TRUE],
         ~continuous, ~s.prev_drain_pending, ~draining', collected' = given',
         prefetch_enable_current => s.prefetch_started
  PROVE  IInv'
<1> USE DEF IInv
<1>1. Typed(s) /\ RegistersOK
  BY DEF RegistersOK
<1>2. ASSUME EndKept(t, in), PendingNoted(t, in)
      PROVE  /\ EndKept(s', in) /\ SameEnd(s', t) /\ ~s'.prev_drain_pending
             /\ (PassKept(t) => PassKept(s'))
             /\ PendingNoted(s', in)
  <2>1. Typed(t)
    BY <1>2 DEF EndKept
  <2>2. Typed(s') /\ SameEnd(s', t) /\ s'.prev_drain_pending = t.prev_drain_pending
    <3>1. CASE s' = t
      BY <2>1, <3>1 DEF SameEnd
    <3>2. CASE s' = [t EXCEPT !.drain_done_seen = TRUE]
      BY <2>1, <3>2, DrainDoneField
    <3> QED BY <3>1, <3>2
  <2>3. EndKept(s', in) /\ (PassKept(t) => PassKept(s'))
    BY <1>2, <2>2, SameEndKept
  <2> QED BY <1>2, <2>2, <2>3 DEF PendingNoted
<1>3. CASE last_k
  <2>1. t = NextBlock(r)
    BY <1>3 DEF AfterDrain
  <2>2. /\ EndKept(t, in) /\ PendingNoted(t, in)
        /\ last_cout => t.state = "DONE" /\ PassKept(t)
        /\ ~last_cout =>
             /\ t.state = "BIAS_START"
             /\ t.cout_base = (s.cout_base + COUT_TILE) % CoutMod
             /\ t.pass_base_k = 0 /\ t.pass_index = 0 /\ t.pass_bank = 0
    BY <1>1, <2>1, NextBlockFields
  <2>3. /\ EndKept(s', in) /\ SameEnd(s', t) /\ ~s'.prev_drain_pending
        /\ (PassKept(t) => PassKept(s'))
    BY <1>2, <2>2
  <2>4. /\ last_cout => s'.state = "DONE" /\ PassKept(s')
        /\ ~last_cout =>
             /\ s'.state = "BIAS_START"
             /\ s'.cout_base = (s.cout_base + COUT_TILE) % CoutMod
             /\ s'.pass_base_k = 0 /\ s'.pass_index = 0 /\ s'.pass_bank = 0
    BY <2>2, <2>3 DEF SameEnd
  <2> QED BY <1>3, <2>3, <2>4, ToNextBlock
<1>4. CASE ~last_k /\ (prefetch_ready_now(in) \/ ~s.prefetch_started)
  <2>1. PICK st \in State :
          /\ t = NextPass(r, st)
          /\ \/ st = "PREFETCH_COMMIT" /\ prefetch_ready_now(in)
             \/ st = "WGT_START" /\ ~s.prefetch_started
    BY <1>4 DEF AfterDrain, State
  <2>2. /\ EndKept(t, in) /\ PendingNoted(t, in) /\ t.state = st
        /\ t.pass_base_k = next_k /\ t.cout_base = s.cout_base
        /\ t.pass_index = s.pass_index + 1 /\ t.pass_bank = 1 - s.pass_bank
    BY <1>1, <2>1, NextPassFields
  <2>3. EndKept(s', in) /\ SameEnd(s', t) /\ ~s'.prev_drain_pending
    BY <1>2, <2>2
  <2>4. /\ s'.state = st /\ s'.pass_base_k = next_k /\ s'.cout_base = s.cout_base
        /\ s'.pass_index = s.pass_index + 1 /\ s'.pass_bank = 1 - s.pass_bank
    BY <2>2, <2>3 DEF SameEnd
  <2> QED BY <1>4, <2>1, <2>3, <2>4, ToNextPass
<1>5. CASE ~last_k /\ ~prefetch_ready_now(in) /\ s.prefetch_started
  <2>1. t = [r EXCEPT !.state = "PREFETCH_WAIT"]
    BY <1>5 DEF AfterDrain
  <2>2. EndNoted(t, in) /\ t.state = "PREFETCH_WAIT"
    <3>1. "PREFETCH_WAIT" \in State
      BY DEF State
    <3> HIDE DEF EndNoted
    <3> QED BY <2>1, <3>1, StateFields
  <2>3. EndKept(t, in) /\ PendingNoted(t, in) /\ PassKept(t)
    BY <2>2 DEF EndNoted
  <2>4. /\ EndKept(s', in) /\ SameEnd(s', t) /\ ~s'.prev_drain_pending
        /\ PassKept(s') /\ PendingNoted(s', in)
    BY <1>2, <2>3
  <2>5. EndNoted(s', in) /\ s'.state = "PREFETCH_WAIT"
    BY <2>2, <2>4 DEF EndNoted, SameEnd
  <2> QED BY <1>5, <2>4, <2>5, ToDrain
<1> QED BY <1>3, <1>4, <1>5


\* The drained modes.
LEMMA DrainedWaitStep ==
  ASSUME IInv, NEW in \in Answers, Edge(in), layer' = layer, DrainedWait(in)
  PROVE  IInv'
<1> USE DEF IInv
<1> DEFINE r == Watched(in)
<1>1. s.state = "COMP_WAIT" /\ ~continuous
  BY DEF DrainedWait
<1>2. \/ s' = r
      \/ /\ pass_over_drained(in) /\ ~s.drain_started
         /\ s' = [r EXCEPT !.state = "DRAIN_START"]
      \/ /\ pass_over_drained(in) /\ s.drain_started
         /\ ~drain_done(in) /\ ~s.drain_done_seen
         /\ s' = [r EXCEPT !.state = "DRAIN_WAIT"]
      \/ /\ pass_over_drained(in) /\ s.drain_started
         /\ drain_done(in) \/ s.drain_done_seen
         /\ s' = AfterDrain(r, in)
  BY DEF DrainedWait
<1>3. CASE s' = r
  BY <1>1, <1>3, StayStep
<1>4. ASSUME pass_over_drained(in)
      PROVE  /\ Ended(in) /\ EndNoted(r, in) /\ r.drain_started = s.drain_started
             /\ prefetch_enable_current => s.prefetch_started
             /\ ~s.prev_drain_pending /\ ~in.accepted /\ Cur = given - 1
             /\ IF ~s.drain_started
                THEN DrainGone /\ ~s.drain_done_seen /\ collected = Cur
                ELSE IF s.drain_done_seen THEN DrainGone /\ collected = given
                ELSE DrainComes /\ collected = Cur
  <2>1. ~s.fast_handoff_armed
    BY <1>1, Armed
  <2>2. /\ ~prefetch_start_now(in) /\ ~s.prev_drain_pending
        /\ active_context_complete_now(in)
    BY <1>4 DEF pass_over_drained
  <2>3. /\ Taken /\ ~Handed /\ ~Asked /\ ~in.accepted /\ ~in.fire
        /\ left = 0 /\ s.feeder_done_seen /\ s.busy
        /\ prefetch_enable_current => s.prefetch_started
    BY <1>1, <2>1, <2>2, Over
  <2>4. Ended(in)
    BY <1>1, <2>1, <2>3 DEF Ended
  <2>5. EndNoted(r, in) /\ r.drain_started = s.drain_started
    BY <2>2, <2>3, EndWatched
  <2>6. IF ~s.drain_started
        THEN DrainGone /\ ~s.drain_done_seen /\ collected = Cur
        ELSE IF s.drain_done_seen THEN DrainGone /\ collected = given
        ELSE DrainComes /\ collected = Cur
    BY <1>1, <2>2, <2>3 DEF DrainOK
  <2>7. Cur = given - 1
    BY <2>3 DEF Cur
  <2> QED BY <2>2, <2>3, <2>4, <2>5, <2>6, <2>7
<1>5. Parties(in)
  BY <1>1, PartiesMove
<1>6. /\ given' = given + (IF in.accepted THEN 1 ELSE 0)
      /\ collected' = collected + (IF in.collects THEN 1 ELSE 0)
      /\ given \in Nat /\ collected \in Nat
      /\ draining' = (raises("psum_drain_start") \/ (draining /\ ~drain_done(in)))
      /\ in.collects \in BOOLEAN /\ drain_done(in) = in.collects
      /\ in.collects => draining /\ collected < given
  <2>1. /\ in.collects \in BOOLEAN
        /\ in.collects => draining /\ collected + Running < given
    BY <1>1, AnswersMean
  <2>2. given \in Nat /\ collected \in Nat
    BY DEF HistoryOK
  <2>3. drain_done(in) = in.collects
    BY <1>1, <2>1 DEF drain_done
  <2> QED BY <1>5, <2>1, <2>2, <2>3 DEF Parties, Running
<1> HIDE DEF r
<1>7. CASE /\ pass_over_drained(in) /\ ~s.drain_started
           /\ s' = [r EXCEPT !.state = "DRAIN_START"]
  <2>1. EndNoted(r, in)
    BY <1>4, <1>7
  <2>2. "DRAIN_START" \in State
    BY DEF State
  <2>3. EndNoted(s', in) /\ s'.state = "DRAIN_START"
    BY <1>7, <2>1, <2>2, StateFields
  <2>4. DrainGone /\ collected = Cur
    BY <1>4, <1>7
  <2>5. ~draining' /\ collected' = Cur
    BY <1>6, <2>4 DEF DrainGone
  <2>6. ~s'.prev_drain_pending
    BY <1>4, <1>7, <2>3 DEF EndNoted, PendingNoted
  <2> QED BY <1>1, <1>4, <1>7, <2>3, <2>5, <2>6, ToDrain
<1>8. CASE /\ pass_over_drained(in) /\ s.drain_started
           /\ ~drain_done(in) /\ ~s.drain_done_seen
           /\ s' = [r EXCEPT !.state = "DRAIN_WAIT"]
  <2>1. EndNoted(r, in) /\ r.drain_started = s.drain_started
    BY <1>4, <1>8
  <2>2. "DRAIN_WAIT" \in State
    BY DEF State
  <2>3. EndNoted(s', in) /\ s'.state = "DRAIN_WAIT" /\ s'.drain_started = r.drain_started
    <3> DEFINE t == [r EXCEPT !.state = "DRAIN_WAIT"]
    <3>1. EndNoted(t, in) /\ t.state = "DRAIN_WAIT" /\ t.drain_started = r.drain_started
      BY <2>1, <2>2, StateFields
    <3>2. s' = t
      BY <1>8
    <3> HIDE DEF t
    <3> QED BY <3>1, <3>2
  <2>4. DrainComes /\ collected = Cur
    BY <1>4, <1>8
  <2>5. draining' /\ collected' = Cur
    <3>1. ~in.collects /\ (draining \/ raises("psum_drain_start"))
      BY <1>6, <1>8, <2>4 DEF DrainComes
    <3>2. collected' = collected
      BY <3>1, <1>6
    <3>3. draining'
      BY <3>1, <1>6, <1>8
    <3> QED BY <2>4, <3>2, <3>3
  <2>6. ~s'.prev_drain_pending
    BY <1>4, <1>8, <2>3 DEF EndNoted, PendingNoted
  <2>7. s'.drain_started
    BY <1>8, <2>1, <2>3
  <2> QED BY <1>1, <1>4, <1>8, <2>3, <2>5, <2>6, <2>7, ToDrain
<1>9. CASE /\ pass_over_drained(in) /\ s.drain_started
           /\ drain_done(in) \/ s.drain_done_seen
           /\ s' = AfterDrain(r, in)
  <2>1. ~draining' /\ collected' = given'
    <3>1. CASE s.drain_done_seen
      <4>1. DrainGone /\ collected = given /\ ~in.accepted
        BY <1>4, <1>9, <3>1
      <4> QED BY <1>6, <4>1 DEF DrainGone
    <3>2. CASE ~s.drain_done_seen
      <4>1. DrainComes /\ collected = given - 1 /\ ~in.accepted
        BY <1>4, <1>9, <3>2
      <4>2. in.collects /\ draining
        BY <1>6, <1>9, <3>2
      <4>3. ~raises("psum_drain_start") /\ drain_done(in)
        BY <1>6, <4>1, <4>2 DEF DrainComes
      <4>4. ~draining'
        BY <1>6, <4>3
      <4>5. given' = given /\ collected' = collected + 1
        BY <1>6, <4>1, <4>2
      <4> QED BY <1>6, <4>1, <4>4, <4>5
    <3> QED BY <3>1, <3>2
  <2> QED BY <1>1, <1>4, <1>9, <2>1, AfterDrainStep
<1> QED BY <1>2, <1>3, <1>7, <1>8, <1>9

\* The drain is waited for.
LEMMA DrainWaitStep ==
  ASSUME IInv, NEW in \in Answers, Edge(in), layer' = layer, DrainWait(in)
  PROVE  IInv'
<1> USE DEF IInv
<1> DEFINE n == Noted(in)
           r == [n EXCEPT !.compute_started_seen = @ \/ in.fire]
<1>1. s.state = "DRAIN_WAIT"
  BY DEF DrainWait
<1>2. ~prefetch_start_now(in)
  BY <1>1, PrefetchStart
<1>3. \/ psum_overlap_ready_now(in) /\ s' = Overlapped(r, in)
      \/ drain_done(in) /\ s' = [AfterDrain(r, in) EXCEPT !.drain_done_seen = TRUE]
      \/ ~drain_done(in) /\ s' = r
  BY <1>2 DEF DrainWait
<1>4. ~continuous
  BY <1>1 DEF CollectOK
<1>5. /\ ~in.accepted /\ ~in.fire /\ left = 0 /\ ~request
      /\ ~raises("compute_start")
      /\ ~s.fast_handoff_armed /\ ~s.fast_handoff_accepted
  BY <1>1, Quiet
<1>6. Taken /\ ~Handed /\ ~Asked
  BY <1>1, <1>5 DEF Taken, Ending, Handed, Asked
<1>7. s.feeder_done_seen /\ s.busy
  BY <1>1, <1>6 DEF FeedOK, RegistersOK
<1>8. Ended(in)
  BY <1>1, <1>5, <1>6, <1>7 DEF Ended
<1>9. /\ ~s.prev_drain_pending /\ DrainComes /\ collected = Cur /\ s.drain_started
      /\ Cur = given - 1
      /\ prefetch_enable_current => s.prefetch_started
  BY <1>1, <1>4, <1>6 DEF DrainOK, PrefetchOK, Cur
<1>10. Typed(s) /\ in.fire \in BOOLEAN /\ in.feeder_done \in BOOLEAN
  BY AnswersMean DEF RegistersOK
<1>11. EndNoted(r, in) /\ r.drain_started = s.drain_started /\ r.state = "DRAIN_WAIT"
  <2>1. /\ Typed(n) /\ n.state = s.state /\ n.busy = s.busy /\ n.pulse = {}
        /\ PassKept(n) /\ n.feeder_done_seen = s.feeder_done_seen
        /\ PrefetchNoted(n, in) /\ PendingNoted(n, in) /\ DrainKept(n)
        /\ HandoffNoted(n, in)
    BY <1>10, NotedFields
  <2> HIDE DEF n
  <2>2. /\ Typed(r) /\ SameEnd(r, n) /\ r.prev_drain_pending = n.prev_drain_pending
        /\ r.drain_started = n.drain_started
    BY <1>10, <2>1, StartedNoted
  <2> HIDE DEF r
  <2>3. EndKept(n, in)
    BY <1>7, <1>10, <2>1 DEF EndKept, Typed
  <2>4. EndKept(r, in) /\ PassKept(r)
    BY <2>1, <2>2, <2>3, SameEndKept
  <2> QED BY <1>1, <2>1, <2>2, <2>4 DEF EndNoted, PendingNoted, DrainKept, SameEnd
<1> HIDE DEF r
<1>12. Parties(in)
  BY <1>1, PartiesMove
<1>13. /\ given' = given /\ given \in Nat /\ collected \in Nat
       /\ collected' = collected + (IF in.collects THEN 1 ELSE 0)
       /\ draining' = (raises("psum_drain_start") \/ (draining /\ ~drain_done(in)))
       /\ in.collects \in BOOLEAN /\ drain_done(in) = in.collects
       /\ in.collects => draining
  <2>1. in.collects \in BOOLEAN /\ (in.collects => draining)
    BY <1>4, AnswersMean
  <2>2. given \in Nat /\ collected \in Nat
    BY DEF HistoryOK
  <2>3. drain_done(in) = in.collects
    BY <1>4, <2>1 DEF drain_done
  <2>4. given' = given + 0
    BY <1>5, <1>12 DEF Parties
  <2> QED BY <1>12, <2>1, <2>2, <2>3, <2>4 DEF Parties
<1>14. IF drain_done(in) THEN ~draining' /\ collected' = given'
       ELSE draining' /\ collected' = Cur
  <2>1. CASE drain_done(in)
    <3>1. in.collects /\ draining /\ ~raises("psum_drain_start")
      BY <2>1, <1>9, <1>13 DEF DrainComes
    <3>2. ~draining'
      BY <2>1, <3>1, <1>13
    <3>3. collected' = collected + 1
      BY <3>1, <1>13
    <3> QED BY <2>1, <3>2, <3>3, <1>9, <1>13
  <2>2. CASE ~drain_done(in)
    <3>1. ~in.collects /\ (draining \/ raises("psum_drain_start"))
      BY <2>2, <1>9, <1>13 DEF DrainComes
    <3>2. collected' = collected
      BY <3>1, <1>13
    <3> QED BY <2>2, <3>1, <3>2, <1>9, <1>13
  <2> QED BY <2>1, <2>2
<1>15. CASE psum_overlap_ready_now(in) /\ s' = Overlapped(r, in)
  <2> DEFINE t == NextPass(r, "PREFETCH_COMMIT")
  <2>1. prefetch_enable_current /\ prefetch_ready_now(in) /\ ~last_k
    BY <1>15 DEF psum_overlap_ready_now, prefetch_enable_current
  <2>2. /\ EndKept(t, in) /\ t.state = "PREFETCH_COMMIT"
        /\ t.pass_base_k = next_k /\ t.cout_base = s.cout_base
        /\ t.pass_index = s.pass_index + 1 /\ t.pass_bank = 1 - s.pass_bank
    BY <1>10, <1>11, NextPassFields DEF State
  <2>3. s' = [t EXCEPT !.prev_drain_pending = ~drain_done(in),
                       !.drain_started = FALSE, !.drain_done_seen = FALSE]
    BY <1>15 DEF Overlapped
  <2> HIDE DEF t
  <2>4. Typed(t)
    BY <2>2 DEF EndKept
  <2>a. (~drain_done(in)) \in BOOLEAN
    OBVIOUS
  <2>5. /\ Typed(s') /\ SameEnd(s', t)
        /\ s'.prev_drain_pending = ~drain_done(in)
    BY <2>3, <2>4, <2>a, DrainFields
  <2>6. EndKept(s', in)
    BY <2>2, <2>5, SameEndKept
  <2>7. /\ s'.state = "PREFETCH_COMMIT"
        /\ s'.pass_base_k = next_k /\ s'.cout_base = s.cout_base
        /\ s'.pass_index = s.pass_index + 1 /\ s'.pass_bank = 1 - s.pass_bank
    BY <2>2, <2>5 DEF SameEnd
  <2>8. IF s'.prev_drain_pending
        THEN s'.state = "PREFETCH_COMMIT" /\ draining' /\ collected' = Cur
        ELSE ~draining' /\ collected' = given'
    BY <1>14, <2>5, <2>7
  <2> QED BY <1>4, <1>8, <2>1, <2>6, <2>7, <2>8, ToNextPass
<1>16. CASE drain_done(in) /\ s' = [AfterDrain(r, in) EXCEPT !.drain_done_seen = TRUE]
  BY <1>4, <1>8, <1>9, <1>11, <1>14, <1>16, AfterDrainStep
<1>17. CASE ~drain_done(in) /\ s' = r
  <2>1. ~s'.prev_drain_pending
    BY <1>9, <1>11, <1>17 DEF EndNoted, PendingNoted
  <2> QED BY <1>4, <1>8, <1>9, <1>11, <1>14, <1>17, <2>1, ToDrain
<1> QED BY <1>3, <1>15, <1>16, <1>17


-----------------------------------------------------------------------------
(* The start of a layer *)

\* The registers at reset, or when a layer starts.
Fresh(t) ==
  /\ DOMAIN t = Registers /\ t.state \in State /\ t.busy \in BOOLEAN
  /\ t.pulse = {}
  /\ t.pass_base_k = 0 /\ t.cout_base = 0 /\ t.pass_index = 0 /\ t.pass_bank = 0
  /\ t.feeder_pass_base_k = 0 /\ t.feeder_k_pass = 0
  /\ t.prefetch_pass_base_k \in Nat /\ t.prefetch_pass_index = 0
  /\ t.compute_done_seen = FALSE /\ t.compute_started_seen = FALSE
  /\ t.feeder_done_seen = FALSE
  /\ t.drain_started = FALSE /\ t.drain_done_seen = FALSE
  /\ t.prefetch_started = FALSE /\ t.prefetch_weight_done = FALSE
  /\ t.prefetch_feed_done = FALSE
  /\ t.prev_drain_pending = FALSE /\ t.drain_packet_seen = FALSE
  /\ t.collector_final_done_seen = FALSE
  /\ t.fast_handoff_armed = FALSE /\ t.fast_handoff_accepted = FALSE

\* The registers after a reset are in range.
LEMMA FreshTyped ==
  ASSUME NEW t, Fresh(t)
  PROVE  Typed(t)
<1>1. t.pulse \subseteq {"bias_load_start", "weight_load_start", "feeder_start",
                         "compute_start", "psum_drain_start", "done"}
  BY DEF Fresh
<1>2. DOMAIN t = Registers /\ t.state \in State /\ t.busy \in BOOLEAN
  BY DEF Fresh
<1>3. /\ t.pass_base_k \in Nat /\ t.cout_base \in Nat /\ t.pass_index \in Nat
      /\ t.pass_bank \in {0, 1}
      /\ t.feeder_pass_base_k \in Nat /\ t.feeder_k_pass \in Nat
      /\ t.prefetch_pass_base_k \in Nat /\ t.prefetch_pass_index \in Nat
  BY DEF Fresh
<1>4. /\ t.compute_done_seen \in BOOLEAN /\ t.compute_started_seen \in BOOLEAN
      /\ t.feeder_done_seen \in BOOLEAN /\ t.drain_started \in BOOLEAN
      /\ t.drain_done_seen \in BOOLEAN /\ t.drain_packet_seen \in BOOLEAN
      /\ t.prev_drain_pending \in BOOLEAN /\ t.prefetch_started \in BOOLEAN
      /\ t.prefetch_weight_done \in BOOLEAN /\ t.prefetch_feed_done \in BOOLEAN
      /\ t.collector_final_done_seen \in BOOLEAN
      /\ t.fast_handoff_armed \in BOOLEAN /\ t.fast_handoff_accepted \in BOOLEAN
  BY DEF Fresh
<1> QED BY <1>1, <1>2, <1>3, <1>4 DEF Typed

\* What the start of a layer sets.
LEMMA StartFields ==
  ASSUME Typed(s), NEW in, Start(in)
  PROVE  /\ s.state = "IDLE" /\ layer' \in Layers
         /\ Typed(s') /\ s'.state = "BIAS_START" /\ s'.busy = TRUE /\ s'.pulse = {}
         /\ s'.pass_base_k = 0 /\ s'.cout_base = 0
         /\ s'.pass_index = 0 /\ s'.pass_bank = 0
         /\ ~s'.prefetch_started /\ ~s'.prev_drain_pending
         /\ ~s'.fast_handoff_armed /\ ~s'.fast_handoff_accepted
<1>1. s.prefetch_pass_base_k \in Nat /\ DOMAIN s = Registers
  BY DEF Typed
<1>2. DOMAIN s' = Registers
  BY <1>1 DEF Start
<1>3. /\ s'.state = "BIAS_START" /\ s'.busy = TRUE /\ s'.pulse = {}
      /\ s'.pass_base_k = 0 /\ s'.cout_base = 0
      /\ s'.pass_index = 0 /\ s'.pass_bank = 0
      /\ s'.feeder_pass_base_k = 0 /\ s'.feeder_k_pass = 0
      /\ s'.prefetch_pass_base_k = s.prefetch_pass_base_k
      /\ s'.prefetch_pass_index = 0
  BY <1>1 DEF Start, Registers
<1>4. /\ s'.compute_done_seen = FALSE /\ s'.compute_started_seen = FALSE
      /\ s'.feeder_done_seen = FALSE
      /\ s'.drain_started = FALSE /\ s'.drain_done_seen = FALSE
      /\ s'.prefetch_started = FALSE /\ s'.prefetch_weight_done = FALSE
      /\ s'.prefetch_feed_done = FALSE
      /\ s'.prev_drain_pending = FALSE /\ s'.drain_packet_seen = FALSE
      /\ s'.collector_final_done_seen = FALSE
      /\ s'.fast_handoff_armed = FALSE /\ s'.fast_handoff_accepted = FALSE
  BY <1>1 DEF Start, Registers
<1>5. "BIAS_START" \in State
  BY DEF State
<1>6. Fresh(s')
  BY <1>1, <1>2, <1>3, <1>4, <1>5 DEF Fresh
<1>7. Typed(s')
  BY <1>6, FreshTyped
<1> QED BY <1>3, <1>4, <1>7 DEF Start

\* Between two layers nothing is loading, fed, computed or collected.
LEMMA Rest ==
  ASSUME IInv, NEW in \in Answers, Edge(in), s.state = "IDLE"
  PROVE  /\ ~raises("bias_load_start") /\ ~bias_loading
         /\ WeightGone /\ FeedGone /\ fed = 0 /\ DrainGone /\ ~collecting
         /\ left = 0 /\ ~compute_done /\ ~request /\ ~raises("compute_start")
         /\ collected = given /\ given \in Nat /\ uncollected = <<>>
         /\ ~in.accepted /\ ~in.fire /\ ~in.collects /\ ~in.activates
         /\ ~in.feeder_done /\ ~in.weight_load_done /\ ~in.bias_load_done /\ ~in.level
<1> USE DEF IInv
<1>1. /\ ~in.accepted /\ ~in.fire /\ left = 0 /\ ~compute_done
      /\ ~request /\ ~raises("compute_start")
  BY Quiet
<1>2. /\ ~raises("bias_load_start") /\ ~bias_loading
      /\ WeightGone /\ FeedGone /\ fed = 0
  BY DEF PulsesOK, WeightOK, FeedOK
<1>3. given \in Nat /\ collected \in Nat
  BY DEF HistoryOK
<1>4. DrainGone /\ collected = given /\ ~collecting
  <2>1. CASE continuous
    BY <2>1, <1>3 DEF CollectOK
  <2>2. CASE ~continuous
    BY <2>2 DEF DrainOK
  <2> QED BY <2>1, <2>2
<1>5. uncollected = <<>>
  <2>1. uncollected = [i \in 1 .. 0 |-> Pass(layer, collected + i - 1)]
    BY <1>3, <1>4 DEF HistoryOK
  <2> QED BY <2>1
<1>6. ~in.collects /\ ~in.activates
  BY <1>3, <1>4, AnswersMean DEF Running
<1>7. ~in.feeder_done /\ ~in.weight_load_done /\ ~in.bias_load_done /\ ~in.level
  BY <1>2, AnswersMean DEF FeedGone, FeedIdle, WeightGone
<1> QED BY <1>1, <1>2, <1>3, <1>4, <1>5, <1>6, <1>7

\* The start of a layer keeps the invariant.
LEMMA StartStep ==
  ASSUME IInv, NEW in \in Answers, Edge(in), Start(in)
  PROVE  IInv'
<1> USE DEF IInv
<1>1. /\ s.state = "IDLE" /\ layer' \in Layers
      /\ Typed(s') /\ s'.state = "BIAS_START" /\ s'.busy = TRUE /\ s'.pulse = {}
      /\ s'.pass_base_k = 0 /\ s'.cout_base = 0
      /\ s'.pass_index = 0 /\ s'.pass_bank = 0
      /\ ~s'.prefetch_started /\ ~s'.prev_drain_pending
      /\ ~s'.fast_handoff_armed /\ ~s'.fast_handoff_accepted
  BY StartFields DEF RegistersOK
<1>2. /\ ~raises("bias_load_start") /\ ~bias_loading
      /\ WeightGone /\ FeedGone /\ fed = 0 /\ DrainGone /\ ~collecting
      /\ left = 0 /\ ~compute_done /\ ~request /\ ~raises("compute_start")
      /\ uncollected = <<>>
      /\ ~in.accepted /\ ~in.fire /\ ~in.collects /\ ~in.activates
      /\ ~in.feeder_done /\ ~in.weight_load_done /\ ~in.bias_load_done /\ ~in.level
  BY <1>1, Rest
<1>3. ENABLE_FAST_CONTEXT_HANDOFF' = ENABLE_FAST_CONTEXT_HANDOFF
      /\ LoadersEdge(in) /\ FeederEdge(in) /\ CoreEdge(in) /\ CollectorEdge(in)
      /\ HistoryEdge(in)
  BY DEF Edge
<1>4. given' = 0 /\ collected' = 0
  BY <1>1, <1>3 DEF HistoryEdge
<1>5. ~bias_loading' /\ ~weight_loading' /\ weights' = 0
      /\ bias_loading' \in BOOLEAN /\ weight_loading' \in BOOLEAN
  <2>1. weights = 0 /\ ~raises("weight_load_start") /\ ~weight_loading
    BY <1>2 DEF WeightGone
  <2>2. weights' = weights + 0 - 0
    BY <1>2, <1>3 DEF LoadersEdge
  <2>3. bias_loading' = FALSE /\ weight_loading' = FALSE
    BY <1>2, <1>3, <2>1 DEF LoadersEdge
  <2>4. weights' = 0
    BY <2>1, <2>2
  <2> QED BY <2>3, <2>4
<1>6. ~fires_last(in)
  BY <1>2 DEF fires_last
<1>7. feeding' = "none" /\ fed' = 0
  BY <1>2, <1>3, <1>6 DEF FeederEdge, FeedGone, FeedIdle
<1>8. prepared' = <<>>
  BY <1>2, <1>3, PreparedNext DEF FeedGone, FeedIdle
<1>9. left' = 0 /\ ~compute_done' /\ ~request'
      /\ compute_done' \in BOOLEAN /\ request' \in BOOLEAN
  BY <1>2, <1>3, <1>6 DEF CoreEdge, fires_last
<1>10. uncollected' = <<>>
  BY <1>2, <1>3 DEF CollectorEdge
<1>11. ~collecting' /\ ~draining' /\ collecting' \in BOOLEAN /\ draining' \in BOOLEAN
  BY <1>2, <1>3 DEF CollectorEdge, DrainGone
<1>12. /\ \A p : ~raises(p)'
       /\ ~Asked' /\ ~Handed' /\ ~Taken' /\ ~Waiting'
  BY <1>1, <1>9 DEF raises, Asked, Handed, Taken, Waiting, Ending
<1>13. Cur' = 0
  BY <1>4, <1>12 DEF Cur
<1>14. RegistersOK'
  <2>1. layer'.num_pixels \in Nat
    BY <1>1, LayersAssumption, PixelsAssumption
  <2>2. left' \in 0 .. layer'.num_pixels
    BY <2>1, <1>9
  <2> QED
    BY <1>1, <1>3, <1>5, <1>7, <1>9, <1>11, <2>2 DEF RegistersOK
<1>15. HistoryOK'
  <2>1. uncollected' = [i \in 1 .. 0 |-> Pass(layer', 0 + i - 1)]
    BY <1>10
  <2> QED BY <1>4, <1>9, <2>1, PixelsAssumption DEF HistoryOK
<1>16. Position' /\ IdlePosition'
  <2>1. /\ Total(layer') \in Nat \ {0} /\ Pass(layer', 0).cout = 0
        /\ Pass(layer', 0).k = 0 /\ 0 % Passes(layer') = 0
    BY <1>1, FirstPass DEF Place
  <2>2. 0 % 2 = 0
    OBVIOUS
  <2> QED BY <1>1, <1>13, <2>1, <2>2 DEF Position, IdlePosition
<1>17. PulsesOK'
  BY <1>5, <1>12 DEF PulsesOK
<1>18. WeightOK'
  BY <1>1, <1>5, <1>12 DEF WeightOK, WeightGone
<1>19. FeedOK'
  BY <1>1, <1>7, <1>8, <1>12 DEF FeedOK, FeedGone, FeedIdle
<1>20. ComputeOK'
  BY <1>1, <1>9, <1>12 DEF ComputeOK
<1>21. PrefetchOK'
  BY <1>1, <1>12 DEF PrefetchOK
<1>22. DrainGone'
  BY <1>11, <1>12 DEF DrainGone
<1>23. DrainOK'
  BY <1>1, <1>4, <1>11, <1>12, <1>22 DEF DrainOK
<1>24. CollectOK'
  BY <1>1, <1>4, <1>11, <1>12, <1>13, <1>22 DEF CollectOK
<1>25. EndOK'
  BY <1>1 DEF EndOK
<1> QED
  BY <1>14, <1>15, <1>16, <1>17, <1>18, <1>19, <1>20, <1>21, <1>23, <1>24, <1>25

-----------------------------------------------------------------------------
(* The invariant *)

\* It holds at reset.
LEMMA InitInv ==
  ASSUME Init
  PROVE  IInv
<1>1. /\ s.state = "IDLE" /\ s.busy = FALSE /\ s.pulse = {}
      /\ s.pass_base_k = 0 /\ s.cout_base = 0 /\ s.pass_index = 0 /\ s.pass_bank = 0
      /\ s.prefetch_started = FALSE /\ s.prev_drain_pending = FALSE
      /\ s.fast_handoff_armed = FALSE /\ s.fast_handoff_accepted = FALSE
  BY DEF Init
<1>2. Typed(s)
  <2>1. DOMAIN s = Registers
    BY DEF Init, Registers
  <2>2. /\ s.feeder_pass_base_k = 0 /\ s.feeder_k_pass = 0
        /\ s.prefetch_pass_base_k = 0 /\ s.prefetch_pass_index = 0
        /\ s.compute_done_seen = FALSE /\ s.compute_started_seen = FALSE
        /\ s.feeder_done_seen = FALSE
        /\ s.drain_started = FALSE /\ s.drain_done_seen = FALSE
        /\ s.drain_packet_seen = FALSE
        /\ s.prefetch_weight_done = FALSE /\ s.prefetch_feed_done = FALSE
        /\ s.collector_final_done_seen = FALSE
    BY DEF Init
  <2>3. "IDLE" \in State
    BY DEF State
  <2>4. s.state \in State /\ s.busy \in BOOLEAN /\ s.prefetch_pass_base_k \in Nat
    <3>1. s.state \in State
      BY <1>1, <2>3
    <3>2. s.busy \in BOOLEAN
      BY <1>1
    <3>3. s.prefetch_pass_base_k \in Nat
      BY <2>2
    <3> QED BY <3>1, <3>2, <3>3
  <2>5. Fresh(s)
    BY <1>1, <2>1, <2>2, <2>4 DEF Fresh
  <2> QED BY <2>5, FreshTyped
<1>3. /\ layer \in Layers /\ ENABLE_FAST_CONTEXT_HANDOFF \in BOOLEAN
      /\ bias_loading = FALSE /\ weight_loading = FALSE /\ weights = 0
      /\ feeding = "none" /\ fed = 0 /\ prepared = <<>>
      /\ request = FALSE /\ left = 0 /\ compute_done = FALSE
      /\ uncollected = <<>> /\ collecting = FALSE /\ draining = FALSE
      /\ given = 0 /\ collected = 0
  BY BuildsAssumption DEF Init
<1>4. /\ \A p : ~raises(p)
      /\ ~Asked /\ ~Handed /\ ~Taken /\ ~Waiting
  BY <1>1, <1>3 DEF raises, Asked, Handed, Taken, Waiting, Ending
<1>5. RegistersOK
  <2>1. layer.num_pixels \in Nat
    BY <1>3, LayersAssumption, PixelsAssumption
  <2>2. left \in 0 .. layer.num_pixels
    BY <2>1, <1>3
  <2> QED BY <1>1, <1>2, <1>3, <2>2 DEF RegistersOK
<1>6. HistoryOK
  <2>1. uncollected = [i \in 1 .. 0 |-> Pass(layer, 0 + i - 1)]
    BY <1>3
  <2> QED BY <1>3, <2>1, PixelsAssumption DEF HistoryOK
<1>7. Position /\ IdlePosition
  <2>1. layer.k_total \in Nat \ {0} /\ layer.cout_total \in Nat \ {0}
    BY <1>3, LayersAssumption
  <2>2. 0 % 2 = 0
    OBVIOUS
  <2> QED BY <1>1, <2>1, <2>2 DEF Position, IdlePosition
<1>8. PulsesOK
  BY <1>3, <1>4 DEF PulsesOK
<1>9. WeightOK
  BY <1>1, <1>3, <1>4 DEF WeightOK, WeightGone
<1>10. FeedOK
  BY <1>1, <1>3, <1>4 DEF FeedOK, FeedGone, FeedIdle
<1>11. ComputeOK
  BY <1>1, <1>3, <1>4 DEF ComputeOK
<1>12. PrefetchOK
  BY <1>1, <1>4 DEF PrefetchOK
<1>13. DrainGone
  BY <1>3, <1>4 DEF DrainGone
<1>14. DrainOK /\ CollectOK
  BY <1>1, <1>3, <1>4, <1>13 DEF DrainOK, CollectOK
<1>15. EndOK
  BY <1>1 DEF EndOK
<1> QED
  BY <1>5, <1>6, <1>7, <1>8, <1>9, <1>10, <1>11, <1>12, <1>14, <1>15 DEF IInv

\* A step that changes nothing keeps it.
LEMMA StutterInv ==
  ASSUME IInv, UNCHANGED vars
  PROVE  IInv'
<1>1. /\ s' = s /\ layer' = layer
      /\ ENABLE_FAST_CONTEXT_HANDOFF' = ENABLE_FAST_CONTEXT_HANDOFF
      /\ bias_loading' = bias_loading /\ weight_loading' = weight_loading
      /\ weights' = weights /\ feeding' = feeding /\ fed' = fed
      /\ prepared' = prepared /\ request' = request /\ left' = left
      /\ compute_done' = compute_done /\ uncollected' = uncollected
      /\ collecting' = collecting /\ draining' = draining
      /\ given' = given /\ collected' = collected
  BY DEF vars, partyVars, historyVars
<1>2. /\ \A p : raises(p)' = raises(p)
      /\ next_k' = next_k /\ last_k' = last_k /\ continuous' = continuous
      /\ prefetch_enable_current' = prefetch_enable_current
      /\ FedPass' = FedPass
  BY <1>1 DEF raises, next_k, last_k, continuous, prefetch_enable_current, FedPass
<1>3. /\ Asked' = Asked /\ Handed' = Handed /\ Running' = Running
      /\ Taken' = Taken
  BY <1>1, <1>2 DEF Asked, Handed, Taken, Running
<1>4. Waiting' = Waiting /\ Cur' = Cur
  BY <1>1, <1>3 DEF Waiting, Cur
<1>5. RegistersOK' /\ HistoryOK'
  BY <1>1 DEF IInv, RegistersOK, HistoryOK
<1>6. Position' /\ IdlePosition' /\ EndOK'
  BY <1>1, <1>4 DEF IInv, Position, IdlePosition, EndOK
<1>7. PulsesOK' /\ ComputeOK'
  BY <1>1, <1>2, <1>3, <1>4 DEF IInv, PulsesOK, ComputeOK
<1>8. WeightOK'
  BY <1>1, <1>2, <1>3, <1>4 DEF IInv, WeightOK, WeightGone, WeightHeld, WeightComes
<1>9. FeedOK'
  BY <1>1, <1>2, <1>3, <1>4
     DEF IInv, FeedOK, FeedGone, FeedIdle, FeedHeld, FeedRuns, FeedComes, Prepared
<1>10. PrefetchOK'
  BY <1>1, <1>2, <1>3, <1>4 DEF IInv, PrefetchOK
<1>11. DrainOK'
  BY <1>1, <1>2, <1>3, <1>4 DEF IInv, DrainOK, DrainGone, DrainComes
<1>12. CollectOK'
  BY <1>1, <1>2, <1>3, <1>4 DEF IInv, CollectOK, DrainGone
<1> QED
  BY <1>5, <1>6, <1>7, <1>8, <1>9, <1>10, <1>11, <1>12 DEF IInv


\* Every edge keeps the invariant.
LEMMA NextInv ==
  ASSUME IInv, NEW in \in Answers, Edge(in)
  PROVE  IInv'
<1>1. SchedulerEdge(in)
  BY DEF Edge
<1>2. CASE Start(in)
  BY <1>2, StartStep
<1>3. ASSUME layer' = layer, Idle(in) PROVE IInv'
  BY <1>3, IdleStep
<1>4. ASSUME layer' = layer, BiasStart(in) \/ BiasWait(in) PROVE IInv'
  BY <1>4, BiasStartStep, BiasWaitStep
<1>5. ASSUME layer' = layer, WeightStart(in) \/ WeightWait(in) PROVE IInv'
  BY <1>5, WeightStartStep, WeightWaitStep
<1>6. ASSUME layer' = layer, FeedStart(in) \/ FeedWait(in) PROVE IInv'
  BY <1>6, FeedStartStep, FeedWaitStep
<1>7. ASSUME layer' = layer, ComputeStart(in) PROVE IInv'
  <2>1. CASE continuous /\ ~context_start_ready
    BY <1>7, <2>1, ComputeWaitStep
  <2>2. CASE ~(continuous /\ ~context_start_ready)
    BY <1>7, <2>2, ComputeStartStep
  <2> QED BY <2>1, <2>2
<1>8. ASSUME layer' = layer, FastHandoff(in) \/ ContinuousWait(in) \/ DrainedWait(in)
      PROVE  IInv'
  BY <1>8, FastHandoffStep, ContinuousWaitStep, DrainedWaitStep
<1>9. ASSUME layer' = layer, DrainStart(in) \/ DrainWait(in) PROVE IInv'
  BY <1>9, DrainStartStep, DrainWaitStep
<1>10. ASSUME layer' = layer, PrefetchWait(in) PROVE IInv'
  <2>1. CASE prefetch_ready_now(in)
    BY <1>10, <2>1, PrefetchGoStep
  <2>2. CASE ~prefetch_ready_now(in)
    BY <1>10, <2>2, PrefetchWaitStep
  <2> QED BY <2>1, <2>2
<1>11. ASSUME layer' = layer, PrefetchCommit(in) \/ Done(in) PROVE IInv'
  BY <1>11, PrefetchCommitStep, DoneStep
<1> QED
  BY <1>1, <1>2, <1>3, <1>4, <1>5, <1>6, <1>7, <1>8, <1>9, <1>10, <1>11
     DEF SchedulerEdge

\* The invariant holds in every state.
THEOREM SchedulerInvariant == Spec => []IInv
<1>1. Init => IInv
  BY InitInv
<1>2. IInv /\ [Next]_vars => IInv'
  BY NextInv, StutterInv DEF Next
<1> QED BY <1>1, <1>2, PTL DEF Spec

-----------------------------------------------------------------------------
(* What it means *)

\* The invariant has the type invariant in it.
LEMMA InvTypes ==
  ASSUME IInv
  PROVE  TypeOK
<1> USE DEF IInv
<1>1. s.state \in State /\ s.busy = (s.state # "IDLE")
  BY DEF RegistersOK, Typed
<1>2. s.pass_base_k < layer.k_total /\ s.cout_base < layer.cout_total
      /\ s.pass_bank = s.pass_index % 2
  <2>1. CASE s.busy
    <3>1. s.pass_base_k < layer.k_total /\ s.cout_base < layer.cout_total
      BY <2>1, Here
    <3> QED BY <2>1, <3>1 DEF Position
  <2>2. CASE ~s.busy
    BY <2>2 DEF IdlePosition
  <2> QED BY <2>1, <2>2
<1>3. s.state \in {"IDLE", "BIAS_START", "BIAS_WAIT", "WGT_START", "WGT_WAIT",
                   "FEED_START", "FEED_WAIT", "COMP_START", "PREFETCH_COMMIT"}
        \/ Waiting \/ Taken
  BY <1>1 DEF State, Waiting, Taken, Ending
<1>4. Handed => Taken
  BY DEF Handed, Taken, PrefetchOK
<1>5. weights \in 0 .. 2
  BY <1>3 DEF WeightOK, WeightGone, WeightHeld, WeightComes
<1>6. Running \in {0, 1} /\ Len(<<>>) = 0 /\ Len(<<Pass(layer, given)>>) = 1
  BY DEF Running
<1>7. fed \in 0 .. 2 /\ (prepared = <<>> \/ Prepared)
  <2>1. CASE Taken /\ ~s.feeder_done_seen
    BY <2>1 DEF FeedOK
  <2>2. CASE Handed
    BY <2>2 DEF FeedOK
  <2>3. CASE Taken /\ s.feeder_done_seen /\ ~Handed
    BY <2>3, <1>6 DEF FeedOK, FeedGone, FeedHeld, FeedComes
  <2>4. CASE ~Taken
    BY <2>4, <1>3 DEF FeedOK, FeedGone, FeedComes
  <2> QED BY <2>1, <2>2, <2>3, <2>4
<1>8. Len(prepared) <= 2
  <2>1. prepared = <<>> \/ prepared = <<Pass(layer, given)>>
    BY <1>7 DEF Prepared
  <2>2. Len(prepared) \in {0, 1}
    BY <1>6, <2>1
  <2> QED BY <2>2
<1>9. Len(uncollected) <= Uncollected
  BY PixelsAssumption DEF HistoryOK
<1>10. left \in 0 .. layer.num_pixels
  BY DEF RegistersOK
<1> QED BY <1>1, <1>2, <1>5, <1>7, <1>8, <1>9, <1>10 DEF TypeOK

\* Under the invariant no pulse meets a party that cannot take it.
LEMMA InvPulses ==
  ASSUME IInv
  PROVE  NoPulseLost
<1> USE DEF IInv
<1>1. s.state \in State
  BY DEF RegistersOK, Typed
<1>2. s.state \in {"IDLE", "BIAS_START", "BIAS_WAIT", "WGT_START", "WGT_WAIT",
                   "FEED_START", "FEED_WAIT", "COMP_START", "PREFETCH_COMMIT"}
        \/ Waiting \/ Taken
  BY <1>1 DEF State, Waiting, Taken, Ending
<1>3. Handed => Taken
  BY DEF Handed, Taken, PrefetchOK
<1>4. raises("bias_load_start") => ~bias_loading
  BY DEF PulsesOK
<1>5. raises("compute_start") => ~request
  BY DEF PulsesOK
<1>6. raises("weight_load_start") => ~weight_loading
  <2>1. CASE Taken
    BY <2>1 DEF WeightOK, WeightGone, WeightHeld, WeightComes
  <2>2. CASE ~Taken
    BY <2>2, <1>2 DEF WeightOK, WeightGone, WeightHeld, WeightComes
  <2> QED BY <2>1, <2>2
<1>7. raises("feeder_start") => feeder_start_ready
  <2> SUFFICES ASSUME raises("feeder_start") PROVE feeder_start_ready
    OBVIOUS
  <2>1. FeedComes
    <3>1. CASE Taken /\ ~s.feeder_done_seen
      BY <3>1 DEF FeedOK, FeedRuns
    <3>2. CASE Handed
      BY <3>2 DEF FeedOK, FeedRuns, FeedIdle
    <3>3. CASE Taken /\ s.feeder_done_seen /\ ~Handed
      BY <3>3 DEF FeedOK, FeedGone, FeedHeld, FeedIdle
    <3>4. CASE ~Taken
      BY <3>4, <1>2 DEF FeedOK, FeedGone, FeedIdle, FeedRuns
    <3> QED BY <3>1, <3>2, <3>3, <3>4
  <2>2. feeding = "none" /\ prepared = <<>>
    BY <2>1 DEF FeedComes, FeedRuns
  <2>3. Len(prepared) = 0
    BY <2>2
  <2> QED BY <2>2, <2>3 DEF feeder_start_ready
<1>8. raises("psum_drain_start") => ~draining
  <2>1. CASE continuous
    BY <2>1 DEF CollectOK, DrainGone
  <2>2. CASE ~continuous
    <3>1. CASE s.prev_drain_pending
      BY <2>2, <3>1 DEF DrainOK
    <3>2. CASE ~s.prev_drain_pending
      <4>1. CASE s.state \in {"IDLE"} \cup Beginning \/ Waiting
        BY <2>2, <3>2, <4>1 DEF DrainOK, DrainGone
      <4>2. CASE s.state = "COMP_WAIT" /\ Taken
        BY <2>2, <3>2, <4>2 DEF DrainOK, DrainGone, DrainComes
      <4>3. CASE s.state \in Ending
        BY <2>2, <3>2, <4>3 DEF DrainOK, DrainGone, DrainComes, Ending
      <4> QED BY <1>1, <4>1, <4>2, <4>3 DEF State, Beginning, Ending, Waiting
    <3> QED BY <3>1, <3>2
  <2> QED BY <2>1, <2>2
<1> QED BY <1>4, <1>5, <1>6, <1>7, <1>8 DEF NoPulseLost

\* In every mode, for every layer and however the parties' answers interleave,
\* the scheduler's registers stay in range, and no pulse arrives while the party
\* that it is for is busy with, or still holds, the one before.
THEOREM SchedulerAlwaysSafe == Spec => []SchedulerSafe
<1>1. IInv => SchedulerSafe
  BY InvTypes, InvPulses DEF SchedulerSafe
<1> QED BY <1>1, SchedulerInvariant, PTL

-----------------------------------------------------------------------------
(* The loop nest *)

\* t differs from s, but not in the busy bit.
BusyKept(t) == DOMAIN t = Registers /\ t.busy = s.busy

\* The notes of COMP_WAIT leave busy alone,
LEMMA WatchedBusy ==
  ASSUME Typed(s), NEW in
  PROVE  BusyKept(Watched(in))
<1> DEFINE n == Noted(in)
           m == CompNoted(in)
           p == Prefetched(m, in)
           q == IF ~prefetch_start_now(in) THEN m
                ELSE IF ~fast_handoff_mode_current THEN p
                ELSE [p EXCEPT !.pulse = @ \cup {"compute_start"},
                        !.fast_handoff_armed = TRUE,
                        !.fast_handoff_accepted = in.accepted]
           t == Watched(in)
<1>1. BusyKept(n)
  BY DEF BusyKept, Typed, Noted, Registers
<1>2. m = [n EXCEPT
              !.compute_done_seen = @ \/ compute_done,
              !.compute_started_seen = @ \/ in.fire,
              !.feeder_done_seen = @ \/ in.feeder_done,
              !.drain_done_seen = @ \/ (drain_done(in) /\ ~s.prev_drain_pending)]
  BY DEF CompNoted
<1>3. p = [m EXCEPT !.prefetch_started = TRUE,
             !.prefetch_weight_done = FALSE, !.prefetch_feed_done = FALSE,
             !.prefetch_pass_base_k = next_k,
             !.prefetch_pass_index = s.pass_index + 1,
             !.feeder_pass_base_k = next_k, !.feeder_k_pass = s.pass_index + 1,
             !.pulse = {"weight_load_start", "feeder_start"}]
  BY DEF Prefetched
<1>4. q = m \/ q = p \/ q = [p EXCEPT !.pulse = @ \cup {"compute_start"},
                               !.fast_handoff_armed = TRUE,
                               !.fast_handoff_accepted = in.accepted]
  OBVIOUS
<1>5. t = DrainRequested(q, in)
  BY DEF Watched, DrainsEarly, CompNoted, DrainRequested
<1> HIDE DEF n, m, p, q, t
<1>6. BusyKept(m)
  BY <1>1, <1>2 DEF BusyKept, Registers
<1>7. BusyKept(p)
  BY <1>3, <1>6 DEF BusyKept, Registers
<1>8. BusyKept(q)
  BY <1>4, <1>6, <1>7 DEF BusyKept, Registers
<1>9. BusyKept(t)
  BY <1>5, <1>8 DEF BusyKept, Registers, DrainRequested
<1> QED BY <1>9 DEF t

\* so does the move to the next pass or block,
LEMMA MovedBusy ==
  ASSUME NEW in, NEW r, BusyKept(r), NEW st
  PROVE  /\ BusyKept([r EXCEPT !.state = st]) /\ BusyKept(NextPass(r, st))
         /\ BusyKept(NextBlock(r))
<1>1. BusyKept([r EXCEPT !.state = st])
  BY DEF BusyKept, Registers
<1>2. BusyKept(NextPass(r, st))
  BY DEF BusyKept, Registers, NextPass
<1>3. BusyKept(NextBlock(r))
  BY DEF BusyKept, Registers, NextBlock
<1> QED BY <1>1, <1>2, <1>3

\* and so does the end of a drain.
LEMMA DrainedBusy ==
  ASSUME NEW in, NEW r, BusyKept(r)
  PROVE  /\ BusyKept(AfterDrain(r, in)) /\ BusyKept(Overlapped(r, in))
         /\ BusyKept([AfterDrain(r, in) EXCEPT !.drain_done_seen = TRUE])
<1> DEFINE t == AfterDrain(r, in)
           u == NextPass(r, "PREFETCH_COMMIT")
<1>1. BusyKept(t)
  BY MovedBusy DEF AfterDrain
<1>2. BusyKept(u)
  BY MovedBusy
<1> HIDE DEF t, u
<1>3. BusyKept([t EXCEPT !.drain_done_seen = TRUE])
  BY <1>1 DEF BusyKept, Registers
<1>4. BusyKept([u EXCEPT !.prev_drain_pending = ~drain_done(in),
                         !.drain_started = FALSE, !.drain_done_seen = FALSE])
  BY <1>2 DEF BusyKept, Registers
<1> QED BY <1>1, <1>3, <1>4 DEF t, u, Overlapped

\* Only a start and the end of a layer change the busy bit.
LEMMA BusyStep ==
  ASSUME IInv, NEW in \in Answers, Edge(in)
  PROVE  \/ Start(in)
         \/ layer' = layer /\ s.state = "IDLE" /\ s'.state = "IDLE"
         \/ layer' = layer /\ s.state = "DONE" /\ s'.state = "IDLE"
         \/ layer' = layer /\ s.busy /\ s'.busy = s.busy
<1> USE DEF IInv
<1>1. Typed(s) /\ s.busy = (s.state # "IDLE")
  BY DEF RegistersOK
<1> SUFFICES ASSUME ~Start(in)
             PROVE  \/ layer' = layer /\ s.state = "IDLE" /\ s'.state = "IDLE"
                    \/ layer' = layer /\ s.state = "DONE" /\ s'.state = "IDLE"
                    \/ layer' = layer /\ s.busy /\ s'.busy = s.busy
  OBVIOUS
<1>2. /\ layer' = layer
      /\ \/ Idle(in) \/ BiasStart(in) \/ BiasWait(in)
         \/ WeightStart(in) \/ WeightWait(in) \/ FeedStart(in) \/ FeedWait(in)
         \/ ComputeStart(in)
         \/ FastHandoff(in) \/ ContinuousWait(in) \/ DrainedWait(in)
         \/ DrainStart(in) \/ DrainWait(in)
         \/ PrefetchWait(in) \/ PrefetchCommit(in) \/ Done(in)
  BY DEF Edge, SchedulerEdge
<1>3. CASE Idle(in)
  BY <1>1, <1>2, <1>3, IdleFields
<1>4. CASE Done(in)
  BY <1>1, <1>2, <1>4, DoneFields
<1>5. BusyKept(Noted(in)) /\ BusyKept(Watched(in))
  BY <1>1, WatchedBusy DEF BusyKept, Typed, Noted, Registers
<1>6. CASE BiasStart(in) \/ BiasWait(in) \/ WeightStart(in) \/ WeightWait(in)
  <2>1. s.state # "IDLE" /\ BusyKept(s')
    BY <1>5, <1>6
       DEF BiasStart, BiasWait, WeightStart, WeightWait, BusyKept, Registers
  <2> QED BY <1>1, <1>2, <2>1 DEF BusyKept
<1>7. CASE FeedStart(in) \/ FeedWait(in)
  <2>1. s.state # "IDLE" /\ BusyKept(s')
    BY <1>5, <1>7 DEF FeedStart, FeedWait, BusyKept, Registers
  <2> QED BY <1>1, <1>2, <2>1 DEF BusyKept
<1>8. CASE ComputeStart(in)
  <2> DEFINE r == [Noted(in) EXCEPT !.feeder_done_seen = feed_kept(in)]
  <2>1. BusyKept(r)
    BY <1>5 DEF BusyKept, Registers
  <2>2. \/ s' = r
        \/ s' = [r EXCEPT !.pulse = {"compute_start"},
                     !.compute_done_seen = FALSE,
                     !.compute_started_seen = FALSE,
                     !.drain_started = FALSE, !.drain_done_seen = FALSE,
                     !.drain_packet_seen = FALSE,
                     !.collector_final_done_seen = FALSE,
                     !.prefetch_started = FALSE,
                     !.prefetch_weight_done = FALSE,
                     !.prefetch_feed_done = FALSE, !.state = "COMP_WAIT"]
    BY <1>8 DEF ComputeStart
  <2>3. s.state # "IDLE"
    BY <1>8 DEF ComputeStart
  <2> HIDE DEF r
  <2>4. BusyKept(s')
    BY <2>1, <2>2 DEF BusyKept, Registers
  <2> QED BY <1>1, <1>2, <2>3, <2>4 DEF BusyKept
<1>9. CASE FastHandoff(in)
  <2> DEFINE r == Watched(in)
  <2>1. /\ s.state # "IDLE"
        /\ s' = [r EXCEPT
             !.pass_base_k = s.prefetch_pass_base_k,
             !.pass_index = s.prefetch_pass_index, !.pass_bank = 1 - s.pass_bank,
             !.compute_done_seen = FALSE, !.compute_started_seen = in.fire,
             !.feeder_done_seen = s.prefetch_feed_done \/
                                    (s.prefetch_started /\ in.feeder_done),
             !.drain_started = FALSE, !.drain_done_seen = FALSE,
             !.drain_packet_seen = FALSE, !.collector_final_done_seen = FALSE,
             !.prefetch_started = FALSE, !.prefetch_weight_done = FALSE,
             !.prefetch_feed_done = FALSE,
             !.fast_handoff_armed = FALSE, !.fast_handoff_accepted = FALSE]
    BY <1>9 DEF FastHandoff
  <2>2. BusyKept(r)
    BY <1>5
  <2> HIDE DEF r
  <2>3. BusyKept(s')
    BY <2>1, <2>2 DEF BusyKept, Registers
  <2> QED BY <1>1, <1>2, <2>1, <2>3 DEF BusyKept
<1>10. CASE ContinuousWait(in)
  <2>1. s.state # "IDLE" /\ BusyKept(s')
    BY <1>5, <1>10, MovedBusy DEF ContinuousWait
  <2> QED BY <1>1, <1>2, <2>1 DEF BusyKept
<1>11. CASE DrainedWait(in)
  <2> DEFINE r == Watched(in)
  <2>1. \/ s' = r \/ s' = [r EXCEPT !.state = "DRAIN_START"]
        \/ s' = [r EXCEPT !.state = "DRAIN_WAIT"] \/ s' = AfterDrain(r, in)
    BY <1>11 DEF DrainedWait
  <2>2. s.state # "IDLE" /\ BusyKept(r)
    BY <1>5, <1>11 DEF DrainedWait
  <2> HIDE DEF r
  <2>3. BusyKept(s')
    <3>1. /\ BusyKept([r EXCEPT !.state = "DRAIN_START"])
          /\ BusyKept([r EXCEPT !.state = "DRAIN_WAIT"])
      BY <2>2, MovedBusy
    <3>2. BusyKept(AfterDrain(r, in))
      BY <2>2, DrainedBusy
    <3> QED BY <2>1, <2>2, <3>1, <3>2
  <2> QED BY <1>1, <1>2, <2>2, <2>3 DEF BusyKept
<1>12. CASE DrainStart(in)
  <2>1. s.state # "IDLE" /\ BusyKept(s')
    BY <1>5, <1>12 DEF DrainStart, BusyKept, Registers
  <2> QED BY <1>1, <1>2, <2>1 DEF BusyKept
<1>13. CASE DrainWait(in)
  <2> DEFINE m == [Noted(in) EXCEPT !.compute_started_seen = @ \/ in.fire]
             r == IF prefetch_start_now(in) THEN Prefetched(m, in) ELSE m
  <2>1. BusyKept(m)
    BY <1>5 DEF BusyKept, Registers
  <2>2. \/ s' = Overlapped(r, in)
        \/ s' = [AfterDrain(r, in) EXCEPT !.drain_done_seen = TRUE]
        \/ s' = r
    BY <1>13 DEF DrainWait
  <2>3. s.state # "IDLE"
    BY <1>13 DEF DrainWait
  <2> HIDE DEF m
  <2>4. BusyKept(r)
    BY <2>1 DEF BusyKept, Registers, Prefetched
  <2> HIDE DEF r
  <2>5. BusyKept(s')
    BY <2>2, <2>4, DrainedBusy
  <2> QED BY <1>1, <1>2, <2>3, <2>5 DEF BusyKept
<1>14. CASE PrefetchWait(in) \/ PrefetchCommit(in)
  <2>1. s.state # "IDLE" /\ BusyKept(s')
    BY <1>5, <1>14 DEF PrefetchWait, PrefetchCommit, BusyKept, Registers
  <2> QED BY <1>1, <1>2, <2>1 DEF BusyKept
<1> QED
  BY <1>2, <1>3, <1>4, <1>6, <1>7, <1>8, <1>9, <1>10, <1>11, <1>12, <1>13, <1>14

\* A step of the scheduler is a step of the loop nest.
LEMMA LoopStep ==
  ASSUME IInv, IInv', NEW in \in Answers, Edge(in)
  PROVE  Loop!Begin \/ Loop!Work \/ Loop!End \/ UNCHANGED Loop!loopVars
<1> USE DEF IInv
<1>1. /\ s.busy = (s.state # "IDLE") /\ s'.busy = (s'.state # "IDLE")
      /\ s.busy \in BOOLEAN /\ Typed(s)
  BY DEF RegistersOK, Typed
<1>2. given \in Nat /\ collected \in Nat
  BY DEF HistoryOK
<1>3. /\ in.accepted \in BOOLEAN /\ in.collects \in BOOLEAN
      /\ in.collects => collected + Running < given
  BY AnswersMean
<1>4. CASE Start(in)
  <2>1. s.state = "IDLE" /\ s'.state = "BIAS_START" /\ layer' \in Layers
    BY <1>1, <1>4, StartFields
  <2>2. given' = 0 /\ collected' = 0 /\ current' = current
    BY <2>1 DEF Edge, HistoryEdge
  <2> QED BY <1>1, <2>1, <2>2 DEF Loop!Begin
<1>5. ASSUME layer' = layer, s.state # "IDLE" \/ s'.state = "IDLE"
      PROVE  /\ given' = given + (IF in.accepted THEN 1 ELSE 0)
             /\ collected' = collected + (IF in.collects THEN 1 ELSE 0)
             /\ current' = IF in.accepted THEN Head(prepared) ELSE current
  BY <1>5 DEF Edge, HistoryEdge
<1>6. ASSUME layer' = layer, s.state = "IDLE", s'.state = "IDLE"
      PROVE  UNCHANGED Loop!loopVars
  <2>1. ~in.accepted /\ ~in.collects
    BY <1>6, Rest
  <2>2. given' = given /\ collected' = collected /\ current' = current
    BY <1>2, <1>5, <1>6, <2>1
  <2> QED BY <1>1, <1>6, <2>2 DEF Loop!loopVars
<1>7. ASSUME layer' = layer, s.state = "DONE", s'.state = "IDLE"
      PROVE  Loop!End
  <2>1. given = Total(layer)
    BY <1>7 DEF EndOK
  <2>2. collected = given
    BY <1>7 DEF DrainOK, CollectOK
  <2>3. ~in.accepted
    BY <1>7, Quiet
  <2>4. ~in.collects
    BY <1>2, <1>3, <2>2 DEF Running
  <2>5. given' = given /\ collected' = collected /\ current' = current
    BY <1>2, <1>5, <1>7, <2>3, <2>4
  <2> QED BY <1>1, <1>7, <2>1, <2>2, <2>5 DEF Loop!End, Total
<1>8. ASSUME layer' = layer, s.busy, s'.busy = s.busy
      PROVE  Loop!Work
  <2>1. /\ given' = given + (IF in.accepted THEN 1 ELSE 0)
        /\ collected' = collected + (IF in.collects THEN 1 ELSE 0)
        /\ current' = IF in.accepted THEN Head(prepared) ELSE current
    BY <1>1, <1>5, <1>8
  <2>2. \/ UNCHANGED collected
        \/ collected < given /\ collected' = collected + 1
    BY <1>2, <1>3, <2>1 DEF Running
  <2>3. \/ /\ given < Total(layer) /\ given' = given + 1
           /\ current' = Pass(layer, given)
           /\ layer.continuous_psum_enable \/ given <= collected + 1
        \/ UNCHANGED <<given, current>>
    <3>1. CASE ~in.accepted
      BY <1>2, <2>1, <3>1
    <3>2. CASE in.accepted
      <4>1. /\ s.state = "COMP_WAIT" /\ Prepared /\ given < Total(layer)
            /\ Waiting \/ (s.fast_handoff_armed /\ ~s.fast_handoff_accepted)
        BY <3>2, Acceptance
      <4>2. current' = Pass(layer, given) /\ given' = given + 1
        BY <2>1, <3>2, <4>1 DEF Prepared
      <4>3. ASSUME ~layer.continuous_psum_enable PROVE given <= collected + 1
        <5>1. ~continuous
          BY <4>3 DEF continuous
        <5>2. Waiting /\ ~Taken
          BY <4>1, <5>1, Armed DEF Waiting
        <5>3. Cur = given
          BY <5>2 DEF Cur
        <5>4. CASE s.prev_drain_pending
          BY <1>2, <5>1, <5>3, <5>4 DEF DrainOK
        <5>5. CASE ~s.prev_drain_pending
          BY <1>2, <5>1, <5>2, <5>5 DEF DrainOK
        <5> QED BY <5>4, <5>5
      <4> QED BY <4>1, <4>2, <4>3
    <3> QED BY <1>3, <3>1, <3>2
  <2> QED BY <1>8, <2>2, <2>3 DEF Loop!Work, Total, Pass
<1> QED
  BY <1>4, <1>6, <1>7, <1>8, BusyStep

\* In every mode, for every layer and however the parties' answers interleave,
\* the scheduler runs the loop nest: it gives the core every pass once and in
\* order, with the PSUM bank that its place calls for, in the drained modes never
\* more than one ahead of the drain, and it ends when every pass was collected.
THEOREM LoopNestRefined == Spec => LoopSpec
<1>1. Init => Loop!LoopInit
  BY DEF Init, Loop!LoopInit
<1>2. IInv /\ IInv' /\ [Next]_vars => [Loop!Begin \/ Loop!Work \/ Loop!End]_Loop!loopVars
  <2> SUFFICES ASSUME IInv, IInv', [Next]_vars
               PROVE  [Loop!Begin \/ Loop!Work \/ Loop!End]_Loop!loopVars
    OBVIOUS
  <2>1. CASE Next
    BY <2>1, LoopStep DEF Next
  <2>2. CASE UNCHANGED vars
    BY <2>2 DEF vars, historyVars, Loop!loopVars
  <2> QED BY <2>1, <2>2
<1> QED
  BY <1>1, <1>2, SchedulerInvariant, PTL DEF Spec, LoopSpec, Loop!LoopSpec

=============================================================================
