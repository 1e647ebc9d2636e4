----------------------------- MODULE EpochBuffer -----------------------------
(***************************************************************************)
(* systolic/ifm_vector_epoch_buffer.v: two banks of input vectors, each    *)
(* owned by one compute context (its epoch) from allocation to release.    *)
(*                                                                         *)
(* BufferEdge is one rising clock edge.  It takes the assignments to the   *)
(* six ports; the readys and outputs are computed from the registers       *)
(* before the edge.  A vector enters and leaves atomically, so it is one   *)
(* value.  The performance counters and reader_context_done, which no      *)
(* instance connects, are left out.                                        *)
(***************************************************************************)
EXTENDS Naturals, Sequences

CONSTANTS
  DEPTH,        \* parameter DEPTH: the vectors of a bank
  EpochCount,   \* 2^EPOCH_W
  Vector,       \* the vectors
  ZeroVector    \* the value the read registers are reset to

ASSUME DepthAssumption == DEPTH \in Nat \ {0}
ASSUME EpochAssumption == EpochCount \in Nat \ {0, 1}

Banks == {0, 1}
Epochs == 0 .. EpochCount - 1
Other(b) == 1 - b

VARIABLES
  allocated_q, committed_q, epoch_q, expected_q,            \* per bank: owner
  produced_q, write_open_q, issued_q, consumed_q,           \* per bank: credits
  lookahead_pending_q, lookahead_valid_q, lookahead_data_q, \* per bank
  mem, mem_rd_data,                                         \* per bank: the RAM
  reader_active_q, reader_bank_q, reader_epoch_q,           \* the reader
  rd_valid_q, rd_bank_q, rd_epoch_q, rd_last_q,             \* the output slot
  rd_from_lookahead_q, rd_lookahead_data_q,
  buffer_error                                              \* the sticky errors

ownerVars == <<allocated_q, committed_q, epoch_q, expected_q>>
creditVars == <<produced_q, write_open_q, issued_q, consumed_q>>
lookaheadVars == <<lookahead_pending_q, lookahead_valid_q, lookahead_data_q>>
memVars == <<mem, mem_rd_data>>
readerVars == <<reader_active_q, reader_bank_q, reader_epoch_q>>
outputVars == <<rd_valid_q, rd_bank_q, rd_epoch_q, rd_last_q,
                rd_from_lookahead_q, rd_lookahead_data_q>>
bufferVars == <<ownerVars, creditVars, lookaheadVars, memVars, readerVars,
                outputVars, buffer_error>>

-----------------------------------------------------------------------------
(* Readys and outputs.  A port is a record with valid, bank, epoch, ...    *)

Owns(p) == allocated_q[p.bank] /\ p.epoch = epoch_q[p.bank]

output_pop(rd_ready) == rd_valid_q /\ rd_ready
output_finishes_context(rd_ready) == output_pop(rd_ready) /\ rd_last_q

issue_read(rd_ready) ==
  /\ reader_active_q
  /\ issued_q[reader_bank_q] < produced_q[reader_bank_q]
  /\ ~rd_valid_q \/ rd_ready

alloc_ready(p) ==
  ~allocated_q[p.bank] /\ p.expected # 0 /\ p.expected <= DEPTH
wr_ready(p) == Owns(p) /\ write_open_q[p.bank]
commit_ready(p) ==
  Owns(p) /\ ~committed_q[p.bank] /\ produced_q[p.bank] = expected_q[p.bank]

\* A context may be selected on the edge that takes the last vector of the one
\* before it.
select_ready(p, rd_ready) ==
  (~reader_active_q \/ output_finishes_context(rd_ready)) /\ Owns(p)

release_ready(p) ==
  /\ Owns(p) /\ committed_q[p.bank]
  /\ issued_q[p.bank] = expected_q[p.bank]
  /\ consumed_q[p.bank] = expected_q[p.bank]
  /\ ~(reader_active_q /\ reader_bank_q = p.bank /\ rd_valid_q)

\* The first vector of the selected bank is already, or just now, out of RAM.
select_lookahead_hit(p, rd_ready) ==
  /\ p.valid /\ select_ready(p, rd_ready)
  /\ issued_q[p.bank] = 0
  /\ lookahead_valid_q[p.bank] \/ lookahead_pending_q[p.bank]

\* Mutant: the idle read port does not wait for the first vector.
lookahead_rd_enEager(b, select, rd_ready) ==
  /\ allocated_q[b] /\ issued_q[b] = 0
  /\ ~reader_active_q \/ reader_bank_q # b
  /\ ~lookahead_pending_q[b] /\ ~lookahead_valid_q[b]
  /\ ~(select.valid /\ select_ready(select, rd_ready) /\ select.bank = b)

\* The idle read port of a bank fetches entry zero ahead of the selection.
lookahead_rd_en(b, select, rd_ready) ==
  /\ allocated_q[b] /\ produced_q[b] # 0 /\ issued_q[b] = 0
  /\ ~reader_active_q \/ reader_bank_q # b
  /\ ~lookahead_pending_q[b] /\ ~lookahead_valid_q[b]
  /\ ~(select.valid /\ select_ready(select, rd_ready) /\ select.bank = b)

rd_data == IF rd_from_lookahead_q THEN rd_lookahead_data_q
           ELSE mem_rd_data[rd_bank_q]

\* Refused requests that are not ordinary backpressure.
ErrorsRaised(alloc, wr, commit, select, rd_ready, release) ==
  LET epoch == \/ wr.valid /\ ~Owns(wr)
               \/ commit.valid /\ ~Owns(commit)
               \/ select.valid /\ ~reader_active_q /\ ~Owns(select)
               \/ release.valid /\ ~Owns(release)
      overflow == wr.valid /\ Owns(wr) /\ ~write_open_q[wr.bank]
      protocol == \/ /\ alloc.valid /\ ~alloc_ready(alloc)
                     /\ ~allocated_q[alloc.bank]
                  \/ /\ commit.valid /\ Owns(commit)
                     /\ produced_q[commit.bank] > expected_q[commit.bank]
  IN {e \in {"epoch", "overflow", "protocol"} :
        \/ e = "epoch" /\ epoch
        \/ e = "overflow" /\ overflow
        \/ e = "protocol" /\ protocol}

-----------------------------------------------------------------------------
BufferInit ==
  /\ allocated_q = [b \in Banks |-> FALSE]
  /\ committed_q = [b \in Banks |-> FALSE]
  /\ epoch_q = [b \in Banks |-> 0] /\ expected_q = [b \in Banks |-> 0]
  /\ produced_q = [b \in Banks |-> 0]
  /\ write_open_q = [b \in Banks |-> FALSE]
  /\ issued_q = [b \in Banks |-> 0] /\ consumed_q = [b \in Banks |-> 0]
  /\ lookahead_pending_q = [b \in Banks |-> FALSE]
  /\ lookahead_valid_q = [b \in Banks |-> FALSE]
  /\ lookahead_data_q = [b \in Banks |-> ZeroVector]
  /\ mem = [b \in Banks |-> [a \in 0 .. DEPTH - 1 |-> ZeroVector]]
  /\ mem_rd_data = [b \in Banks |-> ZeroVector]
  /\ reader_active_q = FALSE /\ reader_bank_q = 0 /\ reader_epoch_q = 0
  /\ rd_valid_q = FALSE /\ rd_bank_q = 0 /\ rd_epoch_q = 0 /\ rd_last_q = FALSE
  /\ rd_from_lookahead_q = FALSE /\ rd_lookahead_data_q = ZeroVector
  /\ buffer_error = {}

OwnerEdge(alloc, commit, release) ==
  LET allocates(b) == alloc.valid /\ alloc.bank = b /\ alloc_ready(alloc)
      commits(b) == commit.valid /\ commit.bank = b /\ commit_ready(commit)
      releases(b) == release.valid /\ release.bank = b /\ release_ready(release)
  IN /\ allocated_q' = [b \in Banks |->
          (allocated_q[b] \/ allocates(b)) /\ ~releases(b)]
     /\ committed_q' = [b \in Banks |->
          /\ commits(b) \/ (committed_q[b] /\ ~allocates(b))
          /\ ~releases(b)]
     /\ epoch_q' = [b \in Banks |->
          IF allocates(b) THEN alloc.epoch ELSE epoch_q[b]]
     /\ expected_q' = [b \in Banks |->
          IF allocates(b) THEN alloc.expected ELSE expected_q[b]]

\* The final legal vector closes the bank on the edge that accepts it.
CreditEdge(alloc, wr, select, rd_ready, release) ==
  LET allocates(b) == alloc.valid /\ alloc.bank = b /\ alloc_ready(alloc)
      writes(b) == wr.valid /\ wr.bank = b /\ wr_ready(wr)
      releases(b) == release.valid /\ release.bank = b /\ release_ready(release)
      issues(b) == \/ issue_read(rd_ready) /\ reader_bank_q = b
                   \/ select_lookahead_hit(select, rd_ready) /\ select.bank = b
      pops(b) == output_pop(rd_ready) /\ reader_bank_q = b
  IN /\ produced_q' = [b \in Banks |->
          IF writes(b) THEN produced_q[b] + 1
          ELSE IF allocates(b) THEN 0 ELSE produced_q[b]]
     /\ write_open_q' = [b \in Banks |->
          /\ write_open_q[b] \/ allocates(b)
          /\ ~(writes(b) /\ produced_q[b] + 1 = expected_q[b])
          /\ ~releases(b)]
     /\ issued_q' = [b \in Banks |->
          IF issues(b) THEN issued_q[b] + 1
          ELSE IF allocates(b) THEN 0 ELSE issued_q[b]]
     /\ consumed_q' = [b \in Banks |->
          IF pops(b) THEN consumed_q[b] + 1
          ELSE IF allocates(b) THEN 0 ELSE consumed_q[b]]

\* A lookahead read returns one edge after its request, and is captured then
\* unless the bank is selected, reallocated or released on that very edge.
LookaheadEdge(alloc, select, rd_ready, release) ==
  LET drops(b) ==
        \/ alloc.valid /\ alloc.bank = b /\ alloc_ready(alloc)
        \/ select_lookahead_hit(select, rd_ready) /\ select.bank = b
        \/ release.valid /\ release.bank = b /\ release_ready(release)
  IN /\ lookahead_pending_q' = [b \in Banks |->
          lookahead_rd_en(b, select, rd_ready) /\ ~drops(b)]
     /\ lookahead_valid_q' = [b \in Banks |->
          (lookahead_pending_q[b] \/ lookahead_valid_q[b]) /\ ~drops(b)]
     /\ lookahead_data_q' = [b \in Banks |->
          IF lookahead_pending_q[b] THEN mem_rd_data[b] ELSE lookahead_data_q[b]]

\* The RAM returns the word that was there before a write of the same edge.
MemEdge(wr, select, rd_ready) ==
  LET active(b) == issue_read(rd_ready) /\ reader_bank_q = b
  IN /\ mem' = IF wr.valid /\ wr_ready(wr)
               THEN [mem EXCEPT ![wr.bank][produced_q[wr.bank] % DEPTH] = wr.data]
               ELSE mem
     /\ mem_rd_data' = [b \in Banks |->
          IF active(b) THEN mem[b][issued_q[b] % DEPTH]
          ELSE IF lookahead_rd_en(b, select, rd_ready) THEN mem[b][0]
          ELSE mem_rd_data[b]]

ReaderEdge(select, rd_ready, release) ==
  LET selects == select.valid /\ select_ready(select, rd_ready)
      releases == /\ release.valid /\ release_ready(release)
                  /\ reader_active_q /\ reader_bank_q = release.bank
  IN /\ reader_active_q' =
          /\ ~releases
          /\ selects \/ (reader_active_q /\ ~output_finishes_context(rd_ready))
     /\ reader_bank_q' = IF selects THEN select.bank ELSE reader_bank_q
     /\ reader_epoch_q' = IF selects THEN select.epoch ELSE reader_epoch_q

\* The output slot takes the lookahead word of a selection or an issued read.
OutputEdge(select, rd_ready) ==
  LET hit == select_lookahead_hit(select, rd_ready)
      issues == issue_read(rd_ready)
      b == IF issues THEN reader_bank_q ELSE select.bank
  IN /\ rd_valid_q' = (hit \/ issues \/ (rd_valid_q /\ ~rd_ready))
     /\ IF hit \/ issues
        THEN /\ rd_bank_q' = b
             /\ rd_epoch_q' = IF issues THEN reader_epoch_q ELSE select.epoch
             /\ rd_last_q' = (issued_q[b] + 1 = expected_q[b])
        ELSE UNCHANGED <<rd_bank_q, rd_epoch_q, rd_last_q>>
     /\ rd_from_lookahead_q' =
          (hit \/ (rd_from_lookahead_q /\ ~issues /\ ~output_pop(rd_ready)))
     /\ rd_lookahead_data_q' =
          IF ~hit THEN rd_lookahead_data_q
          ELSE IF lookahead_valid_q[select.bank]
               THEN lookahead_data_q[select.bank]
               ELSE mem_rd_data[select.bank]

BufferEdge(alloc, wr, commit, select, rd_ready, release) ==
  /\ OwnerEdge(alloc, commit, release)
  /\ CreditEdge(alloc, wr, select, rd_ready, release)
  /\ LookaheadEdge(alloc, select, rd_ready, release)
  /\ MemEdge(wr, select, rd_ready)
  /\ ReaderEdge(select, rd_ready, release)
  /\ OutputEdge(select, rd_ready)
  /\ buffer_error' = buffer_error \cup
       ErrorsRaised(alloc, wr, commit, select, rd_ready, release)

-----------------------------------------------------------------------------
\* The vectors of bank b that no one has taken yet, as the stream presents them.
Unread(b) ==
  [k \in 1 .. produced_q[b] - consumed_q[b] |->
     [data |-> mem[b][consumed_q[b] + k - 1], bank |-> b, epoch |-> epoch_q[b],
      last |-> consumed_q[b] + k = expected_q[b]]]

\* The vector at the output.
Offered == [data |-> rd_data, bank |-> rd_bank_q, epoch |-> rd_epoch_q,
            last |-> rd_last_q]

BufferTypeOK ==
  /\ allocated_q \in [Banks -> BOOLEAN] /\ committed_q \in [Banks -> BOOLEAN]
  /\ epoch_q \in [Banks -> Epochs] /\ expected_q \in [Banks -> 0 .. DEPTH]
  /\ produced_q \in [Banks -> 0 .. DEPTH] /\ write_open_q \in [Banks -> BOOLEAN]
  /\ issued_q \in [Banks -> 0 .. DEPTH] /\ consumed_q \in [Banks -> 0 .. DEPTH]
  /\ lookahead_pending_q \in [Banks -> BOOLEAN]
  /\ lookahead_valid_q \in [Banks -> BOOLEAN]
  /\ lookahead_data_q \in [Banks -> Vector \cup {ZeroVector}]
  /\ mem \in [Banks -> [0 .. DEPTH - 1 -> Vector \cup {ZeroVector}]]
  /\ mem_rd_data \in [Banks -> Vector \cup {ZeroVector}]
  /\ reader_active_q \in BOOLEAN /\ reader_bank_q \in Banks
  /\ reader_epoch_q \in Epochs
  /\ rd_valid_q \in BOOLEAN /\ rd_bank_q \in Banks /\ rd_epoch_q \in Epochs
  /\ rd_last_q \in BOOLEAN /\ rd_from_lookahead_q \in BOOLEAN
  /\ rd_lookahead_data_q \in Vector \cup {ZeroVector}
  /\ buffer_error \in SUBSET {"epoch", "overflow", "protocol"}
=============================================================================
