---------------------------- MODULE WeightPreloader ----------------------------
(***************************************************************************)
(* systolic/weight_context_preloader.v: the background loader of the       *)
(* array's two banks of stationary weights.  Allocations and credits for   *)
(* complete tiles come independently and are paired in order.              *)
(*                                                                         *)
(* One action is one rising clock edge.  The row FIFOs are read together   *)
(* and hold the same number of words, so they are one sequence of columns; *)
(* a word is its column and the data of its tile.  soft_reset is tied low  *)
(* by systolic_top_tagged.v.                                               *)
(***************************************************************************)
EXTENDS Naturals, Sequences

CONSTANTS
  COLS,           \* parameter COLS
  Epoch,          \* values of an epoch
  NoData          \* what the array holds before it is first written

ASSUME ColsAssumption == COLS \in Nat \ {0}
ASSUME EpochAssumption == Epoch # {}

VARIABLES
  bank_state, bank_epoch, bank_epoch_valid,           \* bank*_q
  desc,                                               \* desc_*_q, a queue
  credit_count_q,
  loading_q, loading_bank_q, issue_col_q, reads_done_q,
  read_pending_q, read_bank_q, read_col_q,
  sticky_protocol_error_q, sticky_owner_error_q, sticky_epoch_error_q,
  row_fifo, row_fifo_rd_data,                         \* the row FIFOs
  array                                               \* the array's weights

bankVars == <<bank_state, bank_epoch, bank_epoch_valid>>
queueVars == <<desc, credit_count_q>>
loadVars == <<loading_q, loading_bank_q, issue_col_q, reads_done_q>>
readVars == <<read_pending_q, read_bank_q, read_col_q, row_fifo_rd_data, array>>
errorVars ==
  <<sticky_protocol_error_q, sticky_owner_error_q, sticky_epoch_error_q>>
preloadVars == <<bankVars, queueVars, loadVars, readVars, errorVars>>

Bank == {0, 1}
Column == 0 .. COLS - 1
BankStates ==
  {"EMPTY", "RESERVED", "LOADING", "READY", "ACTIVE", "RETIRING"}

\* A request names a bank and an epoch; a port carries at most one.
Request == [bank : Bank, epoch : Epoch]
Port(S) == {{}} \cup {{r} : r \in S}

any_error ==
  sticky_protocol_error_q \/ sticky_owner_error_q \/ sticky_epoch_error_q

-----------------------------------------------------------------------------
(* Allocation and credits *)

\* Mutant: a bank may be reserved while a context has it.
alloc_base_readyOwned(r) == Len(desc) < 2 /\ ~any_error

alloc_base_ready(r) ==
  Len(desc) < 2 /\ bank_state[r.bank] = "EMPTY" /\ ~any_error
alloc_epoch_conflict(r) ==
  bank_epoch_valid[1 - r.bank] /\ bank_epoch[1 - r.bank] = r.epoch

alloc_ready(r) == alloc_base_ready(r) /\ ~alloc_epoch_conflict(r)
allocated(in) == {r \in in.alloc : alloc_ready(r)}

all_rows_nonempty == row_fifo # <<>>

have_load_pair == ~loading_q /\ desc # <<>> /\ credit_count_q # 0
head_descriptor_match ==
  /\ bank_state[Head(desc).bank] = "RESERVED"
  /\ bank_epoch_valid[Head(desc).bank]
  /\ bank_epoch[Head(desc).bank] = Head(desc).epoch
begin_load ==
  /\ have_load_pair /\ head_descriptor_match /\ all_rows_nonempty
  /\ ~any_error

row_fifo_rd_en ==
  loading_q /\ ~reads_done_q /\ all_rows_nonempty /\ ~any_error

\* Mutant: a word that was read before an error is written after it.
array_w_loadUnstopped == read_pending_q

array_w_load == read_pending_q /\ ~any_error

\* Mutant: a tile is ready one column early.
preload_commit_eventEarly == array_w_load /\ read_col_q + 2 >= COLS

preload_commit_event == array_w_load /\ read_col_q = COLS - 1

weight_tile_credit_ready ==
  (credit_count_q < 2 \/ preload_commit_event) /\ ~any_error
credit_fire(in) == in.credit /\ weight_tile_credit_ready

\* A load that lacks its bank, or words in the FIFOs that a credit promised.
descriptor_protocol_error ==
  have_load_pair /\ ~head_descriptor_match /\ ~any_error
row_protocol_error ==
  /\ \/ have_load_pair /\ head_descriptor_match
     \/ loading_q /\ ~reads_done_q
  /\ ~all_rows_nonempty /\ ~any_error

-----------------------------------------------------------------------------
(* Start and retirement of a context *)

epoch_matches(r) == bank_epoch_valid[r.bank] /\ bank_epoch[r.bank] = r.epoch

start_ready(r) ==
  ~any_error /\ bank_state[r.bank] = "READY" /\ epoch_matches(r)
retire_match(r) ==
  ~any_error /\ bank_state[r.bank] = "ACTIVE" /\ epoch_matches(r)
started(in) == {r \in in.start : start_ready(r)}
retired(in) == {r \in in.retire : retire_match(r)}

owner_error(in) ==
  /\ ~any_error
  /\ \/ \E r \in in.start : bank_state[r.bank] # "READY"
     \/ \E r \in in.retire : bank_state[r.bank] # "ACTIVE"

epoch_error(in) ==
  /\ ~any_error
  /\ \/ \E r \in in.alloc : alloc_base_ready(r) /\ alloc_epoch_conflict(r)
     \/ \E r \in in.start : bank_state[r.bank] = "READY" /\ ~epoch_matches(r)
     \/ \E r \in in.retire :
          bank_state[r.bank] = "ACTIVE" /\ ~epoch_matches(r)

-----------------------------------------------------------------------------
PreloadInit ==
  /\ bank_state = [b \in Bank |-> "EMPTY"]
  /\ bank_epoch = [b \in Bank |-> CHOOSE e \in Epoch : TRUE]
  /\ bank_epoch_valid = [b \in Bank |-> FALSE]
  /\ desc = <<>> /\ credit_count_q = 0
  /\ loading_q = FALSE /\ loading_bank_q = 0
  /\ issue_col_q = 0 /\ reads_done_q = FALSE
  /\ read_pending_q = FALSE /\ read_bank_q = 0 /\ read_col_q = 0
  /\ sticky_protocol_error_q = FALSE /\ sticky_owner_error_q = FALSE
  /\ sticky_epoch_error_q = FALSE
  /\ row_fifo_rd_data = NoData
  /\ array = [b \in Bank |-> [c \in Column |-> NoData]]

\* The later assignment to a bank's state wins.
BankStateNext(in, b) ==
  IF \E r \in retired(in) : r.bank = b THEN "RETIRING"
  ELSE IF \E r \in started(in) : r.bank = b THEN "ACTIVE"
  ELSE IF preload_commit_event /\ loading_bank_q = b THEN "READY"
  ELSE IF \E r \in allocated(in) : r.bank = b THEN "RESERVED"
  ELSE IF begin_load /\ Head(desc).bank = b THEN "LOADING"
  ELSE IF bank_state[b] = "RETIRING" THEN "EMPTY"
  ELSE bank_state[b]

BankEdge(in) ==
  /\ bank_state' = [b \in Bank |-> BankStateNext(in, b)]
  /\ bank_epoch' =
       [b \in Bank |-> IF \E r \in allocated(in) : r.bank = b
                       THEN (CHOOSE r \in allocated(in) : r.bank = b).epoch
                       ELSE bank_epoch[b]]
  /\ bank_epoch_valid' =
       [b \in Bank |-> \/ \E r \in allocated(in) : r.bank = b
                       \/ (bank_epoch_valid[b] /\ bank_state[b] # "RETIRING")]

QueueEdge(in) ==
  /\ \E rest \in {IF preload_commit_event THEN Tail(desc) ELSE desc} :
       IF allocated(in) = {} THEN desc' = rest
       ELSE \E r \in allocated(in) : desc' = Append(rest, r)
  /\ credit_count_q' = credit_count_q + (IF credit_fire(in) THEN 1 ELSE 0)
                         - (IF preload_commit_event THEN 1 ELSE 0)

IssueColNext ==
  IF begin_load THEN 0
  ELSE IF row_fifo_rd_en /\ issue_col_q # COLS - 1 THEN issue_col_q + 1
  ELSE issue_col_q

LoadEdge ==
  /\ loading_q' = ((loading_q \/ begin_load) /\ ~preload_commit_event)
  /\ loading_bank_q' = IF begin_load THEN Head(desc).bank ELSE loading_bank_q
  /\ issue_col_q' = IssueColNext
  /\ reads_done_q' =
       /\ reads_done_q \/ (row_fifo_rd_en /\ issue_col_q = COLS - 1)
       /\ ~begin_load /\ ~preload_commit_event

\* The FIFOs answer a read, and the array stores a word, one edge later.
ReadEdge ==
  /\ read_pending_q' = row_fifo_rd_en
  /\ IF row_fifo_rd_en
     THEN /\ read_bank_q' = loading_bank_q /\ read_col_q' = issue_col_q
          /\ row_fifo_rd_data' = Head(row_fifo)
     ELSE UNCHANGED <<read_bank_q, read_col_q, row_fifo_rd_data>>
  /\ array' = IF array_w_load
              THEN [array EXCEPT ![read_bank_q][read_col_q] = row_fifo_rd_data]
              ELSE array

ErrorEdge(in) ==
  /\ sticky_protocol_error_q' =
       (sticky_protocol_error_q \/ descriptor_protocol_error \/ row_protocol_error)
  /\ sticky_owner_error_q' = (sticky_owner_error_q \/ owner_error(in))
  /\ sticky_epoch_error_q' = (sticky_epoch_error_q \/ epoch_error(in))

\* What an edge leaves in the row FIFOs, before the formatter writes.
FifoLeft == IF row_fifo_rd_en THEN Tail(row_fifo) ELSE row_fifo

PreloadEdge(in) ==
  /\ BankEdge(in) /\ QueueEdge(in) /\ LoadEdge /\ ReadEdge /\ ErrorEdge(in)
=============================================================================
