---------------------------- MODULE WeightRequests ----------------------------
(***************************************************************************)
(* The weight preloader under any sequence of allocations, starts and      *)
(* retirements, wrong ones included, with a formatter that keeps its word: *)
(* it writes tile after tile, column after column, and gives a credit for  *)
(* a tile only when all of it is in the row FIFOs.                         *)
(***************************************************************************)
EXTENDS WeightPreloader

CONSTANTS
  FIFO_DEPTH,     \* WGT_FIFO_DEPTH
  TileMod         \* tiles are numbered modulo this, more than can be about

ASSUME FifoAssumption == FIFO_DEPTH \in Nat \ {0} /\ TileMod \in Nat \ {0}

VARIABLES
  tile, column,   \* the word that the formatter writes next
  complete,       \* tiles in the FIFOs whose credit was not taken yet
  allocations,    \* contexts admitted
  bank_tile       \* for each bank, the tile its context should get

writerVars == <<tile, column, complete>>
historyVars == <<allocations, bank_tile>>
vars == <<preloadVars, row_fifo, writerVars, historyVars>>

Word(t, c) == [tile |-> t, col |-> c]

Init ==
  /\ PreloadInit /\ row_fifo = <<>>
  /\ tile = 0 /\ column = 0 /\ complete = 0
  /\ allocations = 0 /\ bank_tile = [b \in Bank |-> 0]

WriterEdge(in) ==
  /\ row_fifo' = IF in.write THEN Append(FifoLeft, Word(tile, column))
                 ELSE FifoLeft
  /\ column' = IF in.write THEN (column + 1) % COLS ELSE column
  /\ tile' = IF in.write /\ column = COLS - 1 THEN (tile + 1) % TileMod ELSE tile
  /\ complete' = complete - (IF credit_fire(in) THEN 1 ELSE 0)
                   + (IF in.write /\ column = COLS - 1 THEN 1 ELSE 0)

HistoryEdge(in) ==
  IF allocated(in) = {} THEN UNCHANGED historyVars
  ELSE /\ allocations' = (allocations + 1) % TileMod
       /\ \E r \in allocated(in) :
            bank_tile' = [bank_tile EXCEPT ![r.bank] = allocations]

Edge(in) == PreloadEdge(in) /\ WriterEdge(in) /\ HistoryEdge(in)

\* A reset reaches the FIFOs and their writer too; the array keeps its words.
Reset ==
  /\ bank_state' = [b \in Bank |-> "EMPTY"]
  /\ bank_epoch' = [b \in Bank |-> CHOOSE e \in Epoch : TRUE]
  /\ bank_epoch_valid' = [b \in Bank |-> FALSE]
  /\ desc' = <<>> /\ credit_count_q' = 0
  /\ loading_q' = FALSE /\ loading_bank_q' = 0
  /\ issue_col_q' = 0 /\ reads_done_q' = FALSE
  /\ read_pending_q' = FALSE /\ read_bank_q' = 0 /\ read_col_q' = 0
  /\ sticky_protocol_error_q' = FALSE /\ sticky_owner_error_q' = FALSE
  /\ sticky_epoch_error_q' = FALSE
  /\ row_fifo_rd_data' = NoData /\ array' = array /\ row_fifo' = <<>>
  /\ tile' = 0 /\ column' = 0 /\ complete' = 0
  /\ allocations' = 0 /\ bank_tile' = [b \in Bank |-> 0]

OneOf(S) == IF S = {} THEN {} ELSE {CHOOSE r \in S : TRUE}

\* Refused requests have no effect, and of the wrong ones that raise the same
\* error one stands for all.
AllocRequests ==
  {r \in Request : alloc_ready(r)}
    \cup OneOf({r \in Request : alloc_base_ready(r) /\ alloc_epoch_conflict(r)})
EventRequests(state) ==
  IF any_error THEN {}
  ELSE {r \in Request : bank_state[r.bank] = state /\ epoch_matches(r)}
         \cup OneOf({r \in Request : bank_state[r.bank] # state})
         \cup OneOf({r \in Request :
                       bank_state[r.bank] = state /\ ~epoch_matches(r)})

Inputs ==
  [alloc : Port(AllocRequests),
   start : Port(EventRequests("READY")), retire : Port(EventRequests("ACTIVE")),
   credit : IF complete # 0 THEN BOOLEAN ELSE {FALSE},
   write : IF Len(row_fifo) < FIFO_DEPTH THEN BOOLEAN ELSE {FALSE}]

Next == (\E in \in Inputs : Edge(in)) \/ Reset

Spec == Init /\ [][Next]_vars

-----------------------------------------------------------------------------
Words == [tile : 0 .. TileMod - 1, col : Column]

TypeOK ==
  /\ bank_state \in [Bank -> BankStates]
  /\ bank_epoch \in [Bank -> Epoch]
  /\ bank_epoch_valid \in [Bank -> BOOLEAN]
  /\ desc \in Seq(Request) /\ Len(desc) <= 2
  /\ credit_count_q \in 0 .. 2
  /\ loading_q \in BOOLEAN /\ loading_bank_q \in Bank
  /\ issue_col_q \in Column /\ reads_done_q \in BOOLEAN
  /\ read_pending_q \in BOOLEAN /\ read_bank_q \in Bank /\ read_col_q \in Column
  /\ sticky_protocol_error_q \in BOOLEAN
  /\ sticky_owner_error_q \in BOOLEAN /\ sticky_epoch_error_q \in BOOLEAN
  /\ row_fifo \in Seq(Words)
  /\ tile \in 0 .. TileMod - 1 /\ column \in Column /\ complete \in Nat

Queued(b) == \E k \in 1 .. Len(desc) : desc[k].bank = b

\* The states of the banks follow from the queue and the loader: the bank being
\* loaded is the head's, another queued one waits, and no bank waits that is
\* not queued.
QueueAgrees ==
  /\ \A b \in Bank : bank_epoch_valid[b] <=> bank_state[b] # "EMPTY"
  /\ loading_q => /\ desc # <<>> /\ Head(desc).bank = loading_bank_q
                  /\ credit_count_q # 0
  /\ \A b \in Bank : bank_state[b] = "LOADING" <=> loading_q /\ loading_bank_q = b
  /\ \A b \in Bank : bank_state[b] \in {"RESERVED", "LOADING"} <=> Queued(b)
  /\ \A k \in 1 .. Len(desc) : desc[k].epoch = bank_epoch[desc[k].bank]
  /\ Len(desc) = 2 => desc[1].bank # desc[2].bank

\* Columns that the current load has taken out of the FIFOs.
Issued == IF ~loading_q THEN 0 ELSE IF reads_done_q THEN COLS ELSE issue_col_q

\* A credit is given back when the last column is stored, so the FIFOs hold the
\* columns of every tile that was credited or will be, less those of the load.
FifoCounted ==
  /\ Len(row_fifo) + Issued = COLS * (credit_count_q + complete) + column
  /\ read_pending_q => loading_q
  /\ read_pending_q /\ read_col_q = COLS - 1 => reads_done_q

\* Pairing: a bank that is ready, in use or just retired holds every column of
\* the tile that belongs to its context, though allocations and tiles come at
\* their own pace.
WeightsComplete ==
  \A b \in Bank :
    bank_state[b] \in {"READY", "ACTIVE", "RETIRING"} =>
      \A c \in Column : array[b][c] = Word(bank_tile[b], c)

\* "A tile credit promises that every synchronous row FIFO contains COLS words":
\* if it is kept, no sequence of requests makes the loader find its bank taken
\* or its words missing.
LoadsFindTheirs == ~sticky_protocol_error_q

\* Two banks in use never have the same epoch, by which results are told apart.
EpochsDiffer ==
  bank_epoch_valid[0] /\ bank_epoch_valid[1] => bank_epoch[0] # bank_epoch[1]

\* The invariant by which these are proved.
IInv ==
  TypeOK /\ QueueAgrees /\ FifoCounted /\ LoadsFindTheirs /\ EpochsDiffer

\* "Violations fail closed": after an error no bank is given out, loaded or
\* started, nothing is written to the array, until a reset.
FailsClosed ==
  [][any_error /\ any_error' =>
       /\ UNCHANGED <<array, desc, credit_count_q>>
       /\ \A b \in Bank : bank_state'[b] # bank_state[b] =>
            bank_state[b] = "RETIRING" /\ bank_state'[b] = "EMPTY"]_vars
=============================================================================
