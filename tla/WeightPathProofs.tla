--------------------------- MODULE WeightPathProofs ---------------------------
(***************************************************************************)
(* Proofs about WeightPath, for every size of the array, of a packet and   *)
(* of the row FIFOs, every set of layers, and however the stream, the      *)
(* scheduler and the core time their moves: no error is ever raised, and   *)
(* every bank in use holds the weights of its own tile.                    *)
(*                                                                         *)
(* The argument.  The tiles of a layer are numbered in the order of the    *)
(* passes.  Each stage works through them in that order, so what the path  *)
(* has done is a count per stage, and the registers say how far apart the  *)
(* counts are: a tile is stored, formatted, credited, loaded, started and  *)
(* retired, never out of turn (Counted).  From a tile's number follow the  *)
(* staging bank it is in (Staged), the words of it in the row FIFOs        *)
(* (Lined) and the epoch of its context (Owned).  So the number that the   *)
(* front end put on a bank and the number that the words carry, which no   *)
(* wire compares, are the same when they meet in the array (Kept).  First  *)
(* the counts and what each pulse needs; then how each edge moves every    *)
(* part, one lemma per conjunct of the invariant; then the edge at which a *)
(* new layer starts, which leaves the state of Fresh; at the end the       *)
(* theorems.                                                               *)
(***************************************************************************)
EXTENDS WeightPath, Integers, SequenceTheorems, TLAPS

-----------------------------------------------------------------------------
(* The tiles of the layer are numbered in the order of the passes.  These     *)
(* count those that got through each stage.                                  *)
Num(condition) == IF condition THEN 1 ELSE 0

Consumed == demanded - Num(sched_weight_start \/ weight_format_pending_q)
Stored == Consumed + Len(committed)
Formatted == Consumed - Num(format_busy_q)
Credited == Formatted - Num(weight_tile_complete_valid)
Loaded == admitted - Len(desc)
Started == admitted - Len(ready)
Retired == admitted - Len(ready) - Len(running)

Packet(n) == [i \in Beat |-> Tile(n)]

\* The context of tile n.
Held(n) == IF n < Started THEN running[n - Retired + 1] ELSE ready[n - Started + 1]

\* Words are numbered through the layer, column after column.
At(p) == Word(Packet(p \div COLS), p % COLS)

\* Columns that the running load has taken, and those it has stored.
Issued == IF ~loading_q THEN 0 ELSE IF reads_done_q THEN COLS ELSE issue_col_q
Arrived == Issued - Num(read_pending_q)
ReadPlace == COLS * Loaded + Issued
WritePlace == COLS * Formatted + format_col_q

\* Beats of the packet in the filled bank, and those received.
Received == IF weight_tile_ready THEN BEATS ELSE weight_count
Written == Received - Num(wgt_tile_wr8 # {})

-----------------------------------------------------------------------------
Flags ==
  /\ weight_busy \in BOOLEAN /\ weight_req_armed \in BOOLEAN
  /\ weight_tile_ready \in BOOLEAN /\ weight_req_r \in BOOLEAN
  /\ weight_ingress_more_q \in BOOLEAN /\ weight_format_pending_q \in BOOLEAN
  /\ weight_tile_complete_pending_q \in BOOLEAN /\ sched_weight_done \in BOOLEAN
  /\ fill_valid_q \in BOOLEAN /\ fill_touched_q \in BOOLEAN
  /\ format_busy_q \in BOOLEAN /\ wgt_loader_done \in BOOLEAN
  /\ loading_q \in BOOLEAN /\ reads_done_q \in BOOLEAN
  /\ read_pending_q \in BOOLEAN
  /\ sched_weight_start \in BOOLEAN /\ awaited \in BOOLEAN

Numbers ==
  /\ k_total \in Nat /\ cout_total \in Nat /\ parity \in {0, 1}
  /\ weight_ingress_k_q \in Nat /\ weight_ingress_cout_q \in Nat
  /\ sent \in Nat /\ demanded \in Nat /\ admitted \in Nat
  /\ weight_count \in Beat /\ credit_count_q \in 0 .. 2
  /\ fill_bank_q \in Bank /\ format_bank_q \in Bank /\ format_col_q \in Column
  /\ issue_col_q \in Column

Contexts == [bank : Bank, epoch : Nat, tile : [layer : {0, 1}, number : Nat]]

Structures ==
  /\ DOMAIN bank_state = Bank /\ DOMAIN bank_epoch = Bank
  /\ DOMAIN bank_epoch_valid = Bank
  /\ \A b \in Bank : bank_epoch_valid[b] \in BOOLEAN
  /\ DOMAIN occupied_q = Bank /\ \A b \in Bank : occupied_q[b] \in BOOLEAN
  /\ desc \in Seq([bank : Bank, epoch : Nat])
  /\ committed \in Seq(Bank)
  /\ ready \in Seq(Contexts) /\ running \in Seq(Contexts)
  /\ Len(row_fifo) \in Nat /\ row_fifo = [i \in 1 .. Len(row_fifo) |-> row_fifo[i]]
  /\ DOMAIN staged = Bank
  /\ \A b \in Bank : staged[b] = [i \in Beat |-> staged[b][i]]
  /\ DOMAIN array = Bank /\ \A b \in Bank : DOMAIN array[b] = Column
  /\ bank_state = [b \in Bank |-> bank_state[b]]

Typed == Flags /\ Numbers /\ Structures

\* A tile gets through the stages in turn; few are between two of them.
Counted ==
  /\ 0 <= Retired /\ Retired <= Started /\ Started <= Loaded
  /\ Loaded <= admitted /\ admitted <= Tiles /\ admitted <= Retired + 2
  /\ Credited = Loaded + credit_count_q
  /\ Formatted <= Stored /\ Stored <= Formatted + 2
  /\ Stored <= Tiles /\ demanded <= Tiles

\* A demand is at one place on its way, from the scheduler's pulse to the answer.
Demanded ==
  /\ ~(sched_weight_start /\ weight_format_pending_q)
  /\ ~(weight_tile_complete_pending_q /\ wgt_loader_done)
  /\ Num(sched_weight_start \/ weight_format_pending_q) + Num(format_busy_q)
       + Num(weight_tile_complete_valid) + Num(sched_weight_done) = Num(awaited)
  /\ sched_weight_done => credit_count_q > 0

\* The packets are asked for in the order of the passes, one after the other.
Asked ==
  /\ IF weight_ingress_more_q
     THEN /\ Stored = weight_ingress_cout_q * k_total + weight_ingress_k_q
          /\ weight_ingress_k_q < k_total /\ weight_ingress_cout_q < cout_total
     ELSE Stored = Tiles
  /\ weight_req_r => fill_valid_q /\ weight_ingress_more_q
  /\ weight_busy \/ weight_tile_ready => weight_req_r /\ ~weight_req_armed
  /\ ~(weight_busy /\ weight_tile_ready)
  /\ ~weight_busy => weight_count = 0
  /\ sent = Stored + Num(weight_tile_ready)

\* A packet fills the free bank beat after beat.
Filled ==
  /\ wgt_tile_wr8 # {} => /\ weight_busy \/ weight_tile_ready
                          /\ Received > 0
                          /\ wgt_tile_wr8 = {[addr |-> Received - 1, data |-> Tile(Stored)]}
  /\ weight_tile_ready => wgt_tile_wr8 # {}
  /\ weight_busy \/ weight_tile_ready =>
       \A i \in Beat : i < Written => staged[fill_bank_q][i] = Tile(Stored)

\* The two banks take turns.
Staged ==
  /\ \A k \in 1 .. Len(committed) : committed[k] = (Consumed + k - 1) % 2
  /\ \A b \in Bank : occupied_q[b] <=> \E n \in Formatted .. Stored - 1 : n % 2 = b
  /\ fill_valid_q <=> Stored < Formatted + 2
  /\ fill_valid_q => fill_bank_q = Stored % 2
  /\ format_busy_q => format_bank_q = Formatted % 2
  /\ ~format_busy_q => format_col_q = 0
  /\ \A n \in Formatted .. Stored - 1 : staged[n % 2] = Packet(n)

\* The row FIFOs hold what was written and is not yet read.
Lined ==
  /\ Len(row_fifo) <= FIFO_DEPTH
  /\ ReadPlace + Len(row_fifo) = WritePlace
  /\ \A i \in 1 .. Len(row_fifo) : row_fifo[i] = At(ReadPlace + i - 1)

\* Where the context of tile n is.
StateOf(n) ==
  IF n < Started THEN "ACTIVE" ELSE IF n < Loaded THEN "READY"
  ELSE IF n = Loaded /\ loading_q THEN "LOADING" ELSE "RESERVED"

Owned ==
  /\ \A n \in Retired .. admitted - 1 :
       /\ Held(n).tile = Tile(n) /\ Held(n).epoch = n % 3
       /\ bank_state[Held(n).bank] = StateOf(n)
       /\ bank_epoch[Held(n).bank] = n % 3
  /\ \A n, m \in Retired .. admitted - 1 : n # m => Held(n).bank # Held(m).bank
  /\ \A b \in Bank : bank_epoch_valid[b] <=> bank_state[b] # "EMPTY"
  /\ \A b \in Bank : (\A n \in Retired .. admitted - 1 : Held(n).bank # b) =>
       bank_state[b] \in {"EMPTY", "RETIRING"}
  /\ \A k \in 1 .. Len(desc) :
       /\ desc[k].bank = Held(Loaded + k - 1).bank
       /\ desc[k].epoch = Held(Loaded + k - 1).epoch

\* The running load.
Loading ==
  /\ loading_q => /\ desc # <<>> /\ credit_count_q > 0
                  /\ loading_bank_q = desc[1].bank
                  /\ reads_done_q => read_pending_q
                  /\ \A c \in Column : c < Arrived =>
                       array[loading_bank_q][c] = Word(Packet(Loaded), c)
  /\ ~loading_q => ~reads_done_q
  /\ read_pending_q => /\ loading_q /\ Issued > 0
                       /\ read_bank_q = loading_bank_q /\ read_col_q = Issued - 1
                       /\ row_fifo_rd_data = Word(Packet(Loaded), Issued - 1)

\* The tiles in the array.
Kept ==
  \A n \in Retired .. Loaded - 1 : \A c \in Column :
    array[Held(n).bank][c] = Word(Packet(n), c)

IInv == /\ Typed /\ NoWeightErrors /\ Counted /\ Demanded /\ Asked /\ Filled
        /\ Staged /\ Lined /\ Owned /\ Loading /\ Kept

-----------------------------------------------------------------------------
(* Arithmetic *)

LEMMA Times ==
  ASSUME NEW n \in Int
  PROVE  /\ COLS * n \in Int /\ COLS * (n + 1) \in Int
         /\ COLS * (n + 1) = COLS * n + COLS
         /\ n >= 0 => COLS * n >= 0
<1>1. COLS \in Nat \ {0}
  BY ColsAssumption
<1> QED BY <1>1, SMTT(30)

\* Products keep the order.
LEMMA TimesOrder ==
  ASSUME NEW m \in Nat, NEW n \in Nat, m < n
  PROVE  COLS * m + COLS <= COLS * n
<1>1. COLS * (m + 1) <= COLS * n
  BY m + 1 <= n, ColsAssumption, SMTT(30)
<1> QED BY <1>1, Times

\* The word of a column of a tile.
LEMMA WordAt ==
  ASSUME NEW n \in Nat, NEW c \in Column
  PROVE  At(COLS * n + c) = Word(Packet(n), c)
<1>1. COLS \in Nat \ {0} /\ c \in 0 .. COLS - 1
  BY ColsAssumption DEF Column
<1>2. (COLS * n + c) \div COLS = n /\ (COLS * n + c) % COLS = c
  BY <1>1, SMTT(60)
<1> QED BY <1>2 DEF At

LEMMA Turns ==
  ASSUME NEW n \in Nat
  PROVE  /\ n % 2 \in Bank /\ (n + 1) % 2 = 1 - (n % 2) /\ (n + 2) % 2 = n % 2
         /\ (n + 1) % 2 # n % 2
  BY SMTT(30) DEF Bank

-----------------------------------------------------------------------------
(* What the invariant says of the counts *)

LEMMA CountTypes ==
  ASSUME IInv
  PROVE  /\ Len(desc) \in Nat /\ Len(committed) \in Nat
         /\ Len(ready) \in Nat /\ Len(running) \in Nat
         /\ Retired \in Nat /\ Started \in Nat /\ Loaded \in Nat
         /\ Credited \in Nat /\ Formatted \in Nat /\ Consumed \in Nat
         /\ Stored \in Nat /\ Tiles \in Nat /\ admitted \in Nat /\ demanded \in Nat
<1>1. /\ desc \in Seq([bank : Bank, epoch : Nat]) /\ committed \in Seq(Bank)
      /\ ready \in Seq(Contexts) /\ running \in Seq(Contexts)
      /\ admitted \in Nat /\ demanded \in Nat /\ credit_count_q \in 0 .. 2
      /\ k_total \in Nat /\ cout_total \in Nat
  BY DEF IInv, Typed, Structures, Numbers
<1>2. /\ Len(desc) \in Nat /\ Len(committed) \in Nat
      /\ Len(ready) \in Nat /\ Len(running) \in Nat
  BY <1>1, LenProperties
<1>3. Retired \in Nat /\ Started \in Nat /\ Loaded \in Nat
  BY <1>1, <1>2 DEF IInv, Counted, Retired, Started, Loaded
<1>4. /\ Consumed \in Int /\ Formatted \in Int /\ Credited \in Int
      /\ Credited <= Formatted /\ Formatted <= Consumed
  BY <1>1 DEF Consumed, Formatted, Credited, Num
<1>5. Credited \in Nat
  BY <1>1, <1>3 DEF IInv, Counted
<1>6. Formatted \in Nat /\ Consumed \in Nat
  BY <1>4, <1>5
<1>7. Tiles \in Nat
  BY <1>1, SMTT(30) DEF Tiles
<1> QED BY <1>1, <1>2, <1>3, <1>5, <1>6, <1>7 DEF Stored

LEMMA CountOrder ==
  ASSUME IInv
  PROVE  /\ Retired <= Started /\ Started <= Loaded /\ Loaded <= admitted
         /\ Retired <= Loaded /\ Started <= admitted /\ admitted <= Retired + 2 /\ admitted <= Tiles
         /\ Credited = Loaded + credit_count_q /\ credit_count_q \in 0 .. 2
         /\ Credited <= Formatted /\ Formatted <= Consumed /\ Consumed <= Stored
         /\ Stored <= Formatted + 2 /\ Consumed <= Formatted + 1
         /\ Formatted <= Credited + 1
         /\ Consumed <= demanded /\ demanded <= Tiles /\ Stored <= Tiles
<1>1. /\ Retired <= Started /\ Started <= Loaded /\ Loaded <= admitted
      /\ admitted <= Retired + 2 /\ admitted <= Tiles
      /\ Credited = Loaded + credit_count_q
      /\ Stored <= Formatted + 2 /\ demanded <= Tiles /\ Stored <= Tiles
  BY DEF IInv, Counted
<1>2. credit_count_q \in 0 .. 2
  BY DEF IInv, Typed, Numbers
<1>3. \A condition : Num(condition) \in {0, 1}
  BY DEF Num
<1>4. Consumed <= demanded /\ Consumed <= Stored
  BY <1>3, CountTypes DEF Stored, Consumed
<1>5. Formatted <= Consumed /\ Consumed <= Formatted + 1
  BY <1>3, CountTypes DEF Formatted
<1>6. Credited <= Formatted /\ Formatted <= Credited + 1
  BY <1>3, CountTypes DEF Credited
<1>7. Retired <= Loaded /\ Started <= admitted
  BY <1>1, CountTypes
<1> QED
  BY <1>1, <1>2, <1>4, <1>5, <1>6, <1>7

-----------------------------------------------------------------------------
(* What an edge may do *)

\* No error is there, so that no flag holds anything up.
LEMMA Clean ==
  ASSUME IInv
  PROVE  ~any_error /\ ~stage_fatal
  BY DEF IInv, NoWeightErrors

\* A packet is committed as soon as it is complete.
LEMMA CommitFacts ==
  ASSUME IInv
  PROVE  /\ commit_valid <=> weight_tile_ready
         /\ commit_fire <=> weight_tile_ready
         /\ weight_tile_ready => /\ fill_valid_q /\ weight_ingress_more_q
                                 /\ Stored < Formatted + 2 /\ Stored < Tiles
         /\ weight_ingress_more_q => Stored < Tiles
         /\ weight_req_r => weight_ingress_more_q
<1>1. commit_valid <=> weight_tile_ready
  BY DEF commit_valid, IInv, Asked
<1>2. weight_req_r => fill_valid_q /\ weight_ingress_more_q
  BY DEF IInv, Asked
<1>3. weight_req_r => Stored < Formatted + 2
  BY <1>2 DEF IInv, Staged
<1>4. weight_req_r => Len(committed) < 2
  BY <1>3, CountTypes, CountOrder DEF Stored
<1>5. weight_ingress_more_q => Stored < Tiles
  <2> SUFFICES ASSUME weight_ingress_more_q PROVE Stored < Tiles
    OBVIOUS
  <2> DEFINE k == k_total
             n == cout_total
             i == weight_ingress_k_q
             j == weight_ingress_cout_q
  <2>1. k \in Nat /\ n \in Nat /\ i \in Nat /\ j \in Nat
    BY DEF IInv, Typed, Numbers
  <2>2. Stored = j * k + i /\ i < k /\ j < n
    BY DEF IInv, Asked
  <2>3. Tiles = k * n
    BY DEF Tiles
  <2> HIDE DEF k, n, i, j
  <2>4. (j + 1) * k <= n * k
    BY <2>1, <2>2, SMTT(30)
  <2>5. (j + 1) * k = j * k + k /\ n * k = k * n /\ j * k \in Nat /\ k * n \in Nat
    BY <2>1, SMTT(30)
  <2> QED BY <2>1, <2>2, <2>3, <2>4, <2>5
<1>6. commit_fire <=> weight_tile_ready
  BY <1>1, <1>2, <1>4, Clean DEF commit_fire, commit_ready, IInv, Asked
<1> QED BY <1>1, <1>2, <1>3, <1>5, <1>6 DEF IInv, Asked

LEMMA FormatFacts ==
  ASSUME IInv
  PROVE  /\ consume_fire <=> /\ weight_format_pending_q /\ ~format_busy_q
                             /\ committed # <<>>
         /\ formatter_fire <=> format_busy_q /\ Len(row_fifo) < FIFO_DEPTH
         /\ formatter_done <=> formatter_fire /\ format_col_q = COLS - 1
         /\ formatter_done => format_busy_q
         /\ write_ready <=> fill_valid_q
  BY Clean DEF consume_fire, consume_ready, formatter_fire, formatter_done, write_ready

\* The contexts that are in the queues.
LEMMA HeldFacts ==
  ASSUME IInv
  PROVE  /\ \A n \in Retired .. admitted - 1 :
              /\ Held(n) \in Contexts /\ Held(n).bank \in Bank
              /\ Held(n).tile = Tile(n) /\ Held(n).epoch = n % 3
              /\ bank_state[Held(n).bank] = StateOf(n)
              /\ bank_epoch[Held(n).bank] = n % 3 /\ bank_epoch_valid[Held(n).bank]
         /\ Started - Retired = Len(running) /\ admitted - Started = Len(ready)
         /\ \A k \in 1 .. Len(running) : running[k] = Held(Retired + k - 1)
         /\ \A k \in 1 .. Len(ready) : ready[k] = Held(Started + k - 1)
<1>1. /\ Retired \in Nat /\ Started \in Nat /\ admitted \in Nat
      /\ Len(running) \in Nat /\ Len(ready) \in Nat
  BY CountTypes
<1>2. Started - Retired = Len(running) /\ admitted - Started = Len(ready)
  BY <1>1 DEF Started, Retired
<1>3. ASSUME NEW k \in 1 .. Len(running) PROVE running[k] = Held(Retired + k - 1)
  <2> DEFINE n == Retired + k - 1
  <2>1. n < Started /\ n - Retired + 1 = k
    BY <1>1, <1>2
  <2>2. Held(n) = running[n - Retired + 1]
    BY <2>1 DEF Held
  <2> QED BY <2>1, <2>2
<1>4. ASSUME NEW k \in 1 .. Len(ready) PROVE ready[k] = Held(Started + k - 1)
  <2> DEFINE n == Started + k - 1
  <2>1. ~(n < Started) /\ n - Started + 1 = k
    BY <1>1, <1>2
  <2>2. Held(n) = ready[n - Started + 1]
    BY <2>1 DEF Held
  <2> QED BY <2>1, <2>2
<1>5. ASSUME NEW n \in Retired .. admitted - 1 PROVE Held(n) \in Contexts
  <2>1. CASE n < Started
    <3>1. n - Retired + 1 \in 1 .. Len(running)
      BY <1>1, <1>2, <2>1
    <3>2. running \in Seq(Contexts)
      BY DEF IInv, Typed, Structures
    <3> QED BY <2>1, <3>1, <3>2, ElementOfSeq DEF Held
  <2>2. CASE ~(n < Started)
    <3>1. n - Started + 1 \in 1 .. Len(ready)
      BY <1>1, <1>2, <2>2
    <3>2. ready \in Seq(Contexts)
      BY DEF IInv, Typed, Structures
    <3> QED BY <2>2, <3>1, <3>2, ElementOfSeq DEF Held
  <2> QED BY <2>1, <2>2
<1>6. ASSUME NEW n \in Retired .. admitted - 1
      PROVE  /\ Held(n).bank \in Bank
             /\ Held(n).tile = Tile(n) /\ Held(n).epoch = n % 3
             /\ bank_state[Held(n).bank] = StateOf(n)
             /\ bank_epoch[Held(n).bank] = n % 3
  BY <1>5 DEF Contexts, IInv, Owned
<1>7. ASSUME NEW n \in Retired .. admitted - 1
      PROVE  bank_epoch_valid[Held(n).bank]
  BY <1>6, <1>7 DEF IInv, Owned, StateOf
<1> QED BY <1>2, <1>3, <1>4, <1>5, <1>6, <1>7

\* The descriptors name the contexts not loaded yet.
LEMMA DescFacts ==
  ASSUME IInv
  PROVE  /\ admitted - Loaded = Len(desc)
         /\ desc # <<>> <=> Loaded < admitted
         /\ desc # <<>> => /\ Head(desc) = desc[1]
                           /\ Loaded \in Retired .. admitted - 1
                           /\ Head(desc).bank = Held(Loaded).bank
                           /\ Head(desc).epoch = Loaded % 3
<1>1. /\ Loaded \in Nat /\ admitted \in Nat /\ Len(desc) \in Nat /\ Retired \in Nat
      /\ Retired <= Loaded
  <2>1. Retired <= Loaded
    BY CountOrder
  <2> QED BY <2>1, CountTypes
<1>2. admitted - Loaded = Len(desc)
  BY <1>1 DEF Loaded
<1>3. desc # <<>> <=> Len(desc) # 0
  BY EmptySeq DEF IInv, Typed, Structures
<1>4. desc # <<>> <=> Loaded < admitted
  BY <1>1, <1>2, <1>3
<1>5. ASSUME desc # <<>>
      PROVE  /\ Head(desc) = desc[1]
             /\ Loaded \in Retired .. admitted - 1
             /\ Head(desc).bank = Held(Loaded).bank
             /\ Head(desc).epoch = Loaded % 3
  <2>1. Loaded \in Retired .. admitted - 1
    BY <1>1, <1>4, <1>5
  <2>2. 1 \in 1 .. Len(desc) /\ Loaded + 1 - 1 = Loaded
    BY <1>1, <1>3, <1>5
  <2>3. /\ desc[1].bank = Held(Loaded).bank
        /\ desc[1].epoch = Held(Loaded).epoch
    BY <2>2 DEF IInv, Owned
  <2>4. Head(desc) = desc[1]
    BY <1>5 DEF IInv, Typed, Structures
  <2> QED BY <2>1, <2>3, <2>4, HeldFacts
<1> QED BY <1>2, <1>4, <1>5

\* A load that may begin or run finds the words of a whole tile.
LEMMA RowsThere ==
  ASSUME IInv, credit_count_q > 0, Issued \in 0 .. COLS - 1
  PROVE  row_fifo # <<>>
<1>1. /\ Loaded \in Nat /\ Formatted \in Nat /\ Loaded < Formatted
  <2>1. Credited = Loaded + credit_count_q /\ Credited <= Formatted /\ credit_count_q \in Nat
    BY CountOrder
  <2> QED BY <2>1, CountTypes
<1>2. COLS * Loaded + COLS <= COLS * Formatted
  BY <1>1, TimesOrder
<1>3. COLS * Loaded \in Int /\ COLS * Formatted \in Int
  BY <1>1, Times
<1>4. COLS \in Nat /\ format_col_q \in Nat /\ Len(row_fifo) \in Nat
  BY ColsAssumption DEF IInv, Typed, Numbers, Structures, Column
<1>5. COLS * Loaded + Issued + Len(row_fifo) = COLS * Formatted + format_col_q
  BY DEF IInv, Lined, ReadPlace, WritePlace
<1>6. Len(row_fifo) > 0
  BY <1>1, <1>2, <1>3, <1>4, <1>5
<1> QED BY <1>6

LEMMA LoadFacts ==
  ASSUME IInv
  PROVE  /\ array_w_load <=> read_pending_q
         /\ preload_commit_event <=> reads_done_q
         /\ reads_done_q => loading_q /\ read_pending_q
         /\ begin_load <=> ~loading_q /\ Loaded < admitted /\ credit_count_q > 0
         /\ row_fifo_rd_en <=> loading_q /\ ~reads_done_q
         /\ loading_q => /\ Loaded < admitted /\ credit_count_q > 0
                         /\ loading_bank_q = Held(Loaded).bank /\ loading_bank_q \in Bank
         /\ loading_q \/ begin_load => Loaded \in Retired .. admitted - 1
         /\ row_fifo_rd_en => row_fifo # <<>>
         /\ ~descriptor_protocol_error /\ ~row_protocol_error
<1>1. /\ credit_count_q \in 0 .. 2 /\ issue_col_q \in Column /\ COLS \in Nat \ {0}
      /\ loading_q \in BOOLEAN /\ reads_done_q \in BOOLEAN /\ read_pending_q \in BOOLEAN
  BY ColsAssumption DEF IInv, Typed, Numbers, Flags
<1>2. ~any_error
  BY Clean
<1>3. array_w_load <=> read_pending_q
  BY <1>2 DEF array_w_load
<1>4. /\ read_pending_q => loading_q /\ Issued > 0 /\ read_col_q = Issued - 1
      /\ reads_done_q => loading_q /\ read_pending_q
      /\ loading_q => desc # <<>> /\ credit_count_q > 0 /\ loading_bank_q = desc[1].bank
  BY DEF IInv, Loading
<1>5. preload_commit_event <=> reads_done_q
  <2>1. reads_done_q => Issued = COLS
    BY <1>4 DEF Issued
  <2>2. loading_q /\ ~reads_done_q => Issued < COLS
    BY <1>1 DEF Issued, Column
  <2>3. Issued \in Nat
    BY <1>1 DEF Issued, Column
  <2>4. ASSUME preload_commit_event PROVE reads_done_q
    BY <1>1, <1>3, <1>4, <2>2, <2>3, <2>4 DEF preload_commit_event
  <2>5. ASSUME reads_done_q PROVE preload_commit_event
    BY <1>1, <1>3, <1>4, <2>1, <2>5 DEF preload_commit_event
  <2> QED BY <2>4, <2>5
<1>6. loading_q \/ desc # <<>> => Loaded \in Retired .. admitted - 1
  BY <1>4, DescFacts
<1>7. loading_q => /\ Loaded < admitted /\ credit_count_q > 0
                   /\ loading_bank_q = Held(Loaded).bank /\ loading_bank_q \in Bank
  BY <1>4, <1>6, DescFacts, HeldFacts
<1>8. have_load_pair <=> ~loading_q /\ Loaded < admitted /\ credit_count_q > 0
  BY <1>1, DescFacts DEF have_load_pair
<1>9. have_load_pair => head_descriptor_match
  <2> SUFFICES ASSUME have_load_pair PROVE head_descriptor_match
    OBVIOUS
  <2>1. ~loading_q /\ desc # <<>>
    BY DEF have_load_pair
  <2>2. /\ Loaded \in Retired .. admitted - 1 /\ Head(desc).bank = Held(Loaded).bank
        /\ Head(desc).epoch = Loaded % 3
    BY <2>1, DescFacts
  <2>3. StateOf(Loaded) = "RESERVED"
    <3>1. Started <= Loaded /\ Started \in Nat /\ Loaded \in Nat
      BY CountOrder, CountTypes
    <3> QED BY <2>1, <3>1 DEF StateOf
  <2> QED BY <2>2, <2>3, HeldFacts DEF head_descriptor_match
<1>10. have_load_pair \/ (loading_q /\ ~reads_done_q) => row_fifo # <<>>
  <2>1. have_load_pair \/ (loading_q /\ ~reads_done_q) =>
          credit_count_q > 0 /\ Issued \in 0 .. COLS - 1
    BY <1>1, <1>7, <1>8 DEF Issued, Column
  <2> QED BY <2>1, RowsThere
<1>11. begin_load <=> have_load_pair
  BY <1>2, <1>9, <1>10 DEF begin_load, all_rows_nonempty
<1>12. row_fifo_rd_en <=> loading_q /\ ~reads_done_q
  BY <1>2, <1>10 DEF row_fifo_rd_en, all_rows_nonempty
<1>13. ~descriptor_protocol_error /\ ~row_protocol_error
  BY <1>9, <1>10 DEF descriptor_protocol_error, row_protocol_error, all_rows_nonempty
<1>14. begin_load => Loaded \in Retired .. admitted - 1
  BY <1>6, <1>11 DEF have_load_pair
<1> QED
  BY <1>3, <1>4, <1>5, <1>6, <1>7, <1>8, <1>10, <1>11, <1>12, <1>13, <1>14

-----------------------------------------------------------------------------
(* What the parties ask for *)

LEMMA InputFacts ==
  ASSUME IInv, NEW in \in Inputs
  PROVE  /\ in.beat \in BOOLEAN /\ in.demand \in BOOLEAN
         /\ in.start \in BOOLEAN /\ in.retire \in BOOLEAN
         /\ in.layer = {} \/ (LayerOver /\ \E l \in Layer : in.layer = {l})
         /\ in.beat => weight_busy /\ sent < Tiles
         /\ in.demand => demanded < Tiles /\ (~awaited \/ sched_weight_done)
         /\ \/ in.admit = {}
            \/ /\ admitted < Tiles
               /\ \E b \in Bank : /\ in.admit = {b}
                                  /\ alloc_ready([bank |-> b, epoch |-> admitted % 3])
         /\ in.start => ready # <<>> /\ Head(ready) = Held(Started) /\ Started < Loaded
         /\ in.retire => running # <<>> /\ Head(running) = Held(Retired) /\ Retired < Started
<1>1. /\ in.layer \in IF LayerOver THEN {{}} \cup {{l} : l \in Layer} ELSE {{}}
      /\ in.beat \in May(weight_busy /\ sent < Tiles)
      /\ in.demand \in May(demanded < Tiles /\ (~awaited \/ sched_weight_done))
      /\ in.admit \in {{}} \cup {{b} : b \in {c \in Bank :
             admitted < Tiles /\ alloc_ready([bank |-> c, epoch |-> admitted % 3])}}
      /\ in.start \in May(ready # <<>> /\ bank_state[Head(ready).bank] = "READY")
      /\ in.retire \in May(running # <<>>)
  BY DEF Inputs
<1>2. /\ in.beat \in BOOLEAN /\ in.demand \in BOOLEAN
      /\ in.start \in BOOLEAN /\ in.retire \in BOOLEAN
      /\ in.beat => weight_busy /\ sent < Tiles
      /\ in.demand => demanded < Tiles /\ (~awaited \/ sched_weight_done)
  BY <1>1 DEF May
<1>3. in.layer = {} \/ (LayerOver /\ \E l \in Layer : in.layer = {l})
  BY <1>1
<1>4. \/ in.admit = {}
      \/ /\ admitted < Tiles
         /\ \E b \in Bank : /\ in.admit = {b}
                            /\ alloc_ready([bank |-> b, epoch |-> admitted % 3])
  BY <1>1
<1>5. /\ ready \in Seq(Contexts) /\ running \in Seq(Contexts)
      /\ Retired \in Nat /\ Started \in Nat /\ Loaded \in Nat /\ admitted \in Nat
      /\ Len(ready) \in Nat /\ Len(running) \in Nat
  BY CountTypes DEF IInv, Typed, Structures
<1>6. ASSUME in.start
      PROVE  ready # <<>> /\ Head(ready) = Held(Started) /\ Started < Loaded
  <2>1. ready # <<>> /\ bank_state[Head(ready).bank] = "READY"
    BY <1>1, <1>6 DEF May
  <2>2. Head(ready) = ready[1] /\ Len(ready) > 0
    BY <1>5, <2>1
  <2>3. ready[1] = Held(Started + 1 - 1) /\ admitted - Started = Len(ready)
    <3>1. 1 \in 1 .. Len(ready)
      BY <1>5, <2>2
    <3> QED BY <3>1, HeldFacts
  <2>4. Started + 1 - 1 = Started /\ Started \in Retired .. admitted - 1
    BY <1>5, <2>2, <2>3, CountOrder
  <2>5. StateOf(Started) = "READY"
    BY <2>1, <2>2, <2>3, <2>4, HeldFacts
  <2>6. Started < Loaded
    BY <1>5, <2>5 DEF StateOf
  <2> QED BY <2>1, <2>2, <2>3, <2>4, <2>6
<1>7. ASSUME in.retire
      PROVE  running # <<>> /\ Head(running) = Held(Retired) /\ Retired < Started
  <2>1. running # <<>>
    BY <1>1, <1>7 DEF May
  <2>2. Head(running) = running[1] /\ Len(running) > 0
    BY <1>5, <2>1
  <2>3. running[1] = Held(Retired + 1 - 1) /\ Started - Retired = Len(running)
    <3>1. 1 \in 1 .. Len(running)
      BY <1>5, <2>2
    <3> QED BY <3>1, HeldFacts
  <2>4. Retired + 1 - 1 = Retired
    BY <1>5
  <2> QED BY <1>5, <2>1, <2>2, <2>3, <2>4
<1> QED BY <1>2, <1>3, <1>4, <1>6, <1>7

\* Every request is granted, and none is wrong.
LEMMA RequestFacts ==
  ASSUME IInv, NEW in \in Inputs
  PROVE  LET p == PreloadInputs(in)
         IN /\ allocated(p) = {[bank |-> b, epoch |-> admitted % 3] : b \in in.admit}
            /\ started(p) = p.start /\ retired(p) = p.retire
            /\ ~owner_error(p) /\ ~epoch_error(p)
<1> DEFINE p == PreloadInputs(in)
<1>0. ~any_error
  BY Clean
<1>1. /\ p.alloc = {[bank |-> b, epoch |-> admitted % 3] : b \in in.admit}
      /\ p.start = IF in.start THEN {[bank |-> Head(ready).bank,
                                      epoch |-> Head(ready).epoch]} ELSE {}
      /\ p.retire = IF in.retire THEN {[bank |-> Head(running).bank,
                                        epoch |-> Head(running).epoch]} ELSE {}
  BY DEF PreloadInputs
<1>2. \A r \in p.alloc : alloc_ready(r)
  BY <1>1, InputFacts
<1>3. /\ Retired \in Nat /\ Started \in Nat /\ Loaded \in Nat /\ admitted \in Nat
      /\ Retired <= Started /\ Loaded <= admitted /\ Started <= Loaded
  <2>1. Retired <= Started /\ Loaded <= admitted /\ Started <= Loaded
    BY CountOrder
  <2> QED BY <2>1, CountTypes
<1>4. \A r \in p.start : bank_state[r.bank] = "READY" /\ epoch_matches(r)
  <2> SUFFICES ASSUME in.start
               PROVE  /\ bank_state[Head(ready).bank] = "READY"
                      /\ epoch_matches([bank |-> Head(ready).bank,
                                        epoch |-> Head(ready).epoch])
    BY <1>1
  <2>1. Head(ready) = Held(Started) /\ Started < Loaded
    BY InputFacts
  <2>2. Started \in Retired .. admitted - 1
    BY <1>3, <2>1
  <2>3. StateOf(Started) = "READY"
    BY <1>3, <2>1 DEF StateOf
  <2> QED BY <2>1, <2>2, <2>3, HeldFacts DEF epoch_matches
<1>5. \A r \in p.retire : bank_state[r.bank] = "ACTIVE" /\ epoch_matches(r)
  <2> SUFFICES ASSUME in.retire
               PROVE  /\ bank_state[Head(running).bank] = "ACTIVE"
                      /\ epoch_matches([bank |-> Head(running).bank,
                                        epoch |-> Head(running).epoch])
    BY <1>1
  <2>1. Head(running) = Held(Retired) /\ Retired < Started
    BY InputFacts
  <2>2. Retired \in Retired .. admitted - 1
    BY <1>3, <2>1
  <2>3. StateOf(Retired) = "ACTIVE"
    BY <1>3, <2>1 DEF StateOf
  <2> QED BY <2>1, <2>2, <2>3, HeldFacts DEF epoch_matches
<1> HIDE DEF p
<1>6. allocated(p) = p.alloc
  BY <1>2 DEF allocated
<1>7. started(p) = p.start /\ retired(p) = p.retire
  BY <1>0, <1>4, <1>5 DEF started, retired, start_ready, retire_match
<1>8. ~owner_error(p)
  BY <1>4, <1>5 DEF owner_error
<1>9. ~epoch_error(p)
  BY <1>2, <1>4, <1>5 DEF epoch_error, alloc_ready
<1> QED BY <1>1, <1>6, <1>7, <1>8, <1>9 DEF p

\* The states of the banks stay a function of the banks.
LEMMA BankShape ==
  ASSUME NEW in, BankEdge(in)
  PROVE  bank_state' = [b \in Bank |-> bank_state'[b]]
<1>1. bank_state' = [b \in Bank |-> BankStateNext(in, b)]
  BY DEF BankEdge
<1>2. \A b \in Bank : bank_state'[b] = BankStateNext(in, b)
  BY <1>1
<1> QED BY <1>1, <1>2

\* How a bank moves.
LEMMA BankMoves ==
  ASSUME IInv, NEW in \in Inputs, BankEdge(PreloadInputs(in)), NEW b \in Bank
  PROVE  /\ bank_state'[b] =
              IF in.retire /\ Held(Retired).bank = b THEN "RETIRING"
              ELSE IF in.start /\ Held(Started).bank = b THEN "ACTIVE"
              ELSE IF reads_done_q /\ Held(Loaded).bank = b THEN "READY"
              ELSE IF b \in in.admit THEN "RESERVED"
              ELSE IF begin_load /\ Held(Loaded).bank = b THEN "LOADING"
              ELSE IF bank_state[b] = "RETIRING" THEN "EMPTY" ELSE bank_state[b]
         /\ bank_epoch'[b] = IF b \in in.admit THEN admitted % 3 ELSE bank_epoch[b]
         /\ bank_epoch_valid'[b] =
              (b \in in.admit \/ (bank_epoch_valid[b] /\ bank_state[b] # "RETIRING"))
         /\ DOMAIN bank_state' = Bank /\ DOMAIN bank_epoch' = Bank
         /\ DOMAIN bank_epoch_valid' = Bank
<1> DEFINE p == PreloadInputs(in)
<1>1. /\ allocated(p) = {[bank |-> c, epoch |-> admitted % 3] : c \in in.admit}
      /\ started(p) = p.start /\ retired(p) = p.retire
  BY RequestFacts
<1> DEFINE asked(c) == [bank |-> c, epoch |-> admitted % 3]
<1>2. (\E r \in allocated(p) : r.bank = b) <=> b \in in.admit
  <2>1. \A c \in in.admit : asked(c) \in allocated(p) /\ asked(c).bank = c
    BY <1>1
  <2>2. \A r \in allocated(p) : \E c \in in.admit : r = asked(c)
    BY <1>1
  <2>3. \A c : asked(c).bank = c
    OBVIOUS
  <2> HIDE DEF p, asked
  <2> QED BY <2>1, <2>2, <2>3
<1>3. (\E r \in started(p) : r.bank = b) <=> in.start /\ Held(Started).bank = b
  <2>1. p.start = IF in.start THEN {[bank |-> Head(ready).bank,
                                     epoch |-> Head(ready).epoch]} ELSE {}
    BY DEF PreloadInputs
  <2>2. started(p) = p.start
    BY <1>1
  <2> HIDE DEF p
  <2>3. CASE in.start
    <3>1. Head(ready) = Held(Started)
      BY <2>3, InputFacts
    <3>2. started(p) = {[bank |-> Held(Started).bank, epoch |-> Head(ready).epoch]}
      BY <2>1, <2>2, <2>3, <3>1
    <3> QED BY <2>3, <3>2
  <2>4. CASE ~in.start
    BY <2>1, <2>2, <2>4
  <2> QED BY <2>3, <2>4
<1>4. (\E r \in retired(p) : r.bank = b) <=> in.retire /\ Held(Retired).bank = b
  <2>1. p.retire = IF in.retire THEN {[bank |-> Head(running).bank,
                                       epoch |-> Head(running).epoch]} ELSE {}
    BY DEF PreloadInputs
  <2>2. retired(p) = p.retire
    BY <1>1
  <2> HIDE DEF p
  <2>3. CASE in.retire
    <3>1. Head(running) = Held(Retired)
      BY <2>3, InputFacts
    <3>2. retired(p) = {[bank |-> Held(Retired).bank, epoch |-> Head(running).epoch]}
      BY <2>1, <2>2, <2>3, <3>1
    <3> QED BY <2>3, <3>2
  <2>4. CASE ~in.retire
    BY <2>1, <2>2, <2>4
  <2> QED BY <2>3, <2>4
<1>5. b \in in.admit => (CHOOSE r \in allocated(p) : r.bank = b).epoch = admitted % 3
  <2> SUFFICES ASSUME b \in in.admit
               PROVE  (CHOOSE r \in allocated(p) : r.bank = b).epoch = admitted % 3
    OBVIOUS
  <2>1. \A r \in allocated(p) : r.bank = b => r.epoch = admitted % 3
    BY <1>1
  <2>2. \E r \in allocated(p) : r.bank = b
    BY <1>2
  <2> HIDE DEF p
  <2> QED BY <2>1, <2>2
<1>6. preload_commit_event /\ loading_bank_q = b <=> reads_done_q /\ Held(Loaded).bank = b
  BY LoadFacts
<1>7. begin_load /\ Head(desc).bank = b <=> begin_load /\ Held(Loaded).bank = b
  BY LoadFacts, DescFacts
<1>8. bank_state'[b] = BankStateNext(p, b)
  BY DEF BankEdge
<1>9. /\ bank_epoch'[b] = IF \E r \in allocated(p) : r.bank = b
                          THEN (CHOOSE r \in allocated(p) : r.bank = b).epoch
                          ELSE bank_epoch[b]
      /\ bank_epoch_valid'[b] = (\/ \E r \in allocated(p) : r.bank = b
                                 \/ (bank_epoch_valid[b] /\ bank_state[b] # "RETIRING"))
  BY DEF BankEdge
<1>10. /\ DOMAIN bank_state' = Bank /\ DOMAIN bank_epoch' = Bank
       /\ DOMAIN bank_epoch_valid' = Bank
  BY DEF BankEdge
<1> HIDE DEF p
<1> QED
  BY <1>2, <1>3, <1>4, <1>5, <1>6, <1>7, <1>8, <1>9, <1>10 DEF BankStateNext

-----------------------------------------------------------------------------
(* How the queues and the counts move *)

\* A queue from which one may be taken and to which one may be added.
LEMMA QueueMove ==
  ASSUME NEW S, NEW q \in Seq(S), NEW t \in {0, 1}, t = 1 => q # <<>>,
         NEW u \in {0, 1}, NEW x, u = 1 => x \in S, NEW r,
         r = IF u = 1 THEN Append(IF t = 1 THEN Tail(q) ELSE q, x)
             ELSE IF t = 1 THEN Tail(q) ELSE q
  PROVE  /\ r \in Seq(S) /\ Len(r) = Len(q) - t + u
         /\ \A k \in 1 .. Len(q) - t : r[k] = q[k + t]
         /\ u = 1 => r[Len(q) - t + 1] = x
<1> DEFINE left == IF t = 1 THEN Tail(q) ELSE q
<1>0. r = IF u = 1 THEN Append(left, x) ELSE left
  OBVIOUS
<1>1. /\ left \in Seq(S) /\ Len(left) \in Nat /\ Len(left) = Len(q) - t
      /\ \A k \in 1 .. Len(left) : left[k] = q[k + t]
  <2>1. CASE t = 1
    BY <2>1, HeadTailProperties, LenProperties
  <2>2. CASE t = 0
    BY <2>2, LenProperties
  <2> QED BY <2>1, <2>2
<1> HIDE DEF left
<1>2. CASE u = 1
  <2>1. /\ r \in Seq(S) /\ Len(r) = Len(left) + 1
        /\ \A k \in 1 .. Len(left) : r[k] = left[k]
        /\ r[Len(left) + 1] = x
    BY <1>0, <1>1, <1>2, AppendProperties
  <2> QED BY <1>1, <1>2, <2>1
<1>3. CASE u = 0
  BY <1>0, <1>1, <1>3
<1> QED BY <1>2, <1>3

LEMMA NumTypes ==
  ASSUME NEW condition
  PROVE  Num(condition) \in {0, 1} /\ (Num(condition) = 1 <=> condition)
  BY DEF Num

\* An edge that starts no layer.
Works(in) == in.layer = {} /\ Edge(in)

LEMMA WorkEdges ==
  ASSUME NEW in \in Inputs, Works(in)
  PROVE  LET p == PreloadInputs(in)
         IN /\ BankEdge(p) /\ QueueEdge(p) /\ LoadEdge /\ ReadEdge /\ ErrorEdge(p)
            /\ AxisEdge(StagingInputs(in)) /\ RequestEdge(StagingInputs(in)) /\ FifoEdge
            /\ IngressEdge /\ UNCHANGED <<k_total, cout_total>>
            /\ weight_format_pending_q' = FormatPendingNext(sched_weight_start)
            /\ weight_tile_complete_pending_q' =
                 (weight_tile_complete_valid /\ ~weight_tile_complete_fire)
            /\ sched_weight_done' = weight_tile_complete_fire
            /\ FillEdge /\ FormatEdge
            /\ StreamEdge(in) /\ SchedulerEdge(in) /\ ContextEdge(in)
            /\ parity' = parity
<1>1. StagingInputs(in).layer = {} /\ StagingInputs(in).weight_start = sched_weight_start
  BY DEF StagingInputs, Works
<1>2. PreloadEdge(PreloadInputs(in)) /\ StagingEdge(StagingInputs(in))
  BY DEF Works, Edge
<1>3. RequestEdge(StagingInputs(in)) /\ AxisEdge(StagingInputs(in)) /\ FifoEdge
        /\ FillEdge /\ FormatEdge
  BY <1>1, <1>2 DEF StagingEdge
<1>4. /\ IngressEdge /\ UNCHANGED <<k_total, cout_total>>
      /\ weight_format_pending_q' = FormatPendingNext(sched_weight_start)
      /\ weight_tile_complete_pending_q' =
           (weight_tile_complete_valid /\ ~weight_tile_complete_fire)
      /\ sched_weight_done' = weight_tile_complete_fire
  BY <1>1, <1>3 DEF RequestEdge, reports_done
<1> QED BY <1>2, <1>3, <1>4 DEF PreloadEdge, Works, Edge

LEMMA DescMoves ==
  ASSUME IInv, NEW in \in Inputs, Works(in)
  PROVE  /\ desc' \in Seq([bank : Bank, epoch : Nat])
         /\ Len(desc') = Len(desc) - Num(reads_done_q) + Num(in.admit # {})
         /\ \A k \in 1 .. Len(desc) - Num(reads_done_q) :
              desc'[k] = desc[k + Num(reads_done_q)]
         /\ in.admit # {} => \E b \in Bank :
              /\ in.admit = {b}
              /\ desc'[Len(desc) - Num(reads_done_q) + 1] =
                   [bank |-> b, epoch |-> admitted % 3]
<1> DEFINE p == PreloadInputs(in)
           S == [bank : Bank, epoch : Nat]
           left == IF reads_done_q THEN Tail(desc) ELSE desc
<1>1. /\ desc \in Seq(S) /\ reads_done_q \in BOOLEAN /\ admitted \in Nat
      /\ reads_done_q => desc # <<>>
  <2>1. reads_done_q => desc # <<>>
    BY DEF IInv, Loading
  <2> QED BY <2>1 DEF IInv, Typed, Structures, Flags, Numbers
<1>2. (preload_commit_event <=> reads_done_q)
  BY LoadFacts
<1>3. QueueEdge(p) /\ allocated(p) = {[bank |-> b, epoch |-> admitted % 3] : b \in in.admit}
  BY WorkEdges, RequestFacts
<1>4. IF allocated(p) = {} THEN desc' = left ELSE \E r \in allocated(p) : desc' = Append(left, r)
  BY <1>2, <1>3 DEF QueueEdge
<1> DEFINE t == Num(reads_done_q)
           u == Num(in.admit # {})
           x == CHOOSE r \in allocated(p) : TRUE
<1>5. /\ t \in {0, 1} /\ (t = 1 <=> reads_done_q)
      /\ u \in {0, 1} /\ (u = 1 <=> in.admit # {})
  BY DEF Num
<1>6. ASSUME in.admit # {}
      PROVE  \E b \in Bank : in.admit = {b} /\ x = [bank |-> b, epoch |-> admitted % 3]
                               /\ allocated(p) = {x}
  <2>1. PICK b \in Bank : in.admit = {b}
    BY <1>6, InputFacts
  <2>2. allocated(p) = {[bank |-> b, epoch |-> admitted % 3]}
    BY <1>3, <2>1
  <2> HIDE DEF p
  <2>3. x = [bank |-> b, epoch |-> admitted % 3]
    BY <2>2
  <2> QED BY <2>1, <2>2, <2>3
<1>7. u = 1 => x \in S
  <2> HIDE DEF x, u, p
  <2> QED BY <1>1, <1>5, <1>6
<1>8. in.admit = {} => allocated(p) = {}
  BY <1>3
<1>9. left = IF t = 1 THEN Tail(desc) ELSE desc
  BY <1>5
<1>10. desc' = IF u = 1 THEN Append(left, x) ELSE left
  <2> HIDE DEF p, left, x, u, t
  <2>1. CASE u = 1
    BY <1>4, <1>5, <1>6, <2>1
  <2>2. CASE u # 1
    BY <1>4, <1>5, <1>8, <2>2
  <2> QED BY <2>1, <2>2
<1>11. t = 1 => desc # <<>>
  BY <1>1, <1>5
<1> HIDE DEF x, u, t, p, S
<1>12. desc' = IF u = 1 THEN Append(IF t = 1 THEN Tail(desc) ELSE desc, x)
               ELSE IF t = 1 THEN Tail(desc) ELSE desc
  BY <1>9, <1>10
<1> DEFINE r == desc'
<1>13. r = IF u = 1 THEN Append(IF t = 1 THEN Tail(desc) ELSE desc, x)
           ELSE IF t = 1 THEN Tail(desc) ELSE desc
  BY <1>12
<1>14. desc \in Seq(S)
  BY <1>1
<1> HIDE DEF r, left
<1>15. /\ r \in Seq(S) /\ Len(r) = Len(desc) - t + u
       /\ \A k \in 1 .. Len(desc) - t : r[k] = desc[k + t]
       /\ u = 1 => r[Len(desc) - t + 1] = x
  BY <1>5, <1>7, <1>11, <1>13, <1>14, QueueMove
<1>16. in.admit # {} => \E b \in Bank : in.admit = {b}
                          /\ r[Len(desc) - t + 1] = [bank |-> b, epoch |-> admitted % 3]
  BY <1>5, <1>6, <1>15
<1> QED BY <1>15, <1>16 DEF t, u, r, S

LEMMA CommittedMoves ==
  ASSUME IInv, NEW in \in Inputs, Works(in)
  PROVE  /\ committed' \in Seq(Bank)
         /\ Len(committed') = Len(committed) - Num(consume_fire) + Num(commit_fire)
         /\ \A k \in 1 .. Len(committed) - Num(consume_fire) :
              committed'[k] = committed[k + Num(consume_fire)]
         /\ commit_fire => committed'[Len(committed) - Num(consume_fire) + 1] = fill_bank_q
<1> DEFINE left == IF consume_fire THEN Tail(committed) ELSE committed
<1>1. /\ committed \in Seq(Bank) /\ fill_bank_q \in Bank
      /\ consume_fire => committed # <<>>
  <2>1. consume_fire => committed # <<>>
    BY DEF consume_fire, consume_ready
  <2> QED BY <2>1 DEF IInv, Typed, Structures, Numbers
<1>2. committed' = left \o (IF commit_fire THEN <<fill_bank_q>> ELSE <<>>)
  BY WorkEdges DEF FillEdge
<1>3. left \in Seq(Bank)
  BY <1>1
<1>4. committed' = IF commit_fire THEN Append(left, fill_bank_q) ELSE left
  <2> HIDE DEF left
  <2>1. CASE commit_fire
    BY <1>1, <1>2, <1>3, <2>1
  <2>2. CASE ~commit_fire
    BY <1>2, <1>3, <2>2
  <2> QED BY <2>1, <2>2
<1> DEFINE t == Num(consume_fire)
           u == Num(commit_fire)
           r == committed'
           x == fill_bank_q
<1>5. /\ t \in {0, 1} /\ (t = 1 <=> consume_fire)
      /\ u \in {0, 1} /\ (u = 1 <=> commit_fire)
  BY NumTypes
<1>6. r = IF u = 1 THEN Append(IF t = 1 THEN Tail(committed) ELSE committed, x)
          ELSE IF t = 1 THEN Tail(committed) ELSE committed
  <2> HIDE DEF t, u
  <2> QED BY <1>4, <1>5
<1>7. (t = 1 => committed # <<>>) /\ (u = 1 => x \in Bank) /\ committed \in Seq(Bank)
  BY <1>1, <1>5
<1> HIDE DEF r, t, u, x, left
<1>8. /\ r \in Seq(Bank) /\ Len(r) = Len(committed) - t + u
      /\ \A k \in 1 .. Len(committed) - t : r[k] = committed[k + t]
      /\ u = 1 => r[Len(committed) - t + 1] = x
  BY <1>5, <1>6, <1>7, QueueMove
<1>9. commit_fire => r[Len(committed) - t + 1] = x
  BY <1>5, <1>8
<1> QED BY <1>8, <1>9 DEF r, t, u, x

LEMMA ContextMoves ==
  ASSUME IInv, NEW in \in Inputs, Works(in)
  PROVE  LET new == [bank |-> CHOOSE b \in in.admit : TRUE, epoch |-> admitted % 3,
                     tile |-> Tile(admitted)]
         IN /\ ready' \in Seq(Contexts) /\ running' \in Seq(Contexts)
            /\ Len(ready') = Len(ready) - Num(in.start) + Num(in.admit # {})
            /\ Len(running') = Len(running) - Num(in.retire) + Num(in.start)
            /\ \A k \in 1 .. Len(ready) - Num(in.start) : ready'[k] = ready[k + Num(in.start)]
            /\ in.admit # {} =>
                 /\ ready'[Len(ready) - Num(in.start) + 1] = new /\ new \in Contexts
                 /\ in.admit = {new.bank}
            /\ \A k \in 1 .. Len(running) - Num(in.retire) :
                 running'[k] = running[k + Num(in.retire)]
            /\ in.start =>
                 running'[Len(running) - Num(in.retire) + 1] = Held(Started)
            /\ admitted' = admitted + Num(in.admit # {})
<1> DEFINE new == [bank |-> CHOOSE b \in in.admit : TRUE, epoch |-> admitted % 3,
                   tile |-> Tile(admitted)]
           news == {[bank |-> b, epoch |-> admitted % 3, tile |-> Tile(admitted)] :
                      b \in in.admit}
           left == IF in.start THEN Tail(ready) ELSE ready
           rest == IF in.retire THEN Tail(running) ELSE running
<1>1. /\ ready \in Seq(Contexts) /\ running \in Seq(Contexts) /\ admitted \in Nat
      /\ in.start \in BOOLEAN /\ in.retire \in BOOLEAN
      /\ in.start => ready # <<>> /\ Head(ready) = Held(Started)
      /\ in.retire => running # <<>>
  <2>1. /\ in.start \in BOOLEAN /\ in.retire \in BOOLEAN
        /\ in.start => ready # <<>> /\ Head(ready) = Held(Started)
        /\ in.retire => running # <<>>
    BY InputFacts
  <2> QED BY <2>1 DEF IInv, Typed, Structures, Numbers
<1>2. /\ in.layer = {}
      /\ admitted' = IF in.admit # {} THEN admitted + 1 ELSE admitted
      /\ IF news = {} THEN ready' = left ELSE \E c \in news : ready' = Append(left, c)
      /\ running' = IF in.start THEN Append(rest, Head(ready)) ELSE rest
  BY WorkEdges DEF ContextEdge, Works
<1>3. in.admit # {} => new \in Contexts /\ in.admit = {new.bank} /\ news = {new}
  <2> SUFFICES ASSUME in.admit # {}
               PROVE  new \in Contexts /\ in.admit = {new.bank} /\ news = {new}
    OBVIOUS
  <2>1. PICK b \in Bank : in.admit = {b}
    BY InputFacts
  <2>2. (CHOOSE c \in in.admit : TRUE) = b
    BY <2>1
  <2>3. new = [bank |-> b, epoch |-> admitted % 3, tile |-> Tile(admitted)]
    BY <2>2
  <2>4. Tile(admitted) \in [layer : {0, 1}, number : Nat]
    BY <1>1 DEF Tile, IInv, Typed, Numbers
  <2>5. new \in Contexts
    <3>1. admitted % 3 \in Nat
      BY <1>1
    <3> HIDE DEF new
    <3> QED BY <2>3, <2>4, <3>1 DEF Contexts
  <2>6. news = {[bank |-> b, epoch |-> admitted % 3, tile |-> Tile(admitted)]}
    BY <2>1
  <2> QED BY <2>1, <2>3, <2>5, <2>6
<1>4. ready' = IF in.admit # {} THEN Append(left, new) ELSE left
  <2>1. in.admit = {} => news = {}
    OBVIOUS
  <2> HIDE DEF new, news, left
  <2>2. news = {new} => news # {}
    OBVIOUS
  <2> QED BY <1>2, <1>3, <2>1, <2>2
<1>5. in.start => Head(ready) \in Contexts
  BY <1>1
<1> HIDE DEF new, news
<1> DEFINE t == Num(in.start)
           u == Num(in.admit # {})
           w == Num(in.retire)
           r == ready'
           z == running'
           x == Head(ready)
<1>6. /\ t \in {0, 1} /\ (t = 1 <=> in.start)
      /\ u \in {0, 1} /\ (u = 1 <=> in.admit # {})
      /\ w \in {0, 1} /\ (w = 1 <=> in.retire)
  BY DEF Num
<1>7. r = IF u = 1 THEN Append(IF t = 1 THEN Tail(ready) ELSE ready, new)
          ELSE IF t = 1 THEN Tail(ready) ELSE ready
  <2> HIDE DEF t, u
  <2> QED BY <1>4, <1>6
<1>8. z = IF t = 1 THEN Append(IF w = 1 THEN Tail(running) ELSE running, x)
          ELSE IF w = 1 THEN Tail(running) ELSE running
  <2> HIDE DEF t, w
  <2> QED BY <1>2, <1>6
<1>9. /\ t = 1 => ready # <<>> /\ x = Held(Started) /\ x \in Contexts
      /\ u = 1 => new \in Contexts
      /\ w = 1 => running # <<>>
      /\ ready \in Seq(Contexts) /\ running \in Seq(Contexts)
  BY <1>1, <1>3, <1>5, <1>6
<1> HIDE DEF t, u, w, r, z, x
<1>10. /\ r \in Seq(Contexts) /\ Len(r) = Len(ready) - t + u
       /\ \A k \in 1 .. Len(ready) - t : r[k] = ready[k + t]
       /\ u = 1 => r[Len(ready) - t + 1] = new
  BY <1>6, <1>7, <1>9, QueueMove
<1>11. /\ z \in Seq(Contexts) /\ Len(z) = Len(running) - w + t
       /\ \A k \in 1 .. Len(running) - w : z[k] = running[k + w]
       /\ t = 1 => z[Len(running) - w + 1] = x
  BY <1>6, <1>8, <1>9, QueueMove
<1>12. admitted' = admitted + Num(in.admit # {})
  BY <1>1, <1>2 DEF Num
<1>13. /\ in.admit # {} => r[Len(ready) - t + 1] = new /\ new \in Contexts /\ in.admit = {new.bank}
       /\ in.start => z[Len(running) - w + 1] = Held(Started)
  BY <1>3, <1>6, <1>9, <1>10, <1>11
<1> QED BY <1>10, <1>11, <1>12, <1>13 DEF new, t, u, w, r, z

\* A demand is at one place at a time.
LEMMA OnePlace ==
  ASSUME IInv
  PROVE  /\ ~(sched_weight_start /\ weight_format_pending_q)
         /\ sched_weight_start \/ weight_format_pending_q =>
              awaited /\ ~format_busy_q /\ ~weight_tile_complete_valid /\ ~sched_weight_done
         /\ format_busy_q => awaited /\ ~weight_tile_complete_valid /\ ~sched_weight_done
         /\ weight_tile_complete_valid => awaited /\ ~sched_weight_done
         /\ sched_weight_done => awaited
         /\ awaited => \/ sched_weight_start \/ weight_format_pending_q
                       \/ format_busy_q \/ weight_tile_complete_valid \/ sched_weight_done
<1> DEFINE a == Num(sched_weight_start \/ weight_format_pending_q)
           b == Num(format_busy_q)
           c == Num(weight_tile_complete_valid)
           d == Num(sched_weight_done)
           e == Num(awaited)
<1>1. a + b + c + d = e /\ ~(sched_weight_start /\ weight_format_pending_q)
  BY DEF IInv, Demanded
<1>2. /\ a \in {0, 1} /\ (a = 1 <=> sched_weight_start \/ weight_format_pending_q)
      /\ b \in {0, 1} /\ (b = 1 <=> format_busy_q)
      /\ c \in {0, 1} /\ (c = 1 <=> weight_tile_complete_valid)
      /\ d \in {0, 1} /\ (d = 1 <=> sched_weight_done)
      /\ e \in {0, 1} /\ (e = 1 <=> awaited)
  BY DEF Num
<1> HIDE DEF a, b, c, d, e
<1>3. /\ a = 1 => e = 1 /\ b = 0 /\ c = 0 /\ d = 0
      /\ b = 1 => e = 1 /\ c = 0 /\ d = 0
      /\ c = 1 => e = 1 /\ d = 0
      /\ d = 1 => e = 1
      /\ e = 1 => a = 1 \/ b = 1 \/ c = 1 \/ d = 1
  BY <1>1, <1>2
<1> QED BY <1>1, <1>2, <1>3

\* The counts move with the signals of the edge.
LEMMA CountMoves ==
  ASSUME IInv, NEW in \in Inputs, Works(in)
  PROVE  /\ demanded' = demanded + Num(in.demand)
         /\ Consumed' = Consumed + Num(consume_fire)
         /\ Stored' = Stored + Num(commit_fire)
         /\ Formatted' = Formatted + Num(formatter_done)
         /\ Credited' = Credited + Num(weight_tile_complete_fire)
         /\ credit_count_q' = credit_count_q + Num(weight_tile_complete_fire)
                                - Num(reads_done_q)
         /\ Loaded' = Loaded + Num(reads_done_q)
         /\ Started' = Started + Num(in.start)
         /\ Retired' = Retired + Num(in.retire)
         /\ admitted' = admitted + Num(in.admit # {})
<1>1. /\ demanded \in Nat /\ Consumed \in Nat /\ Stored \in Nat /\ Formatted \in Nat
      /\ Credited \in Nat /\ Loaded \in Nat /\ Started \in Nat /\ Retired \in Nat
      /\ admitted \in Nat
      /\ Len(desc) \in Nat /\ Len(committed) \in Nat
      /\ Len(ready) \in Nat /\ Len(running) \in Nat
  BY CountTypes
<1>2. \A condition : Num(condition) \in {0, 1}
  BY DEF Num
<1>3. in.layer = {}
  BY DEF Works
<1>4. /\ demanded' = IF in.demand THEN demanded + 1 ELSE demanded
      /\ sched_weight_start' = in.demand
      /\ weight_format_pending_q' =
           (sched_weight_start \/ (weight_format_pending_q /\ ~consume_fire))
  BY <1>3, WorkEdges DEF SchedulerEdge, FormatPendingNext
<1>5. demanded' = demanded + Num(in.demand)
  BY <1>1, <1>4 DEF Num
<1>6. in.demand => /\ ~sched_weight_start /\ ~weight_format_pending_q
  BY InputFacts, OnePlace
<1>7. consume_fire => weight_format_pending_q /\ ~format_busy_q
  BY FormatFacts
<1>8. Consumed' = Consumed + Num(consume_fire)
  <2>1. CASE in.demand
    <3>1. Consumed = demanded /\ Consumed' = demanded + 1 - 1 /\ ~consume_fire
      BY <1>1, <1>4, <1>6, <1>7, <2>1 DEF Consumed, Num
    <3> QED BY <1>1, <3>1 DEF Num
  <2>2. CASE ~in.demand /\ consume_fire
    <3>1. weight_format_pending_q /\ ~sched_weight_start
      BY <1>7, <2>2, OnePlace
    <3>2. Consumed = demanded - 1 /\ Consumed' = demanded - 0
      BY <1>1, <1>4, <2>2, <3>1 DEF Consumed, Num
    <3> QED BY <1>1, <2>2, <3>2 DEF Num
  <2>3. CASE ~in.demand /\ ~consume_fire
    <3>1. sched_weight_start' \/ weight_format_pending_q' <=>
            sched_weight_start \/ weight_format_pending_q
      BY <1>4, <2>3
    <3>2. Num(sched_weight_start' \/ weight_format_pending_q') =
            Num(sched_weight_start \/ weight_format_pending_q)
      BY <3>1 DEF Num
    <3>3. Consumed' = Consumed
      BY <1>4, <2>3, <3>2 DEF Consumed
    <3> QED BY <1>1, <2>3, <3>3 DEF Num
  <2> QED BY <2>1, <2>2, <2>3
<1>9. Stored' = Stored + Num(commit_fire)
  <2> DEFINE t == Num(consume_fire)
             u == Num(commit_fire)
             n == Len(committed')
             m == Consumed'
  <2>1. n = Len(committed) - t + u /\ t \in {0, 1} /\ u \in {0, 1}
    BY <1>2, CommittedMoves
  <2>2. Stored' = m + n
    BY DEF Stored
  <2>3. m = Consumed + t
    BY <1>8
  <2>4. Stored = Consumed + Len(committed)
    BY DEF Stored
  <2> HIDE DEF t, u, n, m
  <2>5. Stored' = Stored + u
    BY <1>1, <2>1, <2>2, <2>3, <2>4
  <2> QED BY <2>5 DEF u
<1>10. format_busy_q' = (consume_fire \/ (format_busy_q /\ ~formatter_done))
  BY WorkEdges DEF FormatEdge
<1>11. formatter_done => format_busy_q
  BY FormatFacts
<1>12. Num(format_busy_q') = Num(format_busy_q) + Num(consume_fire) - Num(formatter_done)
  <2>1. CASE consume_fire
    <3>1. format_busy_q' /\ ~format_busy_q /\ ~formatter_done
      BY <1>7, <1>10, <1>11, <2>1
    <3> QED BY <2>1, <3>1 DEF Num
  <2>2. CASE ~consume_fire /\ formatter_done
    <3>1. ~format_busy_q' /\ format_busy_q
      BY <1>10, <1>11, <2>2
    <3> QED BY <2>2, <3>1 DEF Num
  <2>3. CASE ~consume_fire /\ ~formatter_done
    <3>1. format_busy_q' <=> format_busy_q
      BY <1>10, <2>3
    <3>2. Num(format_busy_q') = Num(format_busy_q) /\ Num(format_busy_q) \in {0, 1}
      BY <3>1 DEF Num
    <3> QED BY <2>3, <3>2 DEF Num
  <2> QED BY <2>1, <2>2, <2>3
<1>13. Formatted' = Formatted + Num(formatter_done)
  <2> DEFINE t == Num(consume_fire)
             u == Num(formatter_done)
             n == Num(format_busy_q)
             m == Consumed'
             k == Num(format_busy_q')
  <2>1. t \in {0, 1} /\ u \in {0, 1} /\ n \in {0, 1} /\ k = n + t - u
    BY <1>2, <1>12
  <2>2. Formatted' = m - k /\ Formatted = Consumed - n /\ m = Consumed + t
    BY <1>8 DEF Formatted
  <2> HIDE DEF t, u, n, m, k
  <2>3. Formatted' = Formatted + u
    BY <1>1, <2>1, <2>2
  <2> QED BY <2>3 DEF u
<1>14. /\ weight_tile_complete_pending_q' =
             (weight_tile_complete_valid /\ ~weight_tile_complete_fire)
       /\ wgt_loader_done' = formatter_done
  BY WorkEdges DEF FormatEdge
<1>15. weight_tile_complete_fire => weight_tile_complete_valid
  BY DEF weight_tile_complete_fire
<1>16. formatter_done => ~weight_tile_complete_valid
  BY <1>11, OnePlace
<1>17. weight_tile_complete_valid' <=>
         (weight_tile_complete_valid /\ ~weight_tile_complete_fire) \/ formatter_done
  BY <1>14 DEF weight_tile_complete_valid
<1>18. Num(weight_tile_complete_valid') =
         Num(weight_tile_complete_valid) + Num(formatter_done) - Num(weight_tile_complete_fire)
  BY <1>15, <1>16, <1>17 DEF Num
<1>19. Credited' = Credited + Num(weight_tile_complete_fire)
  <2> DEFINE t == Num(formatter_done)
             u == Num(weight_tile_complete_fire)
             n == Num(weight_tile_complete_valid)
             m == Formatted'
             k == Num(weight_tile_complete_valid')
  <2>1. t \in {0, 1} /\ u \in {0, 1} /\ n \in {0, 1} /\ k = n + t - u
    BY <1>2, <1>18
  <2>2. Credited' = m - k /\ Credited = Formatted - n /\ m = Formatted + t
    BY <1>13 DEF Credited
  <2> HIDE DEF t, u, n, m, k
  <2>3. Credited' = Credited + u
    BY <1>1, <2>1, <2>2
  <2> QED BY <2>3 DEF u
<1>20. credit_count_q' = credit_count_q + Num(weight_tile_complete_fire) - Num(reads_done_q)
  <2>1. credit_fire(PreloadInputs(in)) <=> weight_tile_complete_fire
    BY DEF credit_fire, PreloadInputs, weight_tile_complete_fire
  <2>2. QueueEdge(PreloadInputs(in)) /\ (preload_commit_event <=> reads_done_q)
    BY WorkEdges, LoadFacts
  <2>3. credit_count_q' = credit_count_q + (IF weight_tile_complete_fire THEN 1 ELSE 0)
                            - (IF reads_done_q THEN 1 ELSE 0)
    BY <2>1, <2>2 DEF QueueEdge
  <2> QED BY <2>3 DEF Num
<1>21. /\ admitted' = admitted + Num(in.admit # {})
       /\ Len(ready') = Len(ready) - Num(in.start) + Num(in.admit # {})
       /\ Len(running') = Len(running) - Num(in.retire) + Num(in.start)
  BY ContextMoves
<1>22. Len(desc') = Len(desc) - Num(reads_done_q) + Num(in.admit # {})
  BY DescMoves
<1> DEFINE a == Num(in.admit # {})
           s == Num(in.start)
           e == Num(in.retire)
           r == Num(reads_done_q)
           A == admitted'
           D == Len(desc')
           R == Len(ready')
           U == Len(running')
<1>23. a \in {0, 1} /\ s \in {0, 1} /\ e \in {0, 1} /\ r \in {0, 1}
  BY <1>2
<1>24. A = admitted + a /\ D = Len(desc) - r + a /\ R = Len(ready) - s + a
       /\ U = Len(running) - e + s
  BY <1>21, <1>22
<1>25. /\ Loaded' = A - D /\ Started' = A - R /\ Retired' = A - R - U
       /\ Loaded = admitted - Len(desc) /\ Started = admitted - Len(ready)
       /\ Retired = admitted - Len(ready) - Len(running)
  BY DEF Loaded, Started, Retired
<1> HIDE DEF a, s, e, r, A, D, R, U
<1>26. Loaded' = Loaded + r /\ Started' = Started + s /\ Retired' = Retired + e
  BY <1>1, <1>23, <1>24, <1>25
<1> QED BY <1>5, <1>8, <1>9, <1>13, <1>19, <1>20, <1>21, <1>26 DEF r, s, e

\* The words keep their names while a layer lasts.
LEMMA NamesKept ==
  ASSUME NEW in \in Inputs, Works(in), NEW n
  PROVE  Tiles' = Tiles /\ Tile(n)' = Tile(n) /\ Packet(n)' = Packet(n) /\ At(n)' = At(n)
<1>1. parity' = parity /\ k_total' = k_total /\ cout_total' = cout_total
  BY WorkEdges
<1> QED BY <1>1 DEF Tiles, Tile, Packet, At

\* The contexts that stay are the same ones; the one admitted comes last.
LEMMA HeldMoves ==
  ASSUME IInv, NEW in \in Inputs, Works(in)
  PROVE  /\ \A n \in Retired' .. admitted - 1 : Held(n)' = Held(n)
         /\ \A n \in Nat : n = admitted /\ in.admit # {} =>
              /\ Held(n)' \in Contexts /\ Held(n)'.tile = Tile(n)
              /\ Held(n)'.epoch = n % 3 /\ in.admit = {Held(n)'.bank}
<1> DEFINE e == Num(in.retire)
           s == Num(in.start)
           a == Num(in.admit # {})
           R == Retired'
           S == Started'
           A == admitted
           z == running'
           y == ready'
           new == [bank |-> CHOOSE b \in in.admit : TRUE, epoch |-> admitted % 3,
                   tile |-> Tile(admitted)]
<1>1. /\ Retired \in Nat /\ Started \in Nat /\ A \in Nat
      /\ Retired <= Started /\ Started <= A
      /\ Started - Retired = Len(running) /\ A - Started = Len(ready)
  <2>1. Retired <= Started /\ Started <= A
    BY CountOrder
  <2> QED BY <2>1, CountTypes, HeldFacts
<1>2. e \in {0, 1} /\ s \in {0, 1} /\ a \in {0, 1}
  BY DEF Num
<1>3. /\ e = 1 => Retired < Started
      /\ s = 1 => Started < A /\ in.start
      /\ a = 1 <=> in.admit # {}
  <2>1. (e = 1 <=> in.retire) /\ (s = 1 <=> in.start) /\ (a = 1 <=> in.admit # {})
    BY DEF Num
  <2>2. /\ in.retire => Retired < Started
        /\ in.start => Started < Loaded
    BY InputFacts
  <2>3. Loaded <= admitted /\ Loaded \in Nat
    BY CountOrder, CountTypes
  <2> QED BY <1>1, <2>1, <2>2, <2>3
<1>4. R = Retired + e /\ S = Started + s
  BY CountMoves
<1>5. /\ \A k \in 1 .. Len(ready) - s : y[k] = ready[k + s]
      /\ in.admit # {} => /\ y[Len(ready) - s + 1] = new /\ new \in Contexts
                          /\ in.admit = {new.bank}
      /\ \A k \in 1 .. Len(running) - e : z[k] = running[k + e]
      /\ in.start => z[Len(running) - e + 1] = Held(Started)
  BY ContextMoves
<1>6. \A n : Held(n)' = IF n < S THEN z[n - R + 1] ELSE y[n - S + 1]
  BY DEF Held
<1>7. \A n : Held(n) = IF n < Started THEN running[n - Retired + 1] ELSE ready[n - Started + 1]
  BY DEF Held
<1>8. Tile(admitted) = new.tile /\ new.epoch = admitted % 3
  OBVIOUS
<1> HIDE DEF e, s, a, R, S, A, z, y, new
<1>9. ASSUME NEW n \in R .. A - 1 PROVE Held(n)' = Held(n)
  <2>0. n \in Int /\ R <= n /\ n <= A - 1 /\ Len(running) \in Int /\ Len(ready) \in Int
    BY <1>1, <1>2, <1>4
  <2>1. CASE n < Started
    <3>1. n < S /\ n - R + 1 \in 1 .. Len(running) - e /\ n - R + 1 + e = n - Retired + 1
      BY <1>1, <1>2, <1>4, <2>0, <2>1
    <3>2. z[n - R + 1] = running[n - R + 1 + e]
      BY <1>5, <3>1
    <3> QED BY <1>6, <1>7, <2>1, <3>1, <3>2
  <2>2. CASE n = Started /\ s = 1
    <3>1. n < S /\ n - R + 1 = Len(running) - e + 1
      BY <1>1, <1>2, <1>4, <2>0, <2>2
    <3>2. z[n - R + 1] = Held(n)
      BY <1>3, <1>5, <2>2, <3>1
    <3> QED BY <1>6, <3>1, <3>2
  <2>3. CASE n >= S
    <3>1. /\ ~(n < S) /\ ~(n < Started) /\ n - S + 1 \in 1 .. Len(ready) - s
          /\ n - S + 1 + s = n - Started + 1
      BY <1>1, <1>2, <1>4, <2>0, <2>3
    <3>2. y[n - S + 1] = ready[n - S + 1 + s]
      BY <1>5, <3>1
    <3> QED BY <1>6, <1>7, <3>1, <3>2
  <2> QED BY <1>1, <1>2, <1>4, <2>0, <2>1, <2>2, <2>3
<1>10. ASSUME NEW n \in Nat, n = A, in.admit # {} PROVE Held(n)' = new
  <2>0. s = 1 => Started < A
    BY <1>3
  <2>1. ~(n < S) /\ n - S + 1 = Len(ready) - s + 1
    <3>1. n = A
      BY <1>10
    <3>2. CASE s = 0
      BY <1>1, <1>4, <3>1, <3>2
    <3>3. CASE s = 1
      BY <1>1, <1>4, <2>0, <3>1, <3>3
    <3> QED BY <1>2, <3>2, <3>3
  <2>2. Held(n)' = y[n - S + 1]
    BY <1>6, <2>1
  <2>3. y[Len(ready) - s + 1] = new
    BY <1>5, <1>10
  <2> QED BY <2>1, <2>2, <2>3
<1>11. \A n \in Retired' .. admitted - 1 : Held(n)' = Held(n)
  BY <1>9 DEF R, A
<1>12. ASSUME NEW n \in Nat, n = admitted, in.admit # {}
       PROVE  /\ Held(n)' \in Contexts /\ Held(n)'.tile = Tile(n)
              /\ Held(n)'.epoch = n % 3 /\ in.admit = {Held(n)'.bank}
  <2>1. Held(n)' = new
    BY <1>10, <1>12 DEF A
  <2> QED BY <1>5, <1>8, <1>12, <2>1
<1> QED BY <1>11, <1>12

-----------------------------------------------------------------------------
(* What an edge within a layer preserves *)

LEMMA WorkErrors ==
  ASSUME IInv, NEW in \in Inputs, Works(in)
  PROVE  NoWeightErrors'
<1> DEFINE p == PreloadInputs(in)
<1>1. ~any_error /\ ~stage_fatal
  BY Clean
<1>2. ErrorEdge(p) /\ FillEdge
  BY WorkEdges
<1>3. ~descriptor_protocol_error /\ ~row_protocol_error
  BY LoadFacts
<1>4. ~owner_error(p) /\ ~epoch_error(p)
  BY RequestFacts
<1> HIDE DEF p
<1>5. ~any_error'
  BY <1>1, <1>2, <1>3, <1>4 DEF any_error, ErrorEdge
<1>6. /\ sticky_commit_overflow' = (sticky_commit_overflow \/ (commit_valid /\ ~commit_ready))
      /\ sticky_write_no_slot' =
           (sticky_write_no_slot \/ (wgt_tile_wr8 # {} /\ ~write_ready))
      /\ sticky_protocol_error' =
           (sticky_protocol_error \/ (commit_fire /\ ~fill_touched_q /\ wgt_tile_wr8 = {}))
  BY <1>2 DEF FillEdge
<1>7. commit_valid => commit_ready
  <2>1. commit_valid => commit_fire
    BY CommitFacts
  <2> QED BY <2>1 DEF commit_fire
<1>8. wgt_tile_wr8 # {} => write_ready
  <2>1. wgt_tile_wr8 # {} => weight_busy \/ weight_tile_ready
    BY DEF IInv, Filled
  <2>2. weight_busy \/ weight_tile_ready => fill_valid_q
    BY DEF IInv, Asked
  <2> QED BY <1>1, <2>1, <2>2 DEF write_ready
<1>9. commit_fire => wgt_tile_wr8 # {}
  <2>1. commit_fire => weight_tile_ready
    BY CommitFacts
  <2> QED BY <2>1 DEF IInv, Filled
<1>10. ~stage_fatal'
  BY <1>1, <1>6, <1>7, <1>8, <1>9 DEF stage_fatal
<1> QED BY <1>5, <1>10 DEF NoWeightErrors

\* A context is admitted only where there is room in the array.
LEMMA AdmitRoom ==
  ASSUME IInv, NEW in \in Inputs, in.admit # {}
  PROVE  /\ admitted < Retired + 2 /\ admitted < Tiles
         /\ \E b \in Bank : /\ in.admit = {b} /\ bank_state[b] = "EMPTY"
                            /\ \A n \in Retired .. admitted - 1 : Held(n).bank # b
<1>1. PICK b \in Bank : in.admit = {b} /\ alloc_ready([bank |-> b, epoch |-> admitted % 3])
  BY InputFacts
<1>2. bank_state[b] = "EMPTY"
  BY <1>1 DEF alloc_ready, alloc_base_ready
<1>3. \A n \in Retired .. admitted - 1 : Held(n).bank # b
  <2> SUFFICES ASSUME NEW n \in Retired .. admitted - 1 PROVE Held(n).bank # b
    OBVIOUS
  <2>1. bank_state[Held(n).bank] = StateOf(n)
    BY HeldFacts
  <2>2. StateOf(n) # "EMPTY"
    BY DEF StateOf
  <2> QED BY <1>2, <2>1, <2>2
<1>4. admitted < Retired + 2
  <2>1. Retired \in Nat /\ admitted \in Nat /\ admitted <= Retired + 2
    <3>1. admitted <= Retired + 2
      BY CountOrder
    <3> QED BY <3>1, CountTypes
  <2> SUFFICES ASSUME admitted = Retired + 2 PROVE FALSE
    BY <2>1
  <2> DEFINE n == Retired
             m == Retired + 1
  <2>2. n \in Retired .. admitted - 1 /\ m \in Retired .. admitted - 1 /\ n # m
    BY <2>1
  <2>3. Held(n).bank \in Bank /\ Held(m).bank \in Bank
    BY <2>2, HeldFacts
  <2>4. Held(n).bank # Held(m).bank
    BY <2>2 DEF IInv, Owned
  <2>5. Held(n).bank # b /\ Held(m).bank # b
    BY <1>3, <2>2
  <2> QED BY <2>3, <2>4, <2>5 DEF Bank
<1> QED BY <1>1, <1>2, <1>3, <1>4, InputFacts

LEMMA WorkCounted ==
  ASSUME IInv, NEW in \in Inputs, Works(in)
  PROVE  Counted'
<1> DEFINE a == Num(in.admit # {})
           s == Num(in.start)
           e == Num(in.retire)
           r == Num(reads_done_q)
           f == Num(weight_tile_complete_fire)
           d == Num(in.demand)
           c == Num(commit_fire)
           w == Num(formatter_done)
<1>1. /\ a \in {0, 1} /\ s \in {0, 1} /\ e \in {0, 1} /\ r \in {0, 1} /\ f \in {0, 1}
      /\ d \in {0, 1} /\ c \in {0, 1} /\ w \in {0, 1}
  BY DEF Num
<1>2. /\ a = 1 => in.admit # {}
      /\ s = 1 => in.start
      /\ e = 1 => in.retire
      /\ r = 1 => reads_done_q
      /\ d = 1 => in.demand
      /\ c = 1 => commit_fire
      /\ w = 1 => formatter_done
  BY DEF Num
<1>3. /\ demanded' = demanded + d /\ Stored' = Stored + c
      /\ Formatted' = Formatted + w
      /\ Credited' = Credited + f /\ credit_count_q' = credit_count_q + f - r
      /\ Loaded' = Loaded + r /\ Started' = Started + s /\ Retired' = Retired + e
      /\ admitted' = admitted + a
  BY CountMoves
<1>4. Tiles' = Tiles
  BY NamesKept
<1> HIDE DEF a, s, e, r, f, d, c, w
<1>5. /\ Retired \in Nat /\ Started \in Nat /\ Loaded \in Nat /\ Credited \in Nat
      /\ Formatted \in Nat /\ Consumed \in Nat /\ Stored \in Nat /\ Tiles \in Nat
      /\ admitted \in Nat /\ demanded \in Nat
  BY CountTypes
<1>6. /\ Retired <= Started /\ Started <= Loaded /\ Loaded <= admitted
      /\ admitted <= Retired + 2 /\ admitted <= Tiles
      /\ Credited = Loaded + credit_count_q /\ credit_count_q \in 0 .. 2
      /\ Formatted <= Consumed /\ Consumed <= Stored
      /\ Stored <= Formatted + 2 /\ Stored <= Tiles /\ demanded <= Tiles
  BY CountOrder
<1>7. a = 1 => admitted < Retired + 2 /\ admitted < Tiles
  BY <1>2, AdmitRoom
<1>8. s = 1 => Started < Loaded
  BY <1>2, InputFacts
<1>9. e = 1 => Retired < Started
  BY <1>2, InputFacts
<1>10. r = 1 => Loaded < admitted
  BY <1>2, LoadFacts
<1>11. d = 1 => demanded < Tiles
  BY <1>2, InputFacts
<1>12. c = 1 => Stored < Formatted + 2 /\ Stored < Tiles
  BY <1>2, CommitFacts
<1>13. w = 1 => Formatted < Consumed
  <2> SUFFICES ASSUME w = 1 PROVE Formatted < Consumed
    OBVIOUS
  <2>1. format_busy_q
    BY <1>2, FormatFacts
  <2>2. Formatted = Consumed - 1
    BY <2>1 DEF Formatted, Num
  <2> QED BY <1>5, <2>2
<1>14. 0 <= Retired' /\ Retired' <= Started' /\ Started' <= Loaded'
  BY <1>1, <1>3, <1>5, <1>6, <1>8, <1>9
<1>15. Loaded' <= admitted' /\ admitted' <= Tiles' /\ admitted' <= Retired' + 2
  BY <1>1, <1>3, <1>4, <1>5, <1>6, <1>7, <1>10
<1>16. Credited' = Loaded' + credit_count_q'
  BY <1>1, <1>3, <1>5, <1>6
<1>17. /\ Formatted' <= Stored' /\ Stored' <= Formatted' + 2
       /\ Stored' <= Tiles' /\ demanded' <= Tiles'
  BY <1>1, <1>3, <1>4, <1>5, <1>6, <1>11, <1>12, <1>13
<1> QED BY <1>14, <1>15, <1>16, <1>17 DEF Counted

\* There is room for a credit that is taken, and one to take for a load.
LEMMA CreditRoom ==
  ASSUME IInv
  PROVE  /\ weight_tile_complete_fire <=>
              weight_tile_complete_valid /\ (credit_count_q < 2 \/ reads_done_q)
         /\ reads_done_q => credit_count_q > 0
         /\ credit_count_q \in 0 .. 2
  BY Clean, LoadFacts, CountOrder DEF weight_tile_complete_fire, weight_tile_credit_ready

LEMMA WorkDemanded ==
  ASSUME IInv, NEW in \in Inputs, Works(in)
  PROVE  Demanded'
<1>1. /\ sched_weight_start' = in.demand
      /\ weight_format_pending_q' =
           (sched_weight_start \/ (weight_format_pending_q /\ ~consume_fire))
      /\ weight_tile_complete_pending_q' =
           (weight_tile_complete_valid /\ ~weight_tile_complete_fire)
      /\ sched_weight_done' = weight_tile_complete_fire
      /\ wgt_loader_done' = formatter_done
      /\ awaited' = (in.demand \/ (awaited /\ ~sched_weight_done))
  BY WorkEdges DEF SchedulerEdge, FormatPendingNext, FormatEdge
<1>2. in.demand => ~sched_weight_start /\ ~weight_format_pending_q
  BY InputFacts, OnePlace
<1>3. formatter_done => ~weight_tile_complete_valid
  BY FormatFacts, OnePlace
<1>4. ~(sched_weight_start' /\ weight_format_pending_q')
  BY <1>1, <1>2
<1>5. ~(weight_tile_complete_pending_q' /\ wgt_loader_done')
  BY <1>1, <1>3
<1> DEFINE d == Num(in.demand)
           f == Num(weight_tile_complete_fire)
           e == Num(sched_weight_done)
           w == Num(awaited)
           f2 == Num(sched_weight_done')
           w2 == Num(awaited')
           a2 == Num(sched_weight_start' \/ weight_format_pending_q')
           b2 == Num(format_busy_q')
           c2 == Num(weight_tile_complete_valid')
           a1 == Num(sched_weight_start \/ weight_format_pending_q)
           b1 == Num(format_busy_q)
           c1 == Num(weight_tile_complete_valid)
           D == demanded'
           C == Consumed'
           F == Formatted'
           K == Credited'
<1>6. /\ d \in {0, 1} /\ f \in {0, 1} /\ e \in {0, 1} /\ w \in {0, 1} /\ f2 \in {0, 1}
      /\ w2 \in {0, 1} /\ a2 \in {0, 1} /\ b2 \in {0, 1} /\ c2 \in {0, 1}
      /\ a1 \in {0, 1} /\ b1 \in {0, 1} /\ c1 \in {0, 1}
  BY DEF Num
<1>7. /\ C = D - a2 /\ F = C - b2 /\ K = F - c2
      /\ Consumed = demanded - a1 /\ Formatted = Consumed - b1 /\ Credited = Formatted - c1
  BY DEF Consumed, Formatted, Credited
<1>8. a1 + b1 + c1 + e = w
  BY DEF IInv, Demanded
<1>9. D = demanded + d /\ K = Credited + f
  BY CountMoves
<1>10. f2 = f
  BY <1>1
<1>11. /\ d = 1 => (w = 0 \/ e = 1) /\ w2 = 1
       /\ d = 0 => (w2 = 1 <=> w = 1 /\ e = 0)
       /\ e = 1 => w = 1
  <2>1. (d = 1 <=> in.demand) /\ (w = 1 <=> awaited) /\ (e = 1 <=> sched_weight_done)
        /\ (w2 = 1 <=> awaited')
    BY DEF Num
  <2>2. in.demand => ~awaited \/ sched_weight_done
    BY InputFacts
  <2>3. sched_weight_done => awaited
    BY OnePlace
  <2>4. awaited' <=> in.demand \/ (awaited /\ ~sched_weight_done)
    BY <1>1
  <2> HIDE DEF d, e, w, w2
  <2> QED BY <1>6, <2>1, <2>2, <2>3, <2>4
<1>12. demanded \in Nat /\ Credited \in Nat /\ Formatted \in Nat /\ Consumed \in Nat
  BY CountTypes
<1> HIDE DEF d, f, e, w, f2, w2, a2, b2, c2, a1, b1, c1, D, C, F, K
<1>13. a2 + b2 + c2 + f2 = w2
  <2>1. D \in Int /\ K \in Int
    BY <1>6, <1>9, <1>12
  <2>2. a2 + b2 + c2 = D - K /\ a1 + b1 + c1 = demanded - Credited
    BY <1>6, <1>7, <1>12, <2>1
  <2>3. a2 + b2 + c2 + f2 = w - e + d
    BY <1>6, <1>8, <1>9, <1>10, <1>12, <2>2
  <2> QED BY <1>6, <1>11, <2>3
<1>14. sched_weight_done' => credit_count_q' > 0
  <2> DEFINE r == Num(reads_done_q)
             m == credit_count_q'
  <2>1. m = credit_count_q + f - r
    BY CountMoves DEF f
  <2>2. r \in {0, 1} /\ (r = 1 => credit_count_q > 0) /\ credit_count_q \in 0 .. 2
    BY CreditRoom DEF Num
  <2>3. sched_weight_done' => f = 1
    BY <1>1 DEF f, Num
  <2> HIDE DEF r, m
  <2>4. sched_weight_done' => m > 0
    BY <1>6, <2>1, <2>2, <2>3
  <2> QED BY <2>4 DEF m
<1> QED BY <1>4, <1>5, <1>13, <1>14 DEF Demanded, a2, b2, c2, f2, w2

\* The receiver's edge.
LEMMA AxisMoves ==
  ASSUME IInv, NEW in \in Inputs, Works(in)
  PROVE  LET fire == weight_busy /\ in.beat
             last == fire /\ weight_count = BEATS - 1
         IN /\ weight_req_armed' = ((weight_req_armed \/ ~weight_req_r) /\ ~takes_request)
            /\ weight_busy' = ((weight_busy \/ takes_request) /\ ~last)
            /\ weight_count' = IF takes_request \/ last THEN 0
                               ELSE IF fire THEN weight_count + 1 ELSE weight_count
            /\ weight_tile_ready' = last
            /\ fire => wgt_tile_wr8' = {[addr |-> weight_count, data |-> Tile(Stored)]}
            /\ ~fire => wgt_tile_wr8' = {}
            /\ sent' = IF last THEN sent + 1 ELSE sent
            /\ weight_busy => /\ ~weight_tile_ready /\ ~commit_fire /\ sent = Stored
                              /\ weight_req_r /\ fill_valid_q
<1> DEFINE fire == weight_busy /\ in.beat
           last == fire /\ weight_count = BEATS - 1
           g == StagingInputs(in)
<1>1. g.beat = IF in.beat THEN {Tile(sent)} ELSE {}
  BY DEF StagingInputs
<1>2. fire <=> weight_busy /\ g.beat # {}
  BY <1>1
<1>3. AxisEdge(g) /\ StreamEdge(in) /\ in.layer = {}
  BY WorkEdges DEF Works
<1>4. weight_busy => /\ ~weight_tile_ready /\ ~commit_fire /\ sent = Stored
                     /\ weight_req_r /\ fill_valid_q
  <2> SUFFICES ASSUME weight_busy
               PROVE  /\ ~weight_tile_ready /\ ~commit_fire /\ sent = Stored
                      /\ weight_req_r /\ fill_valid_q
    OBVIOUS
  <2>1. ~weight_tile_ready /\ weight_req_r /\ sent = Stored + Num(weight_tile_ready)
    BY DEF IInv, Asked
  <2>2. fill_valid_q
    BY <2>1 DEF IInv, Asked
  <2>3. sent = Stored
    BY <2>1, CountTypes DEF Num
  <2> QED BY <2>1, <2>2, <2>3, CommitFacts
<1>5. fire => g.beat = {Tile(Stored)}
  BY <1>1, <1>4
<1> HIDE DEF g
<1>6. /\ weight_req_armed' = ((weight_req_armed \/ ~weight_req_r) /\ ~takes_request)
      /\ weight_busy' = ((weight_busy \/ takes_request) /\ ~last)
      /\ weight_count' = IF takes_request \/ last THEN 0
                         ELSE IF fire THEN weight_count + 1 ELSE weight_count
      /\ weight_tile_ready' = last
      /\ wgt_tile_wr8' = IF fire THEN {[addr |-> weight_count, data |-> d] : d \in g.beat}
                         ELSE {}
  BY <1>2, <1>3 DEF AxisEdge, weight_last_beat, NoWrite
<1>7. fire => wgt_tile_wr8' = {[addr |-> weight_count, data |-> Tile(Stored)]}
  <2> SUFFICES ASSUME fire
               PROVE  wgt_tile_wr8' = {[addr |-> weight_count, data |-> Tile(Stored)]}
    OBVIOUS
  <2> DEFINE x == Tile(Stored)
             y == weight_count
             z == wgt_tile_wr8'
  <2>1. g.beat = {x} /\ z = {[addr |-> y, data |-> d] : d \in g.beat}
    BY <1>5, <1>6
  <2> HIDE DEF x, y, z
  <2>2. z = {[addr |-> y, data |-> x]}
    BY <2>1
  <2> QED BY <2>2 DEF x, y, z
<1>8. sent' = IF last THEN sent + 1 ELSE sent
  BY <1>3 DEF StreamEdge, weight_last_beat
<1> QED BY <1>4, <1>6, <1>7, <1>8

\* What is written to the bank that is filled.
LEMMA FillMoves ==
  ASSUME IInv, NEW in \in Inputs, Works(in)
  PROVE  /\ wgt_tile_wr8 # {} => fill_valid_q /\ Received - 1 \in Beat
         /\ \A b \in Bank, i \in Beat :
              staged'[b][i] = IF wgt_tile_wr8 # {} /\ b = fill_bank_q /\ i = Received - 1
                              THEN Tile(Stored) ELSE staged[b][i]
         /\ DOMAIN staged' = Bank
         /\ \A b \in Bank : staged'[b] = [i \in Beat |-> staged'[b][i]]
         /\ ~commit_fire /\ fill_valid_q => fill_valid_q' /\ fill_bank_q' = fill_bank_q
<1>1. /\ DOMAIN staged = Bank
      /\ \A b \in Bank : staged[b] = [i \in Beat |-> staged[b][i]]
      /\ fill_bank_q \in Bank /\ weight_count \in Beat
  BY DEF IInv, Typed, Structures, Numbers
<1>2. /\ wgt_tile_wr8 # {} =>
           /\ weight_busy \/ weight_tile_ready
           /\ Received > 0
           /\ wgt_tile_wr8 = {[addr |-> Received - 1, data |-> Tile(Stored)]}
      /\ weight_busy \/ weight_tile_ready => fill_valid_q
  <2>1. weight_busy \/ weight_tile_ready => fill_valid_q
    BY DEF IInv, Asked
  <2> QED BY <2>1 DEF IInv, Filled
<1>3. /\ IF write_ready /\ wgt_tile_wr8 # {}
         THEN \E w \in wgt_tile_wr8 : staged' = [staged EXCEPT ![fill_bank_q][w.addr] = w.data]
         ELSE UNCHANGED staged
      /\ IF commit_fire THEN FillNext /\ fill_touched_q' = FALSE
         ELSE IF ~fill_valid_q /\ formatter_done
         THEN fill_bank_q' = format_bank_q /\ fill_valid_q' = TRUE
              /\ fill_touched_q' = FALSE
         ELSE UNCHANGED <<fill_bank_q, fill_valid_q>>
            /\ fill_touched_q' = (fill_touched_q \/ (wgt_tile_wr8 # {} /\ write_ready))
  BY WorkEdges DEF FillEdge
<1>4. write_ready <=> fill_valid_q
  BY FormatFacts
<1>5. wgt_tile_wr8 # {} => Received - 1 \in Beat
  <2>1. BEATS \in Nat \ {0} /\ weight_count \in 0 .. BEATS - 1
    BY <1>1, BeatsAssumption DEF Beat
  <2>2. wgt_tile_wr8 # {} => Received > 0
    BY <1>2
  <2>3. Received \in 0 .. BEATS
    BY <2>1 DEF Received
  <2> HIDE DEF Received
  <2> QED BY <2>1, <2>2, <2>3 DEF Beat
<1>6. /\ \A b \in Bank, i \in Beat :
           staged'[b][i] = IF wgt_tile_wr8 # {} /\ b = fill_bank_q /\ i = Received - 1
                           THEN Tile(Stored) ELSE staged[b][i]
      /\ DOMAIN staged' = Bank
      /\ \A b \in Bank : staged'[b] = [i \in Beat |-> staged'[b][i]]
  <2>1. CASE wgt_tile_wr8 # {}
    <3> DEFINE x == Tile(Stored)
               a == Received - 1
    <3>1. wgt_tile_wr8 = {[addr |-> a, data |-> x]} /\ a \in Beat
      BY <1>2, <1>5, <2>1
    <3>2. PICK w \in wgt_tile_wr8 : staged' = [staged EXCEPT ![fill_bank_q][w.addr] = w.data]
      BY <1>2, <1>3, <1>4, <2>1
    <3> HIDE DEF x, a
    <3>3. staged' = [staged EXCEPT ![fill_bank_q][a] = x]
      <4>1. w.addr = a /\ w.data = x
        BY <3>1
      <4> QED BY <3>2, <4>1
    <3>4. \A b \in Bank :
            staged'[b] = [i \in Beat |-> IF b = fill_bank_q /\ i = a THEN x ELSE staged[b][i]]
      <4> TAKE b \in Bank
      <4>1. CASE b = fill_bank_q
        <5>1. staged'[b] = [staged[b] EXCEPT ![a] = x]
          BY <1>1, <3>3, <4>1
        <5>2. DOMAIN staged[b] = Beat
          BY <1>1
        <5> QED BY <4>1, <5>1, <5>2
      <4>2. CASE b # fill_bank_q
        <5>1. staged'[b] = staged[b]
          BY <1>1, <3>3, <4>2
        <5>2. staged[b] = [i \in Beat |-> staged[b][i]]
          BY <1>1
        <5> QED BY <4>2, <5>1, <5>2
      <4> QED BY <4>1, <4>2
    <3>5. DOMAIN staged' = Bank
      BY <1>1, <3>3
    <3>6. \A b \in Bank : staged'[b] = [i \in Beat |-> staged'[b][i]]
      <4> TAKE b \in Bank
      <4> DEFINE g(i) == IF b = fill_bank_q /\ i = a THEN x ELSE staged[b][i]
      <4>1. staged'[b] = [i \in Beat |-> g(i)]
        BY <3>4
      <4> HIDE DEF g
      <4> QED BY <4>1
    <3>7. \A b \in Bank, i \in Beat :
            staged'[b][i] = IF b = fill_bank_q /\ i = a THEN x ELSE staged[b][i]
      BY <3>4
    <3> QED BY <2>1, <3>5, <3>6, <3>7 DEF x, a
  <2>2. CASE wgt_tile_wr8 = {}
    <3>1. staged' = staged
      BY <1>3, <2>2
    <3> QED BY <1>1, <2>2, <3>1
  <2> QED BY <2>1, <2>2
<1>7. ~commit_fire /\ fill_valid_q => fill_valid_q' /\ fill_bank_q' = fill_bank_q
  BY <1>3
<1> QED BY <1>2, <1>5, <1>6, <1>7

LEMMA WorkFilled ==
  ASSUME IInv, NEW in \in Inputs, Works(in)
  PROVE  Filled'
<1> DEFINE fire == weight_busy /\ in.beat
           last == fire /\ weight_count = BEATS - 1
           N == Stored'
           V == wgt_tile_wr8'
           X == Received'
           x == Tile(Stored)
<1>0. /\ BEATS \in Nat \ {0} /\ weight_count \in 0 .. BEATS - 1 /\ Stored \in Nat
  BY BeatsAssumption, CountTypes DEF IInv, Typed, Numbers, Beat
<1>1. /\ weight_busy' = ((weight_busy \/ takes_request) /\ ~last)
      /\ weight_count' = IF takes_request \/ last THEN 0
                         ELSE IF fire THEN weight_count + 1 ELSE weight_count
      /\ weight_tile_ready' = last
      /\ fire => V = {[addr |-> weight_count, data |-> x]}
      /\ ~fire => V = {}
      /\ weight_busy => ~weight_tile_ready /\ ~commit_fire /\ fill_valid_q
  BY AxisMoves
<1>2. takes_request => ~weight_busy /\ weight_req_r /\ weight_req_armed
  BY DEF takes_request
<1>3. takes_request => ~weight_tile_ready /\ ~commit_fire /\ fill_valid_q
  <2>1. /\ weight_tile_ready => ~weight_req_armed
        /\ weight_req_r => fill_valid_q
    BY DEF IInv, Asked
  <2> QED BY <1>2, <2>1, CommitFacts
<1>4. Received = IF weight_tile_ready THEN BEATS ELSE weight_count
  BY DEF Received
<1>5. X = IF weight_tile_ready' THEN BEATS ELSE weight_count'
  BY DEF Received
<1>6. weight_busy => Received = weight_count /\ X = weight_count + Num(fire)
  <2> SUFFICES ASSUME weight_busy
               PROVE  Received = weight_count /\ X = weight_count + Num(fire)
    OBVIOUS
  <2>1. ~takes_request
    BY <1>2
  <2>2. CASE last
    <3>1. X = BEATS /\ Received = weight_count /\ fire /\ weight_count = BEATS - 1
      BY <1>1, <1>4, <1>5, <2>2
    <3>2. Num(fire) = 1
      BY <3>1 DEF Num
    <3> QED BY <1>0, <3>1, <3>2
  <2>3. CASE fire /\ ~last
    BY <1>0, <1>1, <1>4, <1>5, <2>1, <2>3 DEF Num
  <2>4. CASE ~fire
    <3>1. X = weight_count /\ Received = weight_count
      BY <1>1, <1>4, <1>5, <2>1, <2>4
    <3>2. Num(fire) = 0
      BY <2>4 DEF Num
    <3> QED BY <1>0, <3>1, <3>2
  <2> QED BY <2>2, <2>3, <2>4
<1>7. weight_busy' \/ weight_tile_ready' => weight_busy \/ takes_request
  BY <1>1
<1>8. ~commit_fire => N = Stored
  <2>1. N = Stored + Num(commit_fire)
    BY CountMoves
  <2> QED BY <1>0, <2>1 DEF Num
<1>9. \A n : Tile(n)' = Tile(n)
  BY NamesKept
<1>10. ~commit_fire => Tile(N) = x
  BY <1>8
<1>11. Tile(Stored)' = [layer |-> parity', number |-> N] /\ parity' = parity
  BY WorkEdges DEF Tile
<1>12. Tile(Stored)' = Tile(N)
  BY <1>11 DEF Tile
<1>13. V # {} => /\ weight_busy' \/ weight_tile_ready'
                 /\ X > 0
                 /\ V = {[addr |-> X - 1, data |-> Tile(Stored)']}
  <2> SUFFICES ASSUME V # {}
               PROVE  /\ weight_busy' \/ weight_tile_ready'
                      /\ X > 0
                      /\ V = {[addr |-> X - 1, data |-> Tile(Stored)']}
    OBVIOUS
  <2>1. fire
    BY <1>1
  <2>2. weight_busy' \/ weight_tile_ready'
    BY <1>1, <2>1
  <2>3. X = weight_count + 1
    BY <1>6, <2>1 DEF Num
  <2>4. X > 0 /\ X - 1 = weight_count
    BY <1>0, <2>3
  <2>5. Tile(Stored)' = x
    BY <1>1, <1>10, <1>12, <2>1
  <2> QED BY <1>1, <2>1, <2>2, <2>4, <2>5
<1>14. weight_tile_ready' => V # {}
  BY <1>1
<1>15. ASSUME weight_busy' \/ weight_tile_ready', NEW i \in Beat, i < Written'
       PROVE  staged'[fill_bank_q'][i] = Tile(Stored)'
  <2>1. weight_busy \/ takes_request
    BY <1>7, <1>15
  <2>2. ~commit_fire /\ fill_valid_q
    BY <1>1, <1>3, <2>1
  <2>3. fill_bank_q' = fill_bank_q /\ fill_bank_q \in Bank
    BY <2>2, FillMoves DEF IInv, Typed, Numbers
  <2>4. Tile(Stored)' = x
    BY <1>10, <1>12, <2>2
  <2>5. Written' = X - Num(V # {})
    BY DEF Written
  <2>6. V # {} <=> fire
    BY <1>1
  <2>7. Num(V # {}) = Num(fire)
    BY <2>6 DEF Num
  <2>8. i \in Nat
    BY <1>0 DEF Beat
  <2>9. weight_busy
    <3> SUFFICES ASSUME ~weight_busy PROVE FALSE
      OBVIOUS
    <3>1. takes_request /\ ~fire /\ ~last
      BY <2>1
    <3>2. X = 0
      BY <1>1, <1>5, <3>1
    <3>3. Written' = 0
      <4>1. Num(fire) = 0
        BY <3>1 DEF Num
      <4> QED BY <2>5, <2>7, <3>2, <4>1
    <3> QED BY <1>15, <2>8, <3>3
  <2>10. i < weight_count /\ Received = weight_count
    <3>1. X = weight_count + Num(fire) /\ Num(fire) \in {0, 1} /\ Received = weight_count
      BY <1>6, <2>9 DEF Num
    <3>2. Written' = weight_count
      BY <1>0, <2>5, <2>7, <3>1
    <3> QED BY <1>15, <3>1, <3>2
  <2>11. staged'[fill_bank_q][i] =
           IF wgt_tile_wr8 # {} /\ fill_bank_q = fill_bank_q /\ i = Received - 1
           THEN x ELSE staged[fill_bank_q][i]
    BY <2>3, FillMoves
  <2>12. i < Written => staged[fill_bank_q][i] = x
    BY <2>9 DEF IInv, Filled
  <2>13. Written = Received - Num(wgt_tile_wr8 # {})
    BY DEF Written
  <2>14. CASE wgt_tile_wr8 # {}
    <3>1. Written = weight_count - 1
      BY <2>10, <2>13, <2>14 DEF Num
    <3>2. i = Received - 1 \/ i < Written
      BY <1>0, <2>8, <2>10, <3>1
    <3> QED BY <2>3, <2>4, <2>11, <2>12, <2>14, <3>2
  <2>15. CASE wgt_tile_wr8 = {}
    <3>1. Written = weight_count
      BY <1>0, <2>10, <2>13, <2>15 DEF Num
    <3> QED BY <2>3, <2>4, <2>10, <2>11, <2>12, <2>15, <3>1
  <2> QED BY <2>14, <2>15
<1> QED BY <1>13, <1>14, <1>15 DEF Filled

LEMMA WorkAsked ==
  ASSUME IInv, NEW in \in Inputs, Works(in)
  PROVE  Asked'
<1> DEFINE fire == weight_busy /\ in.beat
           last == fire /\ weight_count = BEATS - 1
           N == Stored'
           k == k_total
           n == cout_total
           i == weight_ingress_k_q
           j == weight_ingress_cout_q
           i2 == weight_ingress_k_q'
           j2 == weight_ingress_cout_q'
           more == weight_ingress_more_q
           more2 == weight_ingress_more_q'
<1>0. k \in Nat /\ n \in Nat /\ i \in Nat /\ j \in Nat /\ Stored \in Nat
  BY CountTypes DEF IInv, Typed, Numbers
<1>1. /\ weight_req_armed' = ((weight_req_armed \/ ~weight_req_r) /\ ~takes_request)
      /\ weight_busy' = ((weight_busy \/ takes_request) /\ ~last)
      /\ weight_count' = IF takes_request \/ last THEN 0
                         ELSE IF fire THEN weight_count + 1 ELSE weight_count
      /\ weight_tile_ready' = last
      /\ sent' = IF last THEN sent + 1 ELSE sent
      /\ weight_busy => /\ ~weight_tile_ready /\ ~commit_fire /\ sent = Stored
                        /\ weight_req_r /\ fill_valid_q
  BY AxisMoves
<1>2. takes_request <=> ~weight_busy /\ weight_req_r /\ weight_req_armed
  BY DEF takes_request
<1>3. /\ IF more THEN Stored = j * k + i /\ i < k /\ j < n ELSE Stored = Tiles
      /\ weight_req_r => fill_valid_q /\ more
      /\ weight_busy \/ weight_tile_ready => weight_req_r /\ ~weight_req_armed
      /\ ~weight_busy => weight_count = 0
      /\ sent = Stored + Num(weight_tile_ready)
  BY DEF IInv, Asked
<1>4. (commit_valid <=> commit_fire) /\ (commit_fire <=> weight_tile_ready)
  BY CommitFacts
<1>5. IF commit_valid
      THEN /\ weight_req_r' = FALSE
           /\ i2 = IF i + 1 >= k THEN 0 ELSE i + 1
           /\ j2 = IF i + 1 >= k /\ ~(j + 1 >= n) THEN j + 1 ELSE j
           /\ more2 = (more /\ ~(i + 1 >= k /\ j + 1 >= n))
      ELSE /\ weight_req_r' = (weight_req_r \/ (more /\ write_ready /\ ~stage_fatal))
           /\ i2 = i /\ j2 = j /\ more2 = more
  BY WorkEdges DEF IngressEdge, weight_ingress_last_k, weight_ingress_last_cout
<1>6. k_total' = k /\ cout_total' = n /\ Tiles' = Tiles /\ Tiles = k * n
  BY WorkEdges, NamesKept DEF Tiles
<1>7. N = Stored + Num(commit_fire)
  BY CountMoves
<1>8. IF more2 THEN N = j2 * k + i2 /\ i2 < k /\ j2 < n ELSE N = Tiles
  <2>1. CASE ~commit_fire
    <3>1. N = Stored
      BY <1>0, <1>7, <2>1 DEF Num
    <3> QED BY <1>3, <1>4, <1>5, <2>1, <3>1
  <2>2. CASE commit_fire
    <3>1. more /\ Stored = j * k + i /\ i < k /\ j < n
      BY <1>3, <1>4, <2>2
    <3>2. N = Stored + 1
      BY <1>7, <2>2 DEF Num
    <3>3. commit_valid
      BY <1>4, <2>2
    <3> HIDE DEF k, n, i, j, i2, j2, more, more2, N
    <3>8. /\ i2 = IF i + 1 >= k THEN 0 ELSE i + 1
          /\ j2 = IF i + 1 >= k /\ ~(j + 1 >= n) THEN j + 1 ELSE j
      BY <1>5, <3>3
    <3>9. more2 <=> ~(i + 1 >= k /\ j + 1 >= n)
      BY <1>5, <3>1, <3>3
    <3>10. (i + 1 >= k => i + 1 = k) /\ (j + 1 >= n => j + 1 = n)
      BY <1>0, <3>1
    <3>11. ~(i + 1 >= k) => i + 1 < k
      BY <1>0
    <3>12. ~(j + 1 >= n) => j + 1 < n
      BY <1>0
    <3>4. j * k \in Nat /\ (j + 1) * k = j * k + k /\ n * k = k * n
      BY <1>0, SMTT(30)
    <3>5. CASE i + 1 >= k /\ j + 1 >= n
      <4>1. ~more2 /\ i + 1 = k /\ j + 1 = n
        BY <3>5, <3>9, <3>10
      <4>2. N = (j + 1) * k
        BY <1>0, <3>1, <3>2, <3>4, <4>1
      <4>3. N = n * k
        BY <4>1, <4>2
      <4> QED BY <1>6, <3>4, <4>1, <4>3
    <3>6. CASE i + 1 >= k /\ ~(j + 1 >= n)
      <4>1. more2 /\ i + 1 = k /\ j2 = j + 1 /\ j2 < n /\ i2 = 0 /\ 0 < k
        BY <1>0, <3>1, <3>6, <3>8, <3>9, <3>10, <3>12
      <4>2. N = (j + 1) * k + 0
        BY <1>0, <3>1, <3>2, <3>4, <4>1
      <4> QED BY <4>1, <4>2
    <3>7. CASE ~(i + 1 >= k)
      <4>1. more2 /\ i2 = i + 1 /\ j2 = j /\ i2 < k /\ j2 < n
        BY <3>1, <3>7, <3>8, <3>9, <3>11
      <4>2. N = j * k + (i + 1)
        BY <1>0, <3>1, <3>2, <3>4
      <4> QED BY <4>1, <4>2
    <3> QED BY <3>5, <3>6, <3>7
  <2> QED BY <2>1, <2>2
<1>9. weight_req_r' => fill_valid_q' /\ more2
  <2> SUFFICES ASSUME weight_req_r' PROVE fill_valid_q' /\ more2
    OBVIOUS
  <2>1. ~commit_fire /\ more2 = more /\ (weight_req_r \/ (more /\ write_ready))
    BY <1>4, <1>5
  <2>2. write_ready <=> fill_valid_q
    BY FormatFacts
  <2>3. fill_valid_q /\ more
    BY <1>3, <2>1, <2>2
  <2> QED BY <2>1, <2>3, FillMoves
<1>10. weight_busy' \/ weight_tile_ready' => weight_req_r' /\ ~weight_req_armed'
  <2> SUFFICES ASSUME weight_busy' \/ weight_tile_ready'
               PROVE  weight_req_r' /\ ~weight_req_armed'
    OBVIOUS
  <2>1. weight_busy \/ takes_request
    BY <1>1
  <2>2. weight_req_r /\ ~weight_tile_ready
    BY <1>1, <1>2, <1>3, <2>1
  <2>3. weight_req_r'
    BY <1>4, <1>5, <2>2
  <2>4. ~weight_req_armed'
    BY <1>1, <1>2, <1>3, <2>1, <2>2
  <2> QED BY <2>3, <2>4
<1>11. ~(weight_busy' /\ weight_tile_ready')
  BY <1>1
<1>12. ~weight_busy' => weight_count' = 0
  BY <1>1, <1>3
<1>13. sent' = N + Num(weight_tile_ready')
  <2>1. CASE last
    <3>1. sent' = Stored + 1 /\ N = Stored
      BY <1>0, <1>1, <1>7, <2>1 DEF Num
    <3>2. Num(weight_tile_ready') = 1
      BY <1>1, <2>1 DEF Num
    <3> QED BY <3>1, <3>2
  <2>2. CASE ~last
    <3>1. sent' = sent
      BY <1>1, <2>2
    <3>2. Num(weight_tile_ready') = 0
      BY <1>1, <2>2 DEF Num
    <3>3. Num(weight_tile_ready) = Num(commit_fire) /\ Num(commit_fire) \in {0, 1}
      BY <1>4 DEF Num
    <3> HIDE DEF N
    <3>4. N = sent /\ N \in Nat
      BY <1>0, <1>3, <1>7, <3>3
    <3> QED BY <3>1, <3>2, <3>4
  <2> QED BY <2>1, <2>2
<1>14. IF more2 THEN N = j2 * k_total' + i2 /\ i2 < k_total' /\ j2 < cout_total' ELSE N = Tiles'
  BY <1>6, <1>8
<1> QED BY <1>9, <1>10, <1>11, <1>12, <1>13, <1>14 DEF Asked

\* The bank that is filled is that of the next tile; the one that is spread is
\* that of the tile in turn.
LEMMA WorkStaged ==
  ASSUME IInv, NEW in \in Inputs, Works(in)
  PROVE  Staged'
<1> DEFINE F == Formatted'
           N == Stored'
           C == Consumed'
           t == Num(consume_fire)
           L == Len(committed')
<1>0. /\ Formatted \in Nat /\ Stored \in Nat /\ Consumed \in Nat /\ Len(committed) \in Nat
      /\ Formatted <= Consumed /\ Consumed <= Stored /\ Stored <= Formatted + 2
      /\ Consumed + Len(committed) = Stored
  <2>1. Formatted <= Consumed /\ Consumed <= Stored /\ Stored <= Formatted + 2
    BY CountOrder
  <2> QED BY <2>1, CountTypes DEF Stored
<1>1. /\ C = Consumed + t /\ N = Stored + Num(commit_fire)
      /\ F = Formatted + Num(formatter_done)
  BY CountMoves
<1>2. t \in {0, 1} /\ (t = 1 => committed # <<>>)
  BY FormatFacts DEF Num
<1>3. /\ commit_fire => fill_valid_q /\ Stored < Formatted + 2
      /\ formatter_done => format_busy_q
      /\ consume_fire => ~format_busy_q
  BY CommitFacts, FormatFacts
<1>4. /\ \A k \in 1 .. Len(committed) : committed[k] = (Consumed + k - 1) % 2
      /\ \A b \in Bank : occupied_q[b] <=> \E n \in Formatted .. Stored - 1 : n % 2 = b
      /\ fill_valid_q <=> Stored < Formatted + 2
      /\ fill_valid_q => fill_bank_q = Stored % 2
      /\ format_busy_q => format_bank_q = Formatted % 2
      /\ ~format_busy_q => format_col_q = 0
      /\ \A n \in Formatted .. Stored - 1 : staged[n % 2] = Packet(n)
  BY DEF IInv, Staged
<1>5. format_busy_q => Formatted + 1 = Consumed
  BY <1>0 DEF Formatted, Num
<1>6. ~format_busy_q => Formatted = Consumed
  BY <1>0 DEF Formatted, Num
<1>7. ASSUME NEW k \in 1 .. L PROVE committed'[k] = (C + k - 1) % 2
  <2> DEFINE u == Num(commit_fire)
  <2>1. u \in {0, 1} /\ (u = 1 <=> commit_fire)
    BY DEF Num
  <2>2. /\ L = Len(committed) - t + u
        /\ \A m \in 1 .. Len(committed) - t : committed'[m] = committed[m + t]
        /\ commit_fire => committed'[Len(committed) - t + 1] = fill_bank_q
    BY CommittedMoves
  <2> HIDE DEF u, t, C, L
  <2>3. CASE k \in 1 .. Len(committed) - t
    <3>1. committed'[k] = committed[k + t] /\ k + t \in 1 .. Len(committed)
      BY <1>0, <1>2, <2>2, <2>3
    <3>2. Consumed + (k + t) - 1 = C + k - 1
      BY <1>0, <1>1, <1>2, <2>3
    <3> QED BY <1>4, <3>1, <3>2
  <2>4. CASE k \notin 1 .. Len(committed) - t
    <3>1. u = 1 /\ k = Len(committed) - t + 1
      BY <1>0, <1>2, <2>1, <2>2, <2>4
    <3>2. committed'[k] = Stored % 2
      BY <1>3, <1>4, <2>1, <2>2, <3>1
    <3>3. C + k - 1 = Stored
      <4>1. C = Consumed + t /\ t \in {0, 1} /\ k = Len(committed) - t + 1
        BY <1>1, <1>2, <3>1
      <4> QED BY <1>0, <4>1
    <3> QED BY <3>2, <3>3
  <2> QED BY <2>3, <2>4
<1>8. /\ occupied_q' = [b \in Bank |->
            (occupied_q[b] \/ (commit_fire /\ b = fill_bank_q))
              /\ ~(formatter_done /\ b = format_bank_q)]
      /\ IF commit_fire THEN FillNext /\ fill_touched_q' = FALSE
         ELSE IF ~fill_valid_q /\ formatter_done
         THEN fill_bank_q' = format_bank_q /\ fill_valid_q' = TRUE
              /\ fill_touched_q' = FALSE
         ELSE UNCHANGED <<fill_bank_q, fill_valid_q>>
            /\ fill_touched_q' = (fill_touched_q \/ (wgt_tile_wr8 # {} /\ write_ready))
      /\ format_busy_q' = (consume_fire \/ (format_busy_q /\ ~formatter_done))
      /\ format_bank_q' = IF consume_fire THEN Head(committed) ELSE format_bank_q
      /\ format_col_q' = IF consume_fire \/ formatter_done THEN 0
                         ELSE IF formatter_fire THEN format_col_q + 1 ELSE format_col_q
  BY WorkEdges DEF FillEdge, FormatEdge
<1>9. /\ commit_fire => N = Stored + 1
      /\ ~commit_fire => N = Stored
      /\ formatter_done => F = Formatted + 1
      /\ ~formatter_done => F = Formatted
  BY <1>0, <1>1 DEF Num
<1>10. formatter_done => Formatted < Stored /\ format_bank_q = Formatted % 2
  BY <1>0, <1>3, <1>4, <1>5
<1> HIDE DEF F, N, C, t, L
<1>11. ASSUME NEW b \in Bank
       PROVE  occupied_q'[b] <=> \E n \in F .. N - 1 : n % 2 = b
  <2>1. occupied_q'[b] <=> (occupied_q[b] \/ (commit_fire /\ b = fill_bank_q))
                             /\ ~(formatter_done /\ b = format_bank_q)
    BY <1>8
  <2>2. (\E n \in Formatted .. N - 1 : n % 2 = b) <=>
          occupied_q[b] \/ (commit_fire /\ b = fill_bank_q)
    <3>1. CASE commit_fire
      <4>1. Formatted .. N - 1 = (Formatted .. Stored - 1) \cup {Stored}
        BY <1>0, <1>9, <3>1
      <4> QED BY <1>3, <1>4, <3>1, <4>1
    <3>2. CASE ~commit_fire
      BY <1>4, <1>9, <3>2
    <3> QED BY <3>1, <3>2
  <2>3. CASE ~formatter_done
    BY <1>9, <2>1, <2>2, <2>3
  <2>4. CASE formatter_done
    <3>1. Formatted < N /\ N <= Formatted + 2 /\ N \in Nat
      BY <1>0, <1>3, <1>9, <1>10, <2>4
    <3>2. /\ Formatted .. N - 1 = (F .. N - 1) \cup {Formatted}
          /\ \A n \in F .. N - 1 : n = Formatted + 1
      BY <1>0, <1>9, <2>4, <3>1
    <3>3. (Formatted + 1) % 2 # Formatted % 2
      BY <1>0, Turns
    <3>4. CASE b = Formatted % 2
      BY <1>10, <2>1, <2>4, <3>2, <3>3, <3>4
    <3>5. CASE b # Formatted % 2
      BY <1>10, <2>1, <2>2, <2>4, <3>2, <3>5
    <3> QED BY <3>4, <3>5
  <2> QED BY <2>3, <2>4
<1>12. /\ fill_valid_q' <=> N < F + 2
       /\ fill_valid_q' => fill_bank_q' = N % 2
  <2>1. CASE commit_fire
    <3>1. /\ Stored = Formatted \/ Stored = Formatted + 1
          /\ fill_bank_q = Stored % 2 /\ N = Stored + 1
      BY <1>0, <1>3, <1>4, <1>9, <2>1
    <3>2. 1 - fill_bank_q = (Stored + 1) % 2 /\ 1 - fill_bank_q \in Bank
      BY <1>0, <3>1, Turns
    <3>3. IF ~occupied_q[1 - fill_bank_q]
               \/ (formatter_done /\ format_bank_q = 1 - fill_bank_q)
          THEN fill_bank_q' = 1 - fill_bank_q /\ fill_valid_q' = TRUE
          ELSE fill_bank_q' = fill_bank_q /\ fill_valid_q' = FALSE
      BY <1>8, <2>1 DEF FillNext
    <3>4. CASE Stored = Formatted
      <4>1. Formatted .. Stored - 1 = {}
        BY <1>0, <3>4
      <4>2. ~occupied_q[1 - fill_bank_q]
        BY <1>4, <3>2, <4>1
      <4>3. N < F + 2
        BY <1>0, <1>9, <3>1, <3>4
      <4> QED BY <3>1, <3>2, <3>3, <4>2, <4>3
    <3>5. CASE Stored = Formatted + 1
      <4>1. Formatted \in Formatted .. Stored - 1
        BY <1>0, <3>5
      <4>2. (Stored + 1) % 2 = Formatted % 2
        <5>1. Stored + 1 = Formatted + 2
          BY <1>0, <3>5
        <5> QED BY <1>0, <5>1, Turns
      <4>3. occupied_q[1 - fill_bank_q]
        BY <1>4, <3>2, <4>1, <4>2
      <4>4. CASE formatter_done
        <5>1. N < F + 2
          BY <1>0, <1>9, <3>1, <3>5, <4>4
        <5> QED BY <1>10, <3>1, <3>2, <3>3, <4>2, <4>4, <5>1
      <4>5. CASE ~formatter_done
        <5>1. ~(N < F + 2)
          BY <1>0, <1>9, <3>1, <3>5, <4>5
        <5> QED BY <3>3, <4>3, <4>5, <5>1
      <4> QED BY <4>4, <4>5
    <3> QED BY <3>1, <3>4, <3>5
  <2>2. CASE ~commit_fire /\ ~fill_valid_q /\ formatter_done
    <3>1. Stored = Formatted + 2 /\ N = Stored /\ F = Formatted + 1
      BY <1>0, <1>4, <1>9, <2>2
    <3>2. fill_bank_q' = Formatted % 2 /\ fill_valid_q'
      BY <1>8, <1>10, <2>2
    <3>3. N % 2 = Formatted % 2 /\ N < F + 2
      BY <1>0, <3>1, Turns
    <3> QED BY <3>2, <3>3
  <2>3. CASE ~commit_fire /\ ~fill_valid_q /\ ~formatter_done
    BY <1>4, <1>8, <1>9, <2>3
  <2>4. CASE ~commit_fire /\ fill_valid_q
    <3>1. fill_bank_q' = fill_bank_q /\ fill_valid_q'
      BY <1>8, <2>4
    <3>2. N = Stored /\ Stored < Formatted + 2
      BY <1>4, <1>9, <2>4
    <3>3. N < F + 2
      BY <1>0, <1>9, <3>2
    <3> QED BY <1>4, <2>4, <3>1, <3>2, <3>3
  <2> QED BY <2>1, <2>2, <2>3, <2>4
<1>13. format_busy_q' => format_bank_q' = F % 2
  <2>1. CASE consume_fire
    <3>1. committed # <<>> /\ ~format_busy_q /\ ~formatter_done
      BY <1>3, <2>1, FormatFacts
    <3>2. committed[1] = (Consumed + 1 - 1) % 2 /\ Head(committed) = committed[1]
      <4>1. committed \in Seq(Bank)
        BY DEF IInv, Typed, Structures
      <4>2. 1 \in 1 .. Len(committed) /\ Head(committed) = committed[1]
        BY <3>1, <4>1
      <4> QED BY <1>4, <4>2
    <3>3. Consumed + 1 - 1 = F
      BY <1>0, <1>6, <1>9, <3>1
    <3> QED BY <1>8, <2>1, <3>2, <3>3
  <2>2. CASE ~consume_fire
    BY <1>4, <1>8, <1>9, <2>2
  <2> QED BY <2>1, <2>2
<1>14. ~format_busy_q' => format_col_q' = 0
  <2> SUFFICES ASSUME ~format_busy_q' PROVE format_col_q' = 0
    OBVIOUS
  <2>1. ~consume_fire /\ (~format_busy_q \/ formatter_done)
    BY <1>8
  <2>2. formatter_fire => format_busy_q
    BY FormatFacts
  <2> QED BY <1>4, <1>8, <2>1, <2>2
<1>15. ASSUME NEW n \in F .. N - 1 PROVE staged'[n % 2] = Packet(n)'
  <2>0. n \in Nat /\ Formatted <= n /\ n < N /\ n % 2 \in Bank
    <3>1. n \in Nat /\ Formatted <= n /\ n < N
      BY <1>0, <1>9
    <3> QED BY <3>1, Turns
  <2>1. Packet(n)' = Packet(n)
    BY NamesKept
  <2>2. /\ wgt_tile_wr8 # {} => fill_valid_q /\ Received - 1 \in Beat
        /\ \A i \in Beat :
             staged'[n % 2][i] = IF wgt_tile_wr8 # {} /\ n % 2 = fill_bank_q /\ i = Received - 1
                                 THEN Tile(Stored) ELSE staged[n % 2][i]
        /\ staged'[n % 2] = [i \in Beat |-> staged'[n % 2][i]]
    BY <2>0, FillMoves
  <2>3. CASE n < Stored
    <3>1. n \in Formatted .. Stored - 1
      BY <1>0, <2>0, <2>3
    <3>2. wgt_tile_wr8 # {} => n % 2 # fill_bank_q
      <4> SUFFICES ASSUME wgt_tile_wr8 # {} PROVE n % 2 # fill_bank_q
        OBVIOUS
      <4>1. fill_bank_q = Stored % 2 /\ Stored < Formatted + 2
        BY <1>4, <2>2
      <4>2. Stored = n + 1
        BY <1>0, <3>1, <4>1
      <4> QED BY <2>0, <4>1, <4>2, Turns
    <3>3. \A i \in Beat : staged'[n % 2][i] = staged[n % 2][i]
      BY <2>2, <3>2
    <3>4. staged[n % 2] = Packet(n)
      BY <1>4, <3>1
    <3>5. \A i \in Beat : staged'[n % 2][i] = Tile(n)
      BY <3>3, <3>4 DEF Packet
    <3> QED BY <2>1, <2>2, <3>5 DEF Packet
  <2>4. CASE ~(n < Stored)
    <3>1. commit_fire /\ n = Stored
      BY <1>0, <1>9, <2>0, <2>4
    <3>2. weight_tile_ready /\ fill_bank_q = n % 2
      BY <1>3, <1>4, <3>1, CommitFacts
    <3>3. /\ wgt_tile_wr8 # {}
          /\ \A i \in Beat : i < Written => staged[fill_bank_q][i] = Tile(Stored)
      BY <3>2 DEF IInv, Filled
    <3>4. Received = BEATS /\ Written = BEATS - 1
      <4>1. BEATS \in Nat
        BY BeatsAssumption
      <4> QED BY <3>2, <3>3, <4>1 DEF Received, Written, Num
    <3>5. \A i \in Beat : i = Received - 1 \/ i < Written
      BY <3>4, BeatsAssumption DEF Beat
    <3>6. \A i \in Beat : staged'[n % 2][i] = Tile(n)
      BY <2>2, <3>1, <3>2, <3>3, <3>5
    <3> QED BY <2>1, <2>2, <3>6 DEF Packet
  <2> QED BY <2>3, <2>4
<1> QED BY <1>7, <1>11, <1>12, <1>13, <1>14, <1>15 DEF Staged, F, N, C, L

\* The places in the row FIFOs move with what is read and written.
LEMMA PlaceMoves ==
  ASSUME IInv, NEW in \in Inputs, Works(in)
  PROVE  /\ ReadPlace \in Nat /\ WritePlace \in Nat
         /\ Issued \in 0 .. COLS /\ (loading_q /\ ~reads_done_q => Issued = issue_col_q)
         /\ ReadPlace' = ReadPlace + Num(row_fifo_rd_en)
         /\ WritePlace' = WritePlace + Num(formatter_fire)
         /\ ~reads_done_q => Issued' = Issued + Num(row_fifo_rd_en) /\ Loaded' = Loaded
<1>1. /\ COLS \in Nat \ {0} /\ issue_col_q \in 0 .. COLS - 1 /\ format_col_q \in 0 .. COLS - 1
      /\ Loaded \in Nat /\ Formatted \in Nat
  BY ColsAssumption, CountTypes DEF IInv, Typed, Numbers, Column
<1>2. /\ row_fifo_rd_en <=> loading_q /\ ~reads_done_q
      /\ begin_load => ~loading_q
      /\ reads_done_q => loading_q
      /\ preload_commit_event <=> reads_done_q
  BY LoadFacts
<1>3. /\ loading_q' = ((loading_q \/ begin_load) /\ ~preload_commit_event)
      /\ issue_col_q' = IF begin_load THEN 0
                        ELSE IF row_fifo_rd_en /\ issue_col_q # COLS - 1 THEN issue_col_q + 1
                        ELSE issue_col_q
      /\ reads_done_q' = /\ reads_done_q \/ (row_fifo_rd_en /\ issue_col_q = COLS - 1)
                         /\ ~begin_load /\ ~preload_commit_event
  BY WorkEdges DEF LoadEdge, IssueColNext
<1> DEFINE I == Issued
           J == Issued'
           L == Loaded'
           F == Formatted'
           G == format_col_q'
<1>4. I = IF ~loading_q THEN 0 ELSE IF reads_done_q THEN COLS ELSE issue_col_q
  BY DEF Issued
<1>5. J = IF ~loading_q' THEN 0 ELSE IF reads_done_q' THEN COLS ELSE issue_col_q'
  BY DEF Issued
<1>6. L = Loaded + Num(reads_done_q) /\ F = Formatted + Num(formatter_done)
  BY CountMoves
<1>7. I \in 0 .. COLS /\ (loading_q /\ ~reads_done_q => I = issue_col_q)
  BY <1>1, <1>4
<1>8. ReadPlace = COLS * Loaded + I /\ WritePlace = COLS * Formatted + format_col_q
  BY DEF ReadPlace, WritePlace
<1>9. ReadPlace' = COLS * L + J /\ WritePlace' = COLS * F + G
  BY DEF ReadPlace, WritePlace
<1>10. /\ COLS * Loaded \in Nat /\ COLS * (Loaded + 1) = COLS * Loaded + COLS
       /\ COLS * Formatted \in Nat /\ COLS * (Formatted + 1) = COLS * Formatted + COLS
  BY <1>1, Times
<1>11. ReadPlace \in Nat /\ WritePlace \in Nat
  BY <1>1, <1>7, <1>8, <1>10
<1> HIDE DEF I, J, L, F, G
<1> DEFINE t == Num(row_fifo_rd_en)
           u == Num(formatter_fire)
<1>12. ASSUME reads_done_q PROVE COLS * L + J = COLS * Loaded + I + t
  <2>1. J = 0 /\ I = COLS /\ ~row_fifo_rd_en
    BY <1>2, <1>3, <1>4, <1>5, <1>12
  <2>2. L = Loaded + 1 /\ t = 0
    BY <1>6, <1>12, <2>1 DEF Num
  <2>3. COLS * L = COLS * Loaded + COLS
    BY <1>10, <2>2
  <2> HIDE DEF t
  <2> QED BY <1>1, <1>10, <2>1, <2>2, <2>3
<1>13. ~reads_done_q => L = Loaded
  BY <1>1, <1>6 DEF Num
<1>14. ASSUME ~reads_done_q, row_fifo_rd_en PROVE t = 1 /\ J = I + 1
  <2>1. loading_q /\ ~begin_load /\ loading_q' /\ I = issue_col_q
    BY <1>2, <1>3, <1>7, <1>14
  <2>2. t = 1
    BY <1>14 DEF Num
  <2>3. J = issue_col_q + 1
    <3>1. CASE issue_col_q = COLS - 1
      <4>1. reads_done_q'
        BY <1>2, <1>3, <1>14, <2>1, <3>1
      <4> QED BY <1>1, <1>5, <2>1, <3>1, <4>1
    <3>2. CASE issue_col_q # COLS - 1
      BY <1>3, <1>5, <1>14, <2>1, <3>2
    <3> QED BY <3>1, <3>2
  <2> QED BY <2>1, <2>2, <2>3
<1>15. ASSUME ~reads_done_q, ~row_fifo_rd_en PROVE t = 0 /\ J = I
  <2>1. ~loading_q /\ I = 0
    BY <1>2, <1>4, <1>15
  <2>2. t = 0
    BY <1>15 DEF Num
  <2>3. J = 0
    <3>1. CASE begin_load
      <4>1. ~reads_done_q' /\ issue_col_q' = 0
        BY <1>3, <3>1
      <4> QED BY <1>5, <4>1
    <3>2. CASE ~begin_load
      BY <1>3, <1>5, <2>1, <3>2
    <3> QED BY <3>1, <3>2
  <2> QED BY <2>1, <2>2, <2>3
<1>16. /\ t \in {0, 1} /\ u \in {0, 1}
       /\ (u = 1 <=> formatter_fire)
  BY DEF Num
<1>17. ~reads_done_q => J = I + t
  <2> HIDE DEF t
  <2>1. ASSUME ~reads_done_q, row_fifo_rd_en PROVE J = I + t
    BY <1>14, <2>1
  <2>2. ASSUME ~reads_done_q, ~row_fifo_rd_en PROVE J = I + t
    <3>1. t = 0 /\ J = I
      BY <1>15, <2>2
    <3> QED BY <1>7, <3>1
  <2> QED BY <2>1, <2>2
<1>19. ReadPlace' = ReadPlace + t
  <2> HIDE DEF t
  <2>1. COLS * L + J = COLS * Loaded + I + t
    <3>1. CASE reads_done_q
      BY <1>12, <3>1
    <3>2. CASE ~reads_done_q
      <4>1. L = Loaded /\ J = I + t
        BY <1>13, <1>17, <3>2
      <4>2. COLS * L = COLS * Loaded
        BY <4>1
      <4> QED BY <1>7, <1>10, <1>16, <4>1, <4>2
    <3> QED BY <3>1, <3>2
  <2> QED BY <1>8, <1>9, <2>1
<1>18. COLS * F + G = COLS * Formatted + format_col_q + u
  <2>1. /\ consume_fire => ~format_busy_q
        /\ formatter_fire => format_busy_q
        /\ formatter_done <=> formatter_fire /\ format_col_q = COLS - 1
    BY FormatFacts
  <2>2. ~format_busy_q => format_col_q = 0
    BY DEF IInv, Staged
  <2>3. G = IF consume_fire \/ formatter_done THEN 0
            ELSE IF formatter_fire THEN format_col_q + 1 ELSE format_col_q
    BY WorkEdges DEF FormatEdge, G
  <2>4. CASE formatter_done
    <3>1. G = 0 /\ format_col_q = COLS - 1 /\ formatter_fire
      BY <2>1, <2>3, <2>4
    <3>2. F = Formatted + 1 /\ u = 1
      BY <1>6, <2>4, <3>1 DEF Num
    <3>3. COLS * F = COLS * Formatted + COLS
      BY <1>10, <3>2
    <3> HIDE DEF u
    <3> QED BY <1>1, <1>10, <3>1, <3>2, <3>3
  <2>5. CASE ~formatter_done /\ formatter_fire
    <3>1. G = format_col_q + 1
      BY <2>1, <2>3, <2>5
    <3>2. F = Formatted /\ u = 1
      BY <1>1, <1>6, <2>5 DEF Num
    <3>3. COLS * F = COLS * Formatted
      BY <3>2
    <3> HIDE DEF u
    <3> QED BY <1>1, <1>10, <3>1, <3>2, <3>3
  <2>6. CASE ~formatter_fire
    <3>1. G = format_col_q
      BY <2>1, <2>2, <2>3, <2>6
    <3>2. F = Formatted /\ u = 0
      BY <1>1, <1>6, <2>1, <2>6 DEF Num
    <3>3. COLS * F = COLS * Formatted
      BY <3>2
    <3> HIDE DEF u
    <3> QED BY <1>1, <1>10, <3>1, <3>2, <3>3
  <2> QED BY <2>1, <2>4, <2>5, <2>6
<1> HIDE DEF t, u
<1> QED BY <1>7, <1>8, <1>9, <1>11, <1>13, <1>17, <1>18, <1>19 DEF I, J, L, t, u

\* What the row FIFOs hold after the edge.
LEMMA RowMoves ==
  ASSUME IInv, NEW in \in Inputs, Works(in)
  PROVE  /\ Len(row_fifo') \in Nat
         /\ row_fifo' = [i \in 1 .. Len(row_fifo') |-> row_fifo'[i]]
         /\ Len(row_fifo') = Len(row_fifo) - Num(row_fifo_rd_en) + Num(formatter_fire)
         /\ \A i \in 1 .. Len(row_fifo) - Num(row_fifo_rd_en) :
              row_fifo'[i] = row_fifo[i + Num(row_fifo_rd_en)]
         /\ formatter_fire =>
              row_fifo'[Len(row_fifo) - Num(row_fifo_rd_en) + 1] =
                Word(Packet(Formatted), format_col_q)
         /\ row_fifo # <<>> => Head(row_fifo) = row_fifo[1] /\ Len(row_fifo) > 0
<1> DEFINE t == Num(row_fifo_rd_en)
           u == Num(formatter_fire)
           x == Word(Packet(Formatted), format_col_q)
           S == {row_fifo[i] : i \in 1 .. Len(row_fifo)} \cup {x}
           q == row_fifo
           r == row_fifo'
<1>1. /\ t \in {0, 1} /\ (t = 1 <=> row_fifo_rd_en)
      /\ u \in {0, 1} /\ (u = 1 <=> formatter_fire)
  BY DEF Num
<1>2. q \in Seq(S)
  <2>1. Len(q) \in Nat /\ q = [i \in 1 .. Len(q) |-> q[i]]
    BY DEF IInv, Typed, Structures
  <2> HIDE DEF q, x
  <2>2. \A i \in 1 .. Len(q) : q[i] \in S
    BY DEF q
  <2> HIDE DEF S
  <2> QED BY <2>1, <2>2, SeqDef
<1>3. t = 1 => q # <<>>
  BY <1>1, LoadFacts
<1>4. formatter_fire => Word(staged[format_bank_q], format_col_q) = x /\ Len(row_fifo) < FIFO_DEPTH
  <2> SUFFICES ASSUME formatter_fire
               PROVE  /\ Word(staged[format_bank_q], format_col_q) = x
                      /\ Len(row_fifo) < FIFO_DEPTH
    OBVIOUS
  <2>1. format_busy_q /\ Len(row_fifo) < FIFO_DEPTH
    BY FormatFacts
  <2>2. format_bank_q = Formatted % 2
    BY <2>1 DEF IInv, Staged
  <2>3. Formatted \in Formatted .. Stored - 1
    <3>1. Formatted = Consumed - 1
      BY <2>1 DEF Formatted, Num
    <3>2. Consumed <= Stored
      BY CountOrder
    <3>3. Formatted \in Nat /\ Consumed \in Nat /\ Stored \in Nat
      BY CountTypes
    <3> QED BY <3>1, <3>2, <3>3
  <2>4. staged[Formatted % 2] = Packet(Formatted)
    BY <2>3 DEF IInv, Staged
  <2> QED BY <2>1, <2>2, <2>4
<1>5. r = IF u = 1 THEN Append(IF t = 1 THEN Tail(q) ELSE q, x)
          ELSE IF t = 1 THEN Tail(q) ELSE q
  <2>1. r = IF formatter_fire /\ Len(row_fifo) < FIFO_DEPTH
            THEN Append(FifoLeft, Word(staged[format_bank_q], format_col_q)) ELSE FifoLeft
    BY WorkEdges DEF FifoEdge
  <2>2. FifoLeft = IF t = 1 THEN Tail(q) ELSE q
    BY <1>1 DEF FifoLeft
  <2> HIDE DEF r, q, x, t, u
  <2> QED BY <1>1, <1>4, <2>1, <2>2
<1>6. u = 1 => x \in S
  OBVIOUS
<1>7. q # <<>> => Head(q) = q[1] /\ Len(q) > 0
  <2> HIDE DEF q, S
  <2> QED BY <1>2
<1> HIDE DEF t, u, x, S, q, r
<1>8. /\ r \in Seq(S) /\ Len(r) = Len(q) - t + u
      /\ \A k \in 1 .. Len(q) - t : r[k] = q[k + t]
      /\ u = 1 => r[Len(q) - t + 1] = x
  BY <1>1, <1>2, <1>3, <1>5, <1>6, QueueMove
<1>9. Len(r) \in Nat /\ r = [i \in 1 .. Len(r) |-> r[i]]
  BY <1>8, LenProperties, SeqDef
<1>10. formatter_fire => r[Len(q) - t + 1] = x
  BY <1>1, <1>8
<1> QED BY <1>7, <1>8, <1>9, <1>10 DEF r, q, t, u, x

LEMMA WorkLined ==
  ASSUME IInv, NEW in \in Inputs, Works(in)
  PROVE  Lined'
<1> DEFINE t == Num(row_fifo_rd_en)
           u == Num(formatter_fire)
           r == row_fifo'
           P == ReadPlace'
           W == WritePlace'
<1>0. t \in {0, 1} /\ u \in {0, 1}
  BY DEF Num
<1>1. u = 1 <=> formatter_fire
  BY DEF Num
<1>2. /\ Len(row_fifo) <= FIFO_DEPTH
      /\ ReadPlace + Len(row_fifo) = WritePlace
      /\ \A i \in 1 .. Len(row_fifo) : row_fifo[i] = At(ReadPlace + i - 1)
      /\ Len(row_fifo) \in Nat
  BY DEF IInv, Lined, Typed, Structures
<1>15. /\ Len(row_fifo) <= FIFO_DEPTH /\ Len(row_fifo) \in Nat
       /\ ReadPlace + Len(row_fifo) = WritePlace
  BY <1>2
<1>3. P = ReadPlace + t /\ W = WritePlace + u /\ ReadPlace \in Nat /\ WritePlace \in Nat
  BY PlaceMoves
<1>4. /\ Len(r) = Len(row_fifo) - t + u
      /\ \A i \in 1 .. Len(row_fifo) - t : r[i] = row_fifo[i + t]
      /\ formatter_fire =>
           r[Len(row_fifo) - t + 1] = Word(Packet(Formatted), format_col_q)
  BY RowMoves
<1>5. formatter_fire => Len(row_fifo) < FIFO_DEPTH
  BY FormatFacts
<1>6. formatter_fire => Word(Packet(Formatted), format_col_q) = At(WritePlace)
  <2>1. Formatted \in Nat /\ format_col_q \in Column
    BY CountTypes DEF IInv, Typed, Numbers
  <2> QED BY <2>1, WordAt DEF WritePlace
<1>7. FIFO_DEPTH \in Nat
  BY FifoAssumption
<1>8. \A n : At(n)' = At(n)
  BY NamesKept
<1> HIDE DEF t, u, r, P, W
<1>9. Len(r) <= FIFO_DEPTH /\ P + Len(r) = W
  <2>1. u = 1 => Len(row_fifo) < FIFO_DEPTH
    BY <1>1, <1>5
  <2>2. Len(r) = Len(row_fifo) - t + u
    BY <1>4
  <2> QED BY <1>0, <1>3, <1>7, <1>15, <2>1, <2>2
<1>10. ASSUME NEW i \in 1 .. Len(r) PROVE r[i] = At(P + i - 1)
  <2>1. CASE i \in 1 .. Len(row_fifo) - t
    <3>1. r[i] = row_fifo[i + t] /\ i + t \in 1 .. Len(row_fifo)
      BY <1>0, <1>2, <1>4, <2>1
    <3>2. P + i - 1 = ReadPlace + (i + t) - 1
      BY <1>0, <1>3, <2>1
    <3> QED BY <1>2, <3>1, <3>2
  <2>2. CASE i \notin 1 .. Len(row_fifo) - t
    <3>0. Len(r) = Len(row_fifo) - t + u
      BY <1>4
    <3>1. u = 1 /\ i = Len(row_fifo) - t + 1
      BY <1>0, <1>2, <2>2, <3>0
    <3>2. P + i - 1 = WritePlace
      BY <1>0, <1>3, <1>15, <3>1
    <3> QED BY <1>1, <1>4, <1>6, <3>1, <3>2
  <2> QED BY <2>1, <2>2
<1>11. parity' = parity
  BY WorkEdges
<1>12. \A i \in 1 .. Len(r) :
         r[i] = Word([j \in Beat |-> [layer |-> parity', number |-> (P + i - 1) \div COLS]],
                     (P + i - 1) % COLS)
  BY <1>10, <1>11 DEF At, Packet, Tile
<1> QED BY <1>9, <1>12 DEF Lined, r, P, W, At, Packet, Tile, Word

\* What is written to the array.
LEMMA ArrayMoves ==
  ASSUME IInv, NEW in \in Inputs, Works(in)
  PROVE  /\ \A b \in Bank, c \in Column :
              array'[b][c] = IF read_pending_q /\ b = loading_bank_q /\ c = Issued - 1
                             THEN Word(Packet(Loaded), c) ELSE array[b][c]
         /\ DOMAIN array' = Bank /\ \A b \in Bank : DOMAIN array'[b] = Column
         /\ read_pending_q => loading_q /\ Issued - 1 \in Column
<1>1. DOMAIN array = Bank /\ \A b \in Bank : DOMAIN array[b] = Column
  BY DEF IInv, Typed, Structures
<1>2. read_pending_q => /\ loading_q /\ Issued > 0
                        /\ read_bank_q = loading_bank_q /\ read_col_q = Issued - 1
                        /\ row_fifo_rd_data = Word(Packet(Loaded), Issued - 1)
  BY DEF IInv, Loading
<1>3. array' = IF read_pending_q THEN [array EXCEPT ![read_bank_q][read_col_q] = row_fifo_rd_data]
               ELSE array
  BY WorkEdges, LoadFacts DEF ReadEdge
<1>4. read_pending_q => Issued - 1 \in Column
  <2>1. Issued \in 0 .. COLS /\ COLS \in Nat
    BY PlaceMoves, ColsAssumption
  <2> QED BY <1>2, <2>1 DEF Column
<1>5. CASE read_pending_q
  <2> DEFINE x == Word(Packet(Loaded), Issued - 1)
             a == loading_bank_q
             d == Issued - 1
  <2>1. array' = [array EXCEPT ![a][d] = x]
    BY <1>2, <1>3, <1>5
  <2>2. d \in Column
    BY <1>4, <1>5
  <2> HIDE DEF x, a, d
  <2>3. /\ \A b \in Bank, c \in Column :
             array'[b][c] = IF b = a /\ c = d THEN x ELSE array[b][c]
        /\ DOMAIN array' = Bank /\ \A b \in Bank : DOMAIN array'[b] = Column
    BY <1>1, <2>1, <2>2
  <2> QED BY <1>2, <1>4, <1>5, <2>3 DEF x, a, d
<1>6. CASE ~read_pending_q
  BY <1>1, <1>3, <1>6
<1> QED BY <1>5, <1>6

LEMMA WorkLoading ==
  ASSUME IInv, NEW in \in Inputs, Works(in)
  PROVE  Loading'
<1> DEFINE J == Issued'
           A == Arrived'
           L == Loaded'
           t == Num(row_fifo_rd_en)
<1>1. /\ loading_q' = ((loading_q \/ begin_load) /\ ~preload_commit_event)
      /\ loading_bank_q' = IF begin_load THEN Head(desc).bank ELSE loading_bank_q
      /\ reads_done_q' = /\ reads_done_q \/ (row_fifo_rd_en /\ issue_col_q = COLS - 1)
                         /\ ~begin_load /\ ~preload_commit_event
      /\ read_pending_q' = row_fifo_rd_en
      /\ row_fifo_rd_en => /\ read_bank_q' = loading_bank_q /\ read_col_q' = issue_col_q
                           /\ row_fifo_rd_data' = Head(row_fifo)
  BY WorkEdges DEF LoadEdge, ReadEdge
<1>2. /\ row_fifo_rd_en <=> loading_q /\ ~reads_done_q
      /\ begin_load <=> ~loading_q /\ Loaded < admitted /\ credit_count_q > 0
      /\ reads_done_q => loading_q /\ read_pending_q
      /\ preload_commit_event <=> reads_done_q
      /\ loading_q => loading_bank_q \in Bank
      /\ row_fifo_rd_en => row_fifo # <<>>
  BY LoadFacts
<1>3. /\ loading_q => /\ desc # <<>> /\ credit_count_q > 0
                      /\ loading_bank_q = desc[1].bank
                      /\ \A c \in Column : c < Arrived =>
                           array[loading_bank_q][c] = Word(Packet(Loaded), c)
      /\ read_pending_q => loading_q
  BY DEF IInv, Loading
<1>4. /\ ReadPlace \in Nat /\ Issued \in 0 .. COLS
      /\ loading_q /\ ~reads_done_q => Issued = issue_col_q
      /\ ~reads_done_q => J = Issued + t /\ L = Loaded
  BY PlaceMoves
<1>5. t \in {0, 1} /\ (t = 1 <=> row_fifo_rd_en)
  BY DEF Num
<1>6. desc # <<>> <=> Loaded < admitted
  BY DescFacts
<1>7. \A n : Packet(n)' = Packet(n)
  BY NamesKept
<1>8. A = J - t
  <2>1. A = J - Num(read_pending_q')
    BY DEF Arrived
  <2>2. read_pending_q' <=> row_fifo_rd_en
    BY <1>1
  <2>3. Num(read_pending_q') = t
    BY <2>2 DEF Num
  <2> QED BY <2>1, <2>3
<1>9. COLS \in Nat \ {0}
  BY ColsAssumption
<1> HIDE DEF J, A, L, t
<1>10. ASSUME loading_q'
       PROVE  /\ desc' # <<>> /\ credit_count_q' > 0
              /\ loading_bank_q' = desc'[1].bank
              /\ reads_done_q' => read_pending_q'
              /\ \A c \in Column : c < A => array'[loading_bank_q'][c] = Word(Packet(L), c)
  <2>1. ~reads_done_q /\ (loading_q \/ begin_load)
    BY <1>1, <1>2, <1>10
  <2>2. desc # <<>> /\ credit_count_q > 0
    BY <1>2, <1>3, <1>6, <2>1
  <2>3. /\ Len(desc) \in Nat /\ Len(desc) > 0
        /\ Len(desc') = Len(desc) + Num(in.admit # {})
        /\ desc'[1] = desc[1] /\ Head(desc) = desc[1]
    <3>1. desc \in Seq([bank : Bank, epoch : Nat])
      BY DEF IInv, Typed, Structures
    <3>2. Len(desc) \in Nat /\ Len(desc) > 0 /\ Head(desc) = desc[1]
      BY <2>2, <3>1
    <3>3. Num(reads_done_q) = 0
      BY <2>1 DEF Num
    <3>4. /\ Len(desc') = Len(desc) - 0 + Num(in.admit # {})
          /\ \A k \in 1 .. Len(desc) - 0 : desc'[k] = desc[k + 0]
      BY <3>3, DescMoves
    <3>5. Num(in.admit # {}) \in {0, 1}
      BY DEF Num
    <3>6. 1 \in 1 .. Len(desc) - 0 /\ 1 + 0 = 1
      BY <3>2
    <3>7. desc'[1] = desc[1]
      BY <3>4, <3>6
    <3>8. Len(desc') = Len(desc) + Num(in.admit # {})
      BY <3>2, <3>4, <3>5
    <3> QED BY <3>2, <3>7, <3>8
  <2>4. desc' # <<>>
    <3> SUFFICES ASSUME desc' = <<>> PROVE FALSE
      OBVIOUS
    <3>1. Len(desc') = 0
      BY EmptySeq
    <3>2. Num(in.admit # {}) \in {0, 1}
      BY DEF Num
    <3> QED BY <2>3, <3>1, <3>2
  <2>5. credit_count_q' > 0
    <3> DEFINE m == credit_count_q'
               f == Num(weight_tile_complete_fire)
    <3>1. m = credit_count_q + f - Num(reads_done_q)
      BY CountMoves
    <3>2. Num(reads_done_q) = 0 /\ f \in {0, 1}
      BY <2>1 DEF Num
    <3>3. credit_count_q \in 0 .. 2
      BY CountOrder
    <3> HIDE DEF m, f
    <3>4. m > 0
      BY <2>2, <3>1, <3>2, <3>3
    <3> QED BY <3>4 DEF m
  <2>6. loading_bank_q' = desc'[1].bank
    BY <1>1, <1>3, <2>1, <2>3
  <2>7. reads_done_q' => read_pending_q'
    BY <1>1, <2>1
  <2>8. A = Issued /\ L = Loaded
    BY <1>4, <1>5, <1>8, <1>9, <2>1
  <2>9. ASSUME NEW c \in Column, c < A
        PROVE  array'[loading_bank_q'][c] = Word(Packet(L), c)
    <3>1. loading_q
      <4> SUFFICES ASSUME ~loading_q PROVE FALSE
        OBVIOUS
      <4>1. Issued = 0
        BY DEF Issued
      <4>2. c \in Nat
        BY <1>9 DEF Column
      <4> QED BY <2>8, <2>9, <4>1, <4>2
    <3>2. loading_bank_q' = loading_bank_q /\ loading_bank_q \in Bank
      BY <1>1, <1>2, <3>1
    <3>3. array'[loading_bank_q][c] =
            IF read_pending_q /\ loading_bank_q = loading_bank_q /\ c = Issued - 1
            THEN Word(Packet(Loaded), c) ELSE array[loading_bank_q][c]
      BY <3>2, ArrayMoves
    <3>4. c < Arrived => array[loading_bank_q][c] = Word(Packet(Loaded), c)
      BY <1>3, <3>1
    <3>5. Arrived = Issued - Num(read_pending_q)
      BY DEF Arrived
    <3>6. c \in Nat /\ c < Issued
      BY <1>9, <2>8, <2>9 DEF Column
    <3>7. CASE read_pending_q
      <4>1. Arrived = Issued - 1
        BY <3>5, <3>7 DEF Num
      <4>2. c = Issued - 1 \/ c < Arrived
        BY <1>4, <3>6, <4>1
      <4> QED BY <2>8, <3>2, <3>3, <3>4, <3>7, <4>2
    <3>8. CASE ~read_pending_q
      <4>1. Arrived = Issued - 0
        BY <3>5, <3>8 DEF Num
      <4>2. c < Arrived
        BY <1>4, <3>6, <4>1
      <4> QED BY <2>8, <3>2, <3>3, <3>4, <3>8, <4>2
    <3> QED BY <3>7, <3>8
  <2> QED BY <2>4, <2>5, <2>6, <2>7, <2>9
<1>11. ~loading_q' => ~reads_done_q'
  BY <1>1, <1>2
<1>12. ASSUME read_pending_q'
       PROVE  /\ loading_q' /\ J > 0
              /\ read_bank_q' = loading_bank_q' /\ read_col_q' = J - 1
              /\ row_fifo_rd_data' = Word(Packet(L), J - 1)
  <2>1. row_fifo_rd_en /\ loading_q /\ ~reads_done_q /\ ~begin_load
    BY <1>1, <1>2, <1>12
  <2>2. loading_q' /\ loading_bank_q' = loading_bank_q /\ read_bank_q' = loading_bank_q
    BY <1>1, <1>2, <2>1
  <2>3. J = Issued + 1 /\ L = Loaded /\ Issued = issue_col_q
    BY <1>4, <1>5, <2>1
  <2>4. J > 0 /\ J - 1 = Issued
    BY <1>4, <1>9, <2>3
  <2>5. read_col_q' = J - 1
    BY <1>1, <2>1, <2>3, <2>4
  <2>6. Head(row_fifo) = row_fifo[1] /\ Len(row_fifo) > 0 /\ Len(row_fifo) \in Nat
    <3>1. Len(row_fifo) \in Nat
      BY DEF IInv, Typed, Structures
    <3> QED BY <1>2, <2>1, <3>1, RowMoves
  <2>7. row_fifo[1] = At(ReadPlace + 1 - 1) /\ ReadPlace + 1 - 1 = ReadPlace
    <3>1. 1 \in 1 .. Len(row_fifo)
      BY <2>6
    <3> QED BY <1>4, <3>1 DEF IInv, Lined
  <2>8. At(ReadPlace) = Word(Packet(Loaded), Issued)
    <3>1. Loaded \in Nat /\ Issued \in Column
      <4>1. Loaded \in Nat
        BY CountTypes
      <4> QED BY <2>3, <4>1 DEF IInv, Typed, Numbers
    <3> QED BY <3>1, WordAt DEF ReadPlace
  <2>9. row_fifo_rd_data' = Word(Packet(L), J - 1)
    BY <1>1, <2>1, <2>3, <2>4, <2>6, <2>7, <2>8
  <2> QED BY <2>2, <2>4, <2>5, <2>9
<1>13. parity' = parity
  BY WorkEdges
<1> QED
  BY <1>10, <1>11, <1>12, <1>13 DEF Loading, J, A, L, Packet, Tile, Word

LEMMA WorkKept ==
  ASSUME IInv, NEW in \in Inputs, Works(in)
  PROVE  Kept'
<1> DEFINE L == Loaded'
           R == Retired'
           r == Num(reads_done_q)
           e == Num(in.retire)
<1>1. /\ Loaded \in Nat /\ Retired \in Nat /\ admitted \in Nat /\ Loaded <= admitted
  BY CountTypes, CountOrder
<1>2. L = Loaded + r /\ R = Retired + e
  BY CountMoves
<1>3. r \in {0, 1} /\ e \in {0, 1} /\ (r = 1 <=> reads_done_q)
  BY DEF Num
<1>4. reads_done_q => Loaded < admitted /\ loading_q /\ read_pending_q
  BY LoadFacts
<1>5. \A n \in R .. admitted - 1 : Held(n)' = Held(n)
  BY HeldMoves
<1>6. \A n : Packet(n)' = Packet(n)
  BY NamesKept
<1>7. loading_q => loading_bank_q = Held(Loaded).bank /\ Loaded \in Retired .. admitted - 1
  BY LoadFacts
<1> HIDE DEF L, R, r, e
<1>8. ASSUME NEW n \in R .. L - 1, NEW c \in Column
      PROVE  array'[(Held(n)').bank][c] = Word(Packet(n), c)
  <2>1. n \in R .. admitted - 1 /\ n \in Retired .. admitted - 1
    <3>1. r = 1 => Loaded < admitted
      BY <1>3, <1>4
    <3> QED BY <1>1, <1>2, <1>3, <3>1
  <2> DEFINE b == Held(n).bank
  <2>2. Held(n)' = Held(n) /\ b \in Bank
    BY <1>5, <2>1, HeldFacts
  <2>3. array'[b][c] = IF read_pending_q /\ b = loading_bank_q /\ c = Issued - 1
                       THEN Word(Packet(Loaded), c) ELSE array[b][c]
    BY <2>2, ArrayMoves
  <2>4. CASE n < Loaded
    <3>1. n \in Retired .. Loaded - 1
      BY <1>1, <2>1, <2>4
    <3>2. array[b][c] = Word(Packet(n), c)
      BY <3>1 DEF IInv, Kept
    <3>3. read_pending_q => loading_q
      BY ArrayMoves
    <3>4. loading_q => b # loading_bank_q
      <4>1. \A m \in Retired .. admitted - 1 : n # m => Held(n).bank # Held(m).bank
        BY <2>1 DEF IInv, Owned
      <4>2. n # Loaded
        BY <1>1, <2>1, <2>4
      <4> QED BY <1>7, <4>1, <4>2
    <3> QED BY <2>2, <2>3, <3>2, <3>3, <3>4
  <2>5. CASE ~(n < Loaded)
    <3>1. n = Loaded /\ r = 1
      BY <1>1, <1>2, <1>3, <2>1, <2>5
    <3>2. reads_done_q /\ loading_q /\ read_pending_q /\ b = loading_bank_q
      BY <1>3, <1>4, <1>7, <3>1
    <3>3. Issued = COLS /\ Arrived = COLS - 1
      <4>1. COLS \in Nat
        BY ColsAssumption
      <4> QED BY <3>2, <4>1 DEF Issued, Arrived, Num
    <3>4. c < Arrived => array[b][c] = Word(Packet(Loaded), c)
      BY <3>2 DEF IInv, Loading
    <3>5. c = Issued - 1 \/ c < Arrived
      BY <3>3, ColsAssumption DEF Column
    <3> QED BY <2>2, <2>3, <3>1, <3>2, <3>4, <3>5
  <2> QED BY <2>4, <2>5
<1>9. \A n \in R .. L - 1 : \A c \in Column : array'[(Held(n)').bank][c] = Word(Packet(n)', c)
  BY <1>6, <1>8
<1> QED BY <1>9 DEF Kept, L, R

\* A bank that holds a context stays its own, and moves on with it.
LEMMA StayMoves ==
  ASSUME IInv, NEW in \in Inputs, Works(in), NEW n \in Retired' .. admitted - 1
  PROVE  /\ n \in Retired .. admitted - 1
         /\ Held(n).bank \notin in.admit
         /\ bank_state'[Held(n).bank] = StateOf(n)'
         /\ bank_epoch'[Held(n).bank] = n % 3
<1> DEFINE R == Retired'
           S == Started'
           L == Loaded'
           e == Num(in.retire)
           s == Num(in.start)
           r == Num(reads_done_q)
           b == Held(n).bank
<1>1. /\ R = Retired + e /\ S = Started + s /\ L = Loaded + r
  BY CountMoves
<1>2. /\ e \in {0, 1} /\ s \in {0, 1} /\ r \in {0, 1}
      /\ (e = 1 <=> in.retire) /\ (s = 1 <=> in.start) /\ (r = 1 <=> reads_done_q)
  BY DEF Num
<1>3. /\ Retired \in Nat /\ Started \in Nat /\ Loaded \in Nat /\ admitted \in Nat
      /\ Retired <= Started /\ Started <= Loaded /\ Loaded <= admitted
  <2>1. Retired <= Started /\ Started <= Loaded /\ Loaded <= admitted
    BY CountOrder
  <2> QED BY <2>1, CountTypes
<1>4. n \in Nat /\ R <= n /\ n < admitted
  <2>1. n \in R .. admitted - 1
    OBVIOUS
  <2> HIDE DEF R, e
  <2>2. R \in Nat
    BY <1>1, <1>2, <1>3
  <2> QED BY <1>3, <2>1, <2>2
<1>5. n \in Retired .. admitted - 1
  <2> HIDE DEF R, e
  <2> QED BY <1>1, <1>2, <1>3, <1>4
<1>6. /\ b \in Bank /\ bank_state[b] = StateOf(n) /\ bank_epoch[b] = n % 3
  BY <1>5, HeldFacts
<1>7. \A m \in Retired .. admitted - 1 : Held(m).bank = b => m = n
  BY <1>5 DEF IInv, Owned
<1>8. b \notin in.admit
  <2> SUFFICES ASSUME b \in in.admit PROVE FALSE
    OBVIOUS
  <2>1. in.admit # {}
    OBVIOUS
  <2>2. \E x \in Bank : in.admit = {x} /\ \A m \in Retired .. admitted - 1 : Held(m).bank # x
    BY <2>1, AdmitRoom
  <2> QED BY <1>5, <2>2
<1>9. /\ in.retire => Retired < Started
      /\ in.start => Started < Loaded
      /\ loading_q \/ begin_load => Loaded \in Retired .. admitted - 1
      /\ reads_done_q => loading_q
      /\ begin_load => ~loading_q
      /\ preload_commit_event <=> reads_done_q
  BY InputFacts, LoadFacts
<1>10. /\ in.retire => Retired \in Retired .. admitted - 1
       /\ in.start => Started \in Retired .. admitted - 1
  BY <1>3, <1>9
<1>11. /\ bank_state'[b] =
            IF in.retire /\ Held(Retired).bank = b THEN "RETIRING"
            ELSE IF in.start /\ Held(Started).bank = b THEN "ACTIVE"
            ELSE IF reads_done_q /\ Held(Loaded).bank = b THEN "READY"
            ELSE IF b \in in.admit THEN "RESERVED"
            ELSE IF begin_load /\ Held(Loaded).bank = b THEN "LOADING"
            ELSE IF bank_state[b] = "RETIRING" THEN "EMPTY" ELSE bank_state[b]
       /\ bank_epoch'[b] = IF b \in in.admit THEN admitted % 3 ELSE bank_epoch[b]
  BY <1>6, WorkEdges, BankMoves
<1>12. ~(in.retire /\ Held(Retired).bank = b)
  <2> SUFFICES ASSUME in.retire, Held(Retired).bank = b PROVE FALSE
    OBVIOUS
  <2>1. Retired = n
    BY <1>7, <1>10
  <2> HIDE DEF R, e
  <2> QED BY <1>1, <1>2, <1>3, <1>4, <2>1
<1>13. in.start /\ Held(Started).bank = b <=> in.start /\ n = Started
  BY <1>7, <1>10
<1>14. reads_done_q /\ Held(Loaded).bank = b <=> reads_done_q /\ n = Loaded
  BY <1>7, <1>9
<1>15. begin_load /\ Held(Loaded).bank = b <=> begin_load /\ n = Loaded
  BY <1>7, <1>9
<1>16. StateOf(n) # "RETIRING"
  BY DEF StateOf
<1>17. bank_state'[b] =
         IF in.start /\ n = Started THEN "ACTIVE"
         ELSE IF reads_done_q /\ n = Loaded THEN "READY"
         ELSE IF begin_load /\ n = Loaded THEN "LOADING"
         ELSE StateOf(n)
  BY <1>6, <1>8, <1>11, <1>12, <1>13, <1>14, <1>15, <1>16
<1>18. loading_q' <=> (loading_q \/ begin_load) /\ ~reads_done_q
  BY <1>9, WorkEdges DEF LoadEdge
<1>19. StateOf(n)' = IF n < S THEN "ACTIVE" ELSE IF n < L THEN "READY"
                     ELSE IF n = L /\ loading_q' THEN "LOADING" ELSE "RESERVED"
  BY DEF StateOf
<1>20. StateOf(n) = IF n < Started THEN "ACTIVE" ELSE IF n < Loaded THEN "READY"
                    ELSE IF n = Loaded /\ loading_q THEN "LOADING" ELSE "RESERVED"
  BY DEF StateOf
<1> HIDE DEF R, S, L, e, s, r, b
<1>21. n < S <=> n < Started \/ (in.start /\ n = Started)
  BY <1>1, <1>2, <1>3, <1>4
<1>22. n < L <=> n < Loaded \/ (reads_done_q /\ n = Loaded)
  BY <1>1, <1>2, <1>3, <1>4
<1>23. ~(n < L) => (n = L /\ loading_q' <=> n = Loaded /\ (loading_q \/ begin_load))
  BY <1>1, <1>2, <1>3, <1>4, <1>18
<1>24. in.start => Started < Loaded
  BY <1>9
<1>25. bank_state'[b] = StateOf(n)'
  <2>1. CASE n < S
    <3>1. n < Started => ~(in.start /\ n = Started) /\ n < Loaded
      BY <1>3, <1>4
    <3>2. n < Loaded => n # Loaded
      BY <1>3, <1>4
    <3> QED BY <1>17, <1>19, <1>20, <1>21, <2>1, <3>1, <3>2
  <2>2. CASE ~(n < S) /\ n < L
    <3>1. n < Loaded => n # Loaded
      BY <1>3, <1>4
    <3> QED BY <1>17, <1>19, <1>20, <1>21, <1>22, <2>2, <3>1
  <2>3. CASE ~(n < S) /\ ~(n < L)
    BY <1>17, <1>19, <1>20, <1>21, <1>22, <1>23, <2>3
  <2> QED BY <2>1, <2>2, <2>3
<1> QED BY <1>5, <1>6, <1>8, <1>11, <1>25 DEF b

\* The context that is admitted has a bank reserved.
LEMMA NewMoves ==
  ASSUME IInv, NEW in \in Inputs, Works(in), NEW n \in Nat, n = admitted, in.admit # {}
  PROVE  /\ Held(n)' \in Contexts /\ (Held(n)').tile = Tile(n) /\ (Held(n)').epoch = n % 3
         /\ in.admit = {(Held(n)').bank}
         /\ bank_state'[(Held(n)').bank] = StateOf(n)'
         /\ bank_epoch'[(Held(n)').bank] = n % 3
         /\ \A m \in Retired .. admitted - 1 : Held(m).bank # (Held(n)').bank
<1> DEFINE h == Held(n)'
           S == Started'
           L == Loaded'
           s == Num(in.start)
           r == Num(reads_done_q)
<1>0. PICK b \in Bank : in.admit = {b} /\ \A m \in Retired .. admitted - 1 : Held(m).bank # b
  BY AdmitRoom
<1>1. /\ h \in Contexts /\ h.tile = Tile(n) /\ h.epoch = n % 3 /\ in.admit = {h.bank}
  BY HeldMoves
<1>2. b = h.bank
  <2> HIDE DEF h
  <2> QED BY <1>0, <1>1
<1>3. b \in Bank /\ \A m \in Retired .. admitted - 1 : Held(m).bank # b
  BY <1>0
<1>4. /\ Retired \in Nat /\ Started \in Nat /\ Loaded \in Nat
      /\ Retired <= Started /\ Started <= Loaded /\ Loaded <= admitted
  <2>1. Retired <= Started /\ Started <= Loaded /\ Loaded <= admitted
    BY CountOrder
  <2> QED BY <2>1, CountTypes
<1>5. /\ in.retire => Retired < Started
      /\ in.start => Started < Loaded
      /\ loading_q \/ begin_load => Loaded \in Retired .. admitted - 1
      /\ reads_done_q => loading_q
      /\ preload_commit_event <=> reads_done_q
  BY InputFacts, LoadFacts
<1>6. /\ in.retire => Retired \in Retired .. admitted - 1
      /\ in.start => Started \in Retired .. admitted - 1
  BY <1>4, <1>5
<1> HIDE DEF h
<1>7. /\ bank_state'[b] =
            IF in.retire /\ Held(Retired).bank = b THEN "RETIRING"
            ELSE IF in.start /\ Held(Started).bank = b THEN "ACTIVE"
            ELSE IF reads_done_q /\ Held(Loaded).bank = b THEN "READY"
            ELSE IF b \in in.admit THEN "RESERVED"
            ELSE IF begin_load /\ Held(Loaded).bank = b THEN "LOADING"
            ELSE IF bank_state[b] = "RETIRING" THEN "EMPTY" ELSE bank_state[b]
      /\ bank_epoch'[b] = IF b \in in.admit THEN admitted % 3 ELSE bank_epoch[b]
  <2>1. BankEdge(PreloadInputs(in))
    BY WorkEdges
  <2> QED BY <2>1, BankMoves
<1>8. bank_state'[b] = "RESERVED" /\ bank_epoch'[b] = n % 3
  <2>1. b \in in.admit
    BY <1>0
  <2>2. /\ ~(in.retire /\ Held(Retired).bank = b)
        /\ ~(in.start /\ Held(Started).bank = b)
        /\ ~(reads_done_q /\ Held(Loaded).bank = b)
    BY <1>3, <1>5, <1>6
  <2>3. bank_state'[b] = "RESERVED"
    BY <1>7, <2>1, <2>2
  <2>4. bank_epoch'[b] = admitted % 3
    BY <1>7, <2>1
  <2> QED BY <2>3, <2>4
<1>9. L = Loaded + r /\ S = Started + s
  BY CountMoves
<1>10. /\ r \in {0, 1} /\ s \in {0, 1} /\ (r = 1 <=> reads_done_q) /\ (s = 1 <=> in.start)
  BY DEF Num
<1>11. loading_q' <=> (loading_q \/ begin_load) /\ ~reads_done_q
  BY <1>5, WorkEdges DEF LoadEdge
<1>12. StateOf(n)' = IF n < S THEN "ACTIVE" ELSE IF n < L THEN "READY"
                     ELSE IF n = L /\ loading_q' THEN "LOADING" ELSE "RESERVED"
  BY DEF StateOf
<1> HIDE DEF S, L, s, r
<1>13. ~(n < S) /\ ~(n < L)
  <2>1. reads_done_q => Loaded < n
    BY <1>4, <1>5
  <2> QED BY <1>4, <1>5, <1>9, <1>10, <2>1
<1>14. ~(n = L /\ loading_q')
  <2> SUFFICES ASSUME n = L, loading_q' PROVE FALSE
    OBVIOUS
  <2>1. r = 0 /\ Loaded < n
    BY <1>4, <1>5, <1>10, <1>11
  <2> QED BY <1>4, <1>9, <2>1
<1> QED BY <1>1, <1>2, <1>3, <1>8, <1>12, <1>13, <1>14 DEF h

LEMMA WorkOwned ==
  ASSUME IInv, NEW in \in Inputs, Works(in)
  PROVE  Owned'
<1> DEFINE R == Retired'
           L == Loaded'
           A == admitted'
           D == Len(desc')
           a == Num(in.admit # {})
           e == Num(in.retire)
           r == Num(reads_done_q)
           H(n) == IF n < Started' THEN running'[n - Retired' + 1]
                   ELSE ready'[n - Started' + 1]
<1>0. \A n : Held(n)' = H(n)
  BY DEF Held
<1>1. R = Retired + e /\ L = Loaded + r /\ A = admitted + a
  BY CountMoves
<1>2. /\ a \in {0, 1} /\ e \in {0, 1} /\ r \in {0, 1}
      /\ (a = 1 <=> in.admit # {}) /\ (e = 1 <=> in.retire) /\ (r = 1 <=> reads_done_q)
  BY DEF Num
<1>3. /\ Retired \in Nat /\ Loaded \in Nat /\ admitted \in Nat
      /\ Retired <= Loaded /\ Loaded <= admitted
  BY CountTypes, CountOrder
<1>4. Retired' <= Loaded'
  <2>1. Retired' <= Started' /\ Started' <= Loaded'
    BY WorkCounted DEF Counted
  <2>2. Started' = Started + Num(in.start) /\ Num(in.start) \in {0, 1} /\ Started \in Nat
    BY CountMoves, CountTypes DEF Num
  <2> HIDE DEF R, L, e, r
  <2>3. Retired' \in Int /\ Loaded' \in Int
    BY <1>1, <1>2, <1>3 DEF R, L
  <2> QED BY <2>1, <2>2, <2>3
<1>5. \A n \in R .. admitted - 1 : H(n) = Held(n)
  <2> HIDE DEF H
  <2> QED BY <1>0, HeldMoves
<1>6. \A n \in R .. admitted - 1 :
        /\ n \in Retired .. admitted - 1 /\ Held(n).bank \notin in.admit
        /\ bank_state'[Held(n).bank] = StateOf(n)' /\ bank_epoch'[Held(n).bank] = n % 3
  BY StayMoves
<1>7. \A n \in Nat : n = admitted /\ in.admit # {} =>
        /\ H(n) \in Contexts /\ H(n).tile = Tile(n) /\ H(n).epoch = n % 3
        /\ in.admit = {H(n).bank}
        /\ bank_state'[H(n).bank] = StateOf(n)' /\ bank_epoch'[H(n).bank] = n % 3
        /\ \A m \in Retired .. admitted - 1 : Held(m).bank # H(n).bank
  <2> HIDE DEF H
  <2> TAKE n \in Nat
  <2> HAVE n = admitted /\ in.admit # {}
  <2>1. /\ Held(n)' \in Contexts /\ (Held(n)').tile = Tile(n) /\ (Held(n)').epoch = n % 3
        /\ in.admit = {(Held(n)').bank}
        /\ bank_state'[(Held(n)').bank] = StateOf(n)'
        /\ bank_epoch'[(Held(n)').bank] = n % 3
        /\ \A m \in Retired .. admitted - 1 : Held(m).bank # (Held(n)').bank
    BY NewMoves
  <2>2. Held(n)' = H(n)
    BY <1>0
  <2> QED BY <2>1, <2>2
<1>8. \A n \in Retired .. admitted - 1 :
        /\ Held(n).tile = Tile(n) /\ Held(n).epoch = n % 3 /\ Held(n).bank \in Bank
        /\ bank_state[Held(n).bank] = StateOf(n) /\ bank_epoch_valid[Held(n).bank]
  BY HeldFacts
<1>9. \A n, m \in Retired .. admitted - 1 : n # m => Held(n).bank # Held(m).bank
  BY DEF IInv, Owned
<1> HIDE DEF R, L, A, D, a, e, r, H
<1>10. \A n \in R .. A - 1 :
         \/ n \in R .. admitted - 1
         \/ n = admitted /\ n \in Nat /\ in.admit # {}
  BY <1>1, <1>2, <1>3
<1>11. \A n \in R .. A - 1 :
         /\ H(n).tile = Tile(n) /\ H(n).epoch = n % 3
         /\ bank_state'[H(n).bank] = StateOf(n)' /\ bank_epoch'[H(n).bank] = n % 3
  <2> TAKE n \in R .. A - 1
  <2>1. CASE n \in R .. admitted - 1
    BY <1>5, <1>6, <1>8, <2>1
  <2>2. CASE n = admitted /\ n \in Nat /\ in.admit # {}
    BY <1>7, <2>2
  <2> QED BY <1>10, <2>1, <2>2
<1>12. \A n, m \in R .. A - 1 : n # m => H(n).bank # H(m).bank
  <2> TAKE n, m \in R .. A - 1
  <2> HAVE n # m
  <2>1. CASE n \in R .. admitted - 1 /\ m \in R .. admitted - 1
    BY <1>5, <1>6, <1>9, <2>1
  <2>2. CASE n \in R .. admitted - 1 /\ m = admitted /\ m \in Nat /\ in.admit # {}
    BY <1>5, <1>6, <1>7, <2>2
  <2>3. CASE m \in R .. admitted - 1 /\ n = admitted /\ n \in Nat /\ in.admit # {}
    BY <1>5, <1>6, <1>7, <2>3
  <2> QED BY <1>10, <2>1, <2>2, <2>3
<1>13. ASSUME NEW b \in Bank
       PROVE  /\ bank_state'[b] =
                   IF in.retire /\ Held(Retired).bank = b THEN "RETIRING"
                   ELSE IF in.start /\ Held(Started).bank = b THEN "ACTIVE"
                   ELSE IF reads_done_q /\ Held(Loaded).bank = b THEN "READY"
                   ELSE IF b \in in.admit THEN "RESERVED"
                   ELSE IF begin_load /\ Held(Loaded).bank = b THEN "LOADING"
                   ELSE IF bank_state[b] = "RETIRING" THEN "EMPTY" ELSE bank_state[b]
              /\ bank_epoch_valid'[b] =
                   (b \in in.admit \/ (bank_epoch_valid[b] /\ bank_state[b] # "RETIRING"))
  BY WorkEdges, BankMoves
<1>14. /\ in.retire => Retired \in Retired .. admitted - 1 /\ Retired < Started
       /\ in.start => Started \in Retired .. admitted - 1 /\ Started < Loaded
       /\ loading_q \/ begin_load => Loaded \in Retired .. admitted - 1
       /\ reads_done_q => loading_q
  <2>1. /\ in.retire => Retired < Started
        /\ in.start => Started < Loaded
        /\ loading_q \/ begin_load => Loaded \in Retired .. admitted - 1
        /\ reads_done_q => loading_q
    BY InputFacts, LoadFacts
  <2>2. Retired <= Started /\ Started <= Loaded
    BY CountOrder
  <2>3. Started \in Nat
    BY CountTypes
  <2> QED BY <1>3, <2>1, <2>2, <2>3
<1>15. /\ \A b \in Bank : bank_epoch_valid[b] <=> bank_state[b] # "EMPTY"
       /\ \A b \in Bank : (\A n \in Retired .. admitted - 1 : Held(n).bank # b) =>
            bank_state[b] \in {"EMPTY", "RETIRING"}
  BY DEF IInv, Owned
<1>16. \A n : StateOf(n) # "RETIRING" /\ StateOf(n) # "EMPTY"
  BY DEF StateOf
<1>17. ASSUME NEW b \in Bank
       PROVE  bank_epoch_valid'[b] <=> bank_state'[b] # "EMPTY"
  <2>1. CASE in.retire /\ Held(Retired).bank = b
    <3>1. bank_state'[b] = "RETIRING"
      BY <1>13, <2>1
    <3>2. Retired \in Retired .. admitted - 1 /\ Held(Retired).bank = b
      BY <1>14, <2>1
    <3>3. bank_epoch_valid[b] /\ bank_state[b] # "RETIRING"
      BY <1>8, <1>16, <3>2
    <3> QED BY <1>13, <3>1, <3>3
  <2>2. CASE in.start /\ Held(Started).bank = b /\ ~(in.retire /\ Held(Retired).bank = b)
    <3>1. bank_state'[b] = "ACTIVE"
      BY <1>13, <2>2
    <3>2. Started \in Retired .. admitted - 1 /\ Held(Started).bank = b
      BY <1>14, <2>2
    <3>3. bank_epoch_valid[b] /\ bank_state[b] # "RETIRING"
      BY <1>8, <1>16, <3>2
    <3> QED BY <1>13, <3>1, <3>3
  <2>3. CASE /\ reads_done_q /\ Held(Loaded).bank = b
             /\ ~(in.retire /\ Held(Retired).bank = b)
             /\ ~(in.start /\ Held(Started).bank = b)
    <3>1. bank_state'[b] = "READY"
      BY <1>13, <2>3
    <3>2. Loaded \in Retired .. admitted - 1 /\ Held(Loaded).bank = b
      BY <1>14, <2>3
    <3>3. bank_epoch_valid[b] /\ bank_state[b] # "RETIRING"
      BY <1>8, <1>16, <3>2
    <3> QED BY <1>13, <3>1, <3>3
  <2>4. CASE /\ ~(in.retire /\ Held(Retired).bank = b)
             /\ ~(in.start /\ Held(Started).bank = b)
             /\ ~(reads_done_q /\ Held(Loaded).bank = b)
             /\ b \in in.admit
    BY <1>13, <2>4
  <2>5. CASE /\ begin_load /\ Held(Loaded).bank = b
             /\ ~(in.retire /\ Held(Retired).bank = b)
             /\ ~(in.start /\ Held(Started).bank = b)
             /\ ~(reads_done_q /\ Held(Loaded).bank = b)
             /\ b \notin in.admit
    <3>1. bank_state'[b] = "LOADING"
      BY <1>13, <2>5
    <3>2. Loaded \in Retired .. admitted - 1 /\ Held(Loaded).bank = b
      BY <1>14, <2>5
    <3>3. bank_epoch_valid[b] /\ bank_state[b] # "RETIRING"
      BY <1>8, <1>16, <3>2
    <3> QED BY <1>13, <3>1, <3>3
  <2>6. CASE /\ ~(begin_load /\ Held(Loaded).bank = b)
             /\ ~(in.retire /\ Held(Retired).bank = b)
             /\ ~(in.start /\ Held(Started).bank = b)
             /\ ~(reads_done_q /\ Held(Loaded).bank = b)
             /\ b \notin in.admit
    <3>1. /\ bank_state'[b] = IF bank_state[b] = "RETIRING" THEN "EMPTY" ELSE bank_state[b]
          /\ bank_epoch_valid'[b] <=> bank_epoch_valid[b] /\ bank_state[b] # "RETIRING"
      BY <1>13, <2>6
    <3> QED BY <1>15, <3>1
  <2> QED BY <2>1, <2>2, <2>3, <2>4, <2>5, <2>6
<1>18. ASSUME NEW b \in Bank, \A n \in R .. A - 1 : H(n).bank # b
       PROVE  bank_state'[b] \in {"EMPTY", "RETIRING"}
  <2>1. CASE \E n \in Retired .. admitted - 1 : Held(n).bank = b
    <3>1. PICK n \in Retired .. admitted - 1 : Held(n).bank = b
      BY <2>1
    <3>2. n \notin R .. admitted - 1
      <4> SUFFICES ASSUME n \in R .. admitted - 1 PROVE FALSE
        OBVIOUS
      <4>1. n \in R .. A - 1
        BY <1>1, <1>2, <1>3
      <4> QED BY <1>5, <1>18, <3>1, <4>1
    <3>3. e = 1 /\ n = Retired
      BY <1>1, <1>2, <1>3, <3>2
    <3> QED BY <1>2, <1>13, <3>1, <3>3
  <2>2. CASE ~\E n \in Retired .. admitted - 1 : Held(n).bank = b
    <3>1. bank_state[b] \in {"EMPTY", "RETIRING"}
      BY <1>15, <2>2
    <3>2. b \notin in.admit
      <4> SUFFICES ASSUME b \in in.admit PROVE FALSE
        OBVIOUS
      <4>1. in.admit # {}
        OBVIOUS
      <4>2. a = 1
        BY <1>2, <4>1
      <4>3. admitted \in R .. A - 1
        <5>1. R <= admitted
          <6>1. e = 1 => Retired < admitted
            BY <1>2, <1>3, <1>14
          <6> QED BY <1>1, <1>2, <1>3, <6>1
        <5> QED BY <1>1, <1>2, <1>3, <4>2, <5>1
      <4>4. in.admit = {H(admitted).bank}
        BY <1>3, <1>7, <4>1
      <4> QED BY <1>18, <4>3, <4>4
    <3>3. /\ ~(in.retire /\ Held(Retired).bank = b)
          /\ ~(in.start /\ Held(Started).bank = b)
          /\ ~(reads_done_q /\ Held(Loaded).bank = b)
          /\ ~(begin_load /\ Held(Loaded).bank = b)
      BY <1>14, <2>2
    <3> QED BY <1>13, <3>1, <3>2, <3>3
  <2> QED BY <2>1, <2>2
<1>19. ASSUME NEW k \in 1 .. D
       PROVE  /\ desc'[k].bank = H(L + k - 1).bank
              /\ desc'[k].epoch = H(L + k - 1).epoch
  <2>1. /\ D = Len(desc) - r + a /\ Len(desc) \in Nat /\ admitted - Loaded = Len(desc)
        /\ \A j \in 1 .. Len(desc) - r : desc'[j] = desc[j + r]
        /\ in.admit # {} => \E b \in Bank :
             /\ in.admit = {b}
             /\ desc'[Len(desc) - r + 1] = [bank |-> b, epoch |-> admitted % 3]
    BY DescMoves, DescFacts, CountTypes DEF D, r, a
  <2>2. \A j \in 1 .. Len(desc) : /\ desc[j].bank = Held(Loaded + j - 1).bank
                                  /\ desc[j].epoch = Held(Loaded + j - 1).epoch
    BY DEF IInv, Owned
  <2>3. R <= L
    BY <1>4 DEF R, L
  <2>4. CASE k \in 1 .. Len(desc) - r
    <3>1. desc'[k] = desc[k + r] /\ k + r \in 1 .. Len(desc)
      BY <1>2, <2>1, <2>4
    <3>2. Loaded + (k + r) - 1 = L + k - 1 /\ L + k - 1 \in R .. admitted - 1
      BY <1>1, <1>2, <1>3, <2>1, <2>3, <2>4
    <3> QED BY <1>5, <2>2, <3>1, <3>2
  <2>5. CASE k \notin 1 .. Len(desc) - r
    <3>1. a = 1 /\ k = Len(desc) - r + 1
      BY <1>2, <2>1, <2>5
    <3>2. L + k - 1 = admitted
      BY <1>1, <1>2, <1>3, <2>1, <3>1
    <3>3. in.admit # {}
      BY <1>2, <3>1
    <3>4. PICK b \in Bank :
             /\ in.admit = {b}
             /\ desc'[Len(desc) - r + 1] = [bank |-> b, epoch |-> admitted % 3]
      BY <2>1, <3>3
    <3>5. in.admit = {H(admitted).bank} /\ H(admitted).epoch = admitted % 3
      BY <1>3, <1>7, <3>3
    <3>6. H(admitted).bank = b
      BY <3>4, <3>5
    <3> QED BY <3>1, <3>2, <3>4, <3>5, <3>6
  <2> QED BY <2>4, <2>5
<1>20. parity' = parity
  BY WorkEdges
<1>21. \A n \in R .. A - 1 :
         /\ H(n).tile = [layer |-> parity', number |-> n] /\ H(n).epoch = n % 3
         /\ bank_state'[H(n).bank] = StateOf(n)' /\ bank_epoch'[H(n).bank] = n % 3
  BY <1>11, <1>20 DEF Tile
<1>22. Owned' <=>
         /\ \A n \in R .. A - 1 :
              /\ H(n).tile = [layer |-> parity', number |-> n] /\ H(n).epoch = n % 3
              /\ bank_state'[H(n).bank] = StateOf(n)' /\ bank_epoch'[H(n).bank] = n % 3
         /\ \A n, m \in R .. A - 1 : n # m => H(n).bank # H(m).bank
         /\ \A b \in Bank : bank_epoch_valid'[b] <=> bank_state'[b] # "EMPTY"
         /\ \A b \in Bank : (\A n \in R .. A - 1 : H(n).bank # b) =>
              bank_state'[b] \in {"EMPTY", "RETIRING"}
         /\ \A k \in 1 .. D : /\ desc'[k].bank = H(L + k - 1).bank
                              /\ desc'[k].epoch = H(L + k - 1).epoch
  BY DEF Owned, Held, Tile, H, R, A, D, L
<1> QED BY <1>12, <1>17, <1>18, <1>19, <1>21, <1>22

LEMMA WorkFlags ==
  ASSUME IInv, NEW in \in Inputs, Works(in)
  PROVE  Flags'
<1>1. Flags
  BY DEF IInv, Typed
<1>2. /\ in.demand \in BOOLEAN
      /\ weight_req_armed' = ((weight_req_armed \/ ~weight_req_r) /\ ~takes_request)
      /\ weight_busy' = ((weight_busy \/ takes_request)
                           /\ ~((weight_busy /\ in.beat) /\ weight_count = BEATS - 1))
      /\ weight_tile_ready' = ((weight_busy /\ in.beat) /\ weight_count = BEATS - 1)
  BY InputFacts, AxisMoves
<1>3. /\ weight_busy' \in BOOLEAN /\ weight_req_armed' \in BOOLEAN
      /\ weight_tile_ready' \in BOOLEAN
  BY <1>2
<1>4. weight_req_r' \in BOOLEAN /\ weight_ingress_more_q' \in BOOLEAN
  BY <1>1, WorkEdges DEF IngressEdge, Flags
<1>5. /\ weight_format_pending_q' \in BOOLEAN /\ weight_tile_complete_pending_q' \in BOOLEAN
      /\ sched_weight_done' \in BOOLEAN
  <2>1. /\ weight_format_pending_q' = FormatPendingNext(sched_weight_start)
        /\ weight_tile_complete_pending_q' =
             (weight_tile_complete_valid /\ ~weight_tile_complete_fire)
        /\ sched_weight_done' = weight_tile_complete_fire
    BY WorkEdges
  <2> QED BY <2>1 DEF FormatPendingNext, weight_tile_complete_fire
<1>6. fill_valid_q' \in BOOLEAN /\ fill_touched_q' \in BOOLEAN
  <2>1. IF commit_fire THEN FillNext /\ fill_touched_q' = FALSE
        ELSE IF ~fill_valid_q /\ formatter_done
        THEN fill_bank_q' = format_bank_q /\ fill_valid_q' = TRUE
             /\ fill_touched_q' = FALSE
        ELSE UNCHANGED <<fill_bank_q, fill_valid_q>>
           /\ fill_touched_q' = (fill_touched_q \/ (wgt_tile_wr8 # {} /\ write_ready))
    BY WorkEdges DEF FillEdge
  <2>2. CASE commit_fire
    BY <2>1, <2>2 DEF FillNext
  <2>3. CASE ~commit_fire /\ ~fill_valid_q /\ formatter_done
    BY <2>1, <2>3
  <2>4. CASE ~commit_fire /\ ~(~fill_valid_q /\ formatter_done)
    BY <1>1, <2>1, <2>4 DEF Flags
  <2> QED BY <2>2, <2>3, <2>4
<1>7. format_busy_q' \in BOOLEAN /\ wgt_loader_done' \in BOOLEAN
  <2>1. /\ format_busy_q' = (consume_fire \/ (format_busy_q /\ ~formatter_done))
        /\ wgt_loader_done' = formatter_done
    BY WorkEdges DEF FormatEdge
  <2> QED BY <2>1 DEF formatter_done
<1>8. loading_q' \in BOOLEAN /\ reads_done_q' \in BOOLEAN
  <2>1. LoadEdge
    BY WorkEdges
  <2> QED BY <2>1 DEF LoadEdge
<1>9. read_pending_q' \in BOOLEAN
  <2>1. read_pending_q' = row_fifo_rd_en
    BY WorkEdges DEF ReadEdge
  <2> QED BY <2>1 DEF row_fifo_rd_en
<1>10. sched_weight_start' \in BOOLEAN /\ awaited' \in BOOLEAN
  <2>1. /\ sched_weight_start' = in.demand
        /\ awaited' = (in.demand \/ (awaited /\ ~sched_weight_done))
    BY WorkEdges DEF SchedulerEdge
  <2> QED BY <1>2, <2>1
<1> QED BY <1>3, <1>4, <1>5, <1>6, <1>7, <1>8, <1>9, <1>10 DEF Flags

LEMMA WorkNumbers ==
  ASSUME IInv, NEW in \in Inputs, Works(in)
  PROVE  Numbers'
<1>1. Numbers
  BY DEF IInv, Typed
<1>2. /\ COLS \in Nat \ {0} /\ BEATS \in Nat \ {0}
      /\ format_col_q \in 0 .. COLS - 1 /\ issue_col_q \in 0 .. COLS - 1
      /\ weight_count \in 0 .. BEATS - 1
  BY <1>1, ColsAssumption, BeatsAssumption DEF Numbers, Column, Beat
<1>3. k_total' \in Nat /\ cout_total' \in Nat /\ parity' \in {0, 1}
  BY <1>1, WorkEdges DEF Numbers
<1>4. weight_ingress_k_q' \in Nat /\ weight_ingress_cout_q' \in Nat
  <2>1. IngressEdge /\ weight_ingress_k_q \in Nat /\ weight_ingress_cout_q \in Nat
    BY <1>1, WorkEdges DEF Numbers
  <2>2. CASE commit_valid
    BY <2>1, <2>2 DEF IngressEdge
  <2>3. CASE ~commit_valid
    BY <2>1, <2>3 DEF IngressEdge
  <2> QED BY <2>2, <2>3
<1>5. sent' \in Nat
  <2>1. sent \in Nat
    BY <1>1 DEF Numbers
  <2> QED BY <2>1, AxisMoves
<1>6. demanded' \in Nat /\ admitted' \in Nat
  <2>1. demanded' = demanded + Num(in.demand) /\ admitted' = admitted + Num(in.admit # {})
    BY CountMoves
  <2>2. Num(in.demand) \in {0, 1} /\ Num(in.admit # {}) \in {0, 1}
    BY DEF Num
  <2>3. demanded \in Nat /\ admitted \in Nat
    BY <1>1 DEF Numbers
  <2> QED BY <2>1, <2>2, <2>3
<1>7. weight_count' \in Beat
  <2> DEFINE fire == weight_busy /\ in.beat
             last == fire /\ weight_count = BEATS - 1
  <2>1. weight_count' = IF takes_request \/ last THEN 0
                        ELSE IF fire THEN weight_count + 1 ELSE weight_count
    BY AxisMoves
  <2>2. CASE takes_request \/ last
    BY <1>2, <2>1, <2>2 DEF Beat
  <2>3. CASE ~(takes_request \/ last) /\ fire
    <3>1. weight_count # BEATS - 1 /\ weight_count' = weight_count + 1
      BY <2>1, <2>3
    <3> QED BY <1>2, <3>1 DEF Beat
  <2>4. CASE ~(takes_request \/ last) /\ ~fire
    BY <1>2, <2>1, <2>4 DEF Beat
  <2> QED BY <2>2, <2>3, <2>4
<1>8. credit_count_q' \in 0 .. 2
  <2> DEFINE f == Num(weight_tile_complete_fire)
             r == Num(reads_done_q)
             m == credit_count_q'
  <2>1. m = credit_count_q + f - r
    BY CountMoves
  <2>2. f \in {0, 1} /\ r \in {0, 1}
    BY DEF Num
  <2>3. (f = 1 <=> weight_tile_complete_fire) /\ (r = 1 <=> reads_done_q)
    BY DEF Num
  <2>4. /\ weight_tile_complete_fire => credit_count_q < 2 \/ reads_done_q
        /\ reads_done_q => credit_count_q > 0
        /\ credit_count_q \in 0 .. 2
    BY CreditRoom
  <2> HIDE DEF f, r, m
  <2>5. (f = 1 => credit_count_q < 2 \/ r = 1) /\ (r = 1 => credit_count_q > 0)
    BY <2>3, <2>4
  <2>6. m \in 0 .. 2
    BY <2>1, <2>2, <2>4, <2>5
  <2> QED BY <2>6 DEF m
<1>9. fill_bank_q \in Bank /\ format_bank_q \in Bank
  BY <1>1 DEF Numbers
<1>10. fill_bank_q' \in Bank
  <2>1. IF commit_fire THEN FillNext /\ fill_touched_q' = FALSE
        ELSE IF ~fill_valid_q /\ formatter_done
        THEN fill_bank_q' = format_bank_q /\ fill_valid_q' = TRUE
             /\ fill_touched_q' = FALSE
        ELSE UNCHANGED <<fill_bank_q, fill_valid_q>>
           /\ fill_touched_q' = (fill_touched_q \/ (wgt_tile_wr8 # {} /\ write_ready))
    BY WorkEdges DEF FillEdge
  <2>2. CASE commit_fire
    BY <1>9, <2>1, <2>2 DEF FillNext, Bank
  <2>3. CASE ~commit_fire /\ ~fill_valid_q /\ formatter_done
    BY <1>9, <2>1, <2>3
  <2>4. CASE ~commit_fire /\ ~(~fill_valid_q /\ formatter_done)
    BY <1>9, <2>1, <2>4
  <2> QED BY <2>2, <2>3, <2>4
<1>11. format_bank_q' \in Bank
  <2>1. format_bank_q' = IF consume_fire THEN Head(committed) ELSE format_bank_q
    BY WorkEdges DEF FormatEdge
  <2>2. committed \in Seq(Bank)
    BY DEF IInv, Typed, Structures
  <2>3. consume_fire => committed # <<>>
    BY FormatFacts
  <2>4. consume_fire => Head(committed) \in Bank
    BY <2>2, <2>3, HeadTailProperties
  <2> QED BY <1>9, <2>1, <2>4
<1>12. format_col_q' \in Column
  <2>1. format_col_q' = IF consume_fire \/ formatter_done THEN 0
                        ELSE IF formatter_fire THEN format_col_q + 1 ELSE format_col_q
    BY WorkEdges DEF FormatEdge
  <2>2. formatter_done <=> formatter_fire /\ format_col_q = COLS - 1
    BY FormatFacts
  <2>3. CASE consume_fire \/ formatter_done
    BY <1>2, <2>1, <2>3 DEF Column
  <2>4. CASE ~(consume_fire \/ formatter_done) /\ formatter_fire
    <3>1. format_col_q # COLS - 1 /\ format_col_q' = format_col_q + 1
      BY <2>1, <2>2, <2>4
    <3> QED BY <1>2, <3>1 DEF Column
  <2>5. CASE ~(consume_fire \/ formatter_done) /\ ~formatter_fire
    BY <1>2, <2>1, <2>5 DEF Column
  <2> QED BY <2>3, <2>4, <2>5
<1>13. issue_col_q' \in Column
  <2>1. issue_col_q' = IF begin_load THEN 0
                       ELSE IF row_fifo_rd_en /\ issue_col_q # COLS - 1 THEN issue_col_q + 1
                       ELSE issue_col_q
    BY WorkEdges DEF LoadEdge, IssueColNext
  <2>2. CASE begin_load
    BY <1>2, <2>1, <2>2 DEF Column
  <2>3. CASE ~begin_load /\ row_fifo_rd_en /\ issue_col_q # COLS - 1
    BY <1>2, <2>1, <2>3 DEF Column
  <2>4. CASE ~begin_load /\ ~(row_fifo_rd_en /\ issue_col_q # COLS - 1)
    BY <1>2, <2>1, <2>4 DEF Column
  <2> QED BY <2>2, <2>3, <2>4
<1> QED
  BY <1>3, <1>4, <1>5, <1>6, <1>7, <1>8, <1>10, <1>11, <1>12, <1>13 DEF Numbers

LEMMA WorkStructures ==
  ASSUME IInv, NEW in \in Inputs, Works(in)
  PROVE  Structures'
<1>1. Structures
  BY DEF IInv, Typed
<1>2. \A b \in Bank :
        /\ bank_epoch_valid'[b] =
             (b \in in.admit \/ (bank_epoch_valid[b] /\ bank_state[b] # "RETIRING"))
        /\ DOMAIN bank_state' = Bank /\ DOMAIN bank_epoch' = Bank
        /\ DOMAIN bank_epoch_valid' = Bank
  BY WorkEdges, BankMoves
<1>3. /\ DOMAIN bank_state' = Bank /\ DOMAIN bank_epoch' = Bank
      /\ DOMAIN bank_epoch_valid' = Bank
      /\ \A b \in Bank : bank_epoch_valid'[b] \in BOOLEAN
  <2>1. 0 \in Bank
    BY DEF Bank
  <2> QED BY <1>2, <2>1
<1>4. DOMAIN occupied_q' = Bank /\ \A b \in Bank : occupied_q'[b] \in BOOLEAN
  <2>1. occupied_q' = [b \in Bank |->
           (occupied_q[b] \/ (commit_fire /\ b = fill_bank_q))
             /\ ~(formatter_done /\ b = format_bank_q)]
    BY WorkEdges DEF FillEdge
  <2> QED BY <2>1
<1>5. desc' \in Seq([bank : Bank, epoch : Nat])
  BY DescMoves
<1>6. committed' \in Seq(Bank)
  BY CommittedMoves
<1>7. ready' \in Seq(Contexts) /\ running' \in Seq(Contexts)
  BY ContextMoves
<1>8. Len(row_fifo') \in Nat /\ row_fifo' = [i \in 1 .. Len(row_fifo') |-> row_fifo'[i]]
  BY RowMoves
<1>9. DOMAIN staged' = Bank /\ \A b \in Bank : staged'[b] = [i \in Beat |-> staged'[b][i]]
  BY FillMoves
<1>10. DOMAIN array' = Bank /\ \A b \in Bank : DOMAIN array'[b] = Column
  BY ArrayMoves
<1>11. bank_state' = [b \in Bank |-> bank_state'[b]]
  BY WorkEdges, BankShape
<1> QED
  BY <1>3, <1>4, <1>5, <1>6, <1>7, <1>8, <1>9, <1>10, <1>11 DEF Structures

LEMMA WorkStep ==
  ASSUME IInv, NEW in \in Inputs, Works(in)
  PROVE  IInv'
<1>1. Typed'
  BY WorkFlags, WorkNumbers, WorkStructures DEF Typed
<1> QED
  BY <1>1, WorkErrors, WorkCounted, WorkDemanded, WorkAsked, WorkFilled, WorkStaged,
     WorkLined, WorkOwned, WorkLoading, WorkKept DEF IInv

-----------------------------------------------------------------------------
(* The start of a layer *)

\* Nothing of the layer has happened.
Fresh ==
  /\ Typed /\ NoWeightErrors
  /\ demanded = 0 /\ admitted = 0 /\ sent = 0 /\ credit_count_q = 0
  /\ ready = <<>> /\ running = <<>> /\ desc = <<>> /\ committed = <<>> /\ row_fifo = <<>>
  /\ ~sched_weight_start /\ ~weight_format_pending_q /\ ~format_busy_q
  /\ ~weight_tile_complete_pending_q /\ ~wgt_loader_done
  /\ ~sched_weight_done /\ ~awaited
  /\ ~weight_busy /\ ~weight_tile_ready /\ ~weight_req_r
  /\ weight_count = 0 /\ wgt_tile_wr8 = {}
  /\ fill_valid_q /\ fill_bank_q = 0 /\ format_col_q = 0
  /\ ~loading_q /\ ~reads_done_q /\ ~read_pending_q
  /\ weight_ingress_k_q = 0 /\ weight_ingress_cout_q = 0
  /\ IF weight_ingress_more_q THEN k_total > 0 /\ cout_total > 0 ELSE Tiles = 0
  /\ \A b \in Bank : bank_state[b] = "EMPTY" /\ ~bank_epoch_valid[b] /\ ~occupied_q[b]

LEMMA FreshInvariant == Fresh => IInv
<1> SUFFICES ASSUME Fresh PROVE IInv
  OBVIOUS
<1> USE DEF Fresh
<1>1. /\ Consumed = 0 /\ Stored = 0 /\ Formatted = 0 /\ Credited = 0
      /\ Loaded = 0 /\ Started = 0 /\ Retired = 0
      /\ Issued = 0 /\ Arrived = 0
  <2>1. Num(sched_weight_start \/ weight_format_pending_q) = 0
    BY DEF Num
  <2>2. Num(format_busy_q) = 0 /\ Num(read_pending_q) = 0
    BY DEF Num
  <2>3. Num(weight_tile_complete_valid) = 0
    BY DEF Num, weight_tile_complete_valid
  <2>4. /\ Len(committed) = 0 /\ Len(desc) = 0 /\ Len(ready) = 0 /\ Len(running) = 0
    OBVIOUS
  <2>5. Consumed = 0
    BY <2>1 DEF Consumed
  <2>6. Stored = 0 /\ Formatted = 0
    BY <2>2, <2>4, <2>5 DEF Stored, Formatted
  <2>7. Credited = 0
    BY <2>3, <2>6 DEF Credited
  <2>8. Loaded = 0 /\ Started = 0 /\ Retired = 0
    <3>1. admitted = 0
      OBVIOUS
    <3> HIDE DEF Fresh
    <3>2. Loaded = 0
      BY <2>4, <3>1 DEF Loaded
    <3>3. Started = 0
      BY <2>4, <3>1 DEF Started
    <3>4. Retired = 0
      BY <2>4, <3>1 DEF Retired
    <3> QED BY <3>2, <3>3, <3>4
  <2>9. Issued = 0
    BY DEF Issued
  <2>10. Arrived = 0
    BY <2>2, <2>9 DEF Arrived
  <2> QED BY <2>5, <2>6, <2>7, <2>8, <2>9, <2>10
<1>2. COLS * 0 = 0
  BY ColsAssumption
<1>3. ReadPlace = 0 /\ WritePlace = 0
  BY <1>1, <1>2 DEF ReadPlace, WritePlace
<1>4. k_total \in Nat /\ cout_total \in Nat
  BY DEF Typed, Numbers
<1>5. Tiles \in Nat
  BY <1>4, SMTT(30) DEF Tiles
<1>6. Counted
  BY <1>1, <1>5 DEF Counted
<1>7. Demanded
  <2>1. ~weight_tile_complete_valid
    BY DEF weight_tile_complete_valid
  <2>2. /\ Num(sched_weight_start \/ weight_format_pending_q) = 0 /\ Num(format_busy_q) = 0
        /\ Num(weight_tile_complete_valid) = 0 /\ Num(sched_weight_done) = 0
        /\ Num(awaited) = 0
    BY <2>1 DEF Num
  <2> QED BY <2>2 DEF Demanded
<1>8. Asked
  <2>1. Num(weight_tile_ready) = 0
    BY DEF Num
  <2>2. weight_ingress_more_q => Stored = weight_ingress_cout_q * k_total + weight_ingress_k_q
    BY <1>1, <1>4
  <2>3. ~weight_ingress_more_q => Stored = Tiles
    BY <1>1
  <2> QED BY <1>1, <2>1, <2>2, <2>3 DEF Asked
<1>9. Filled
  BY DEF Filled
<1>10. Staged
  <2>1. \A n : n \notin 0 .. 0 - 1
    OBVIOUS
  <2>2. 0 % 2 = 0
    OBVIOUS
  <2>3. Len(committed) = 0
    OBVIOUS
  <2> QED BY <1>1, <2>1, <2>2, <2>3 DEF Staged
<1>11. Lined
  BY <1>3, FifoAssumption DEF Lined
<1>12. Owned
  <2>1. \A n : n \notin 0 .. 0 - 1
    OBVIOUS
  <2>2. Len(desc) = 0
    OBVIOUS
  <2> QED BY <1>1, <2>1, <2>2 DEF Owned
<1>13. Loading
  BY DEF Loading
<1>14. Kept
  <2>1. \A n : n \notin 0 .. 0 - 1
    OBVIOUS
  <2> QED BY <1>1, <2>1 DEF Kept
<1> QED
  BY <1>6, <1>7, <1>8, <1>9, <1>10, <1>11, <1>12, <1>13, <1>14 DEF IInv

LEMMA InitFresh == Init => Fresh
<1> SUFFICES ASSUME Init PROVE Fresh
  OBVIOUS
<1> USE DEF Init, PreloadInit, StagingInit
<1>1. COLS \in Nat \ {0} /\ BEATS \in Nat \ {0}
  BY ColsAssumption, BeatsAssumption
<1>2. 0 \in Column /\ 0 \in Beat /\ 0 \in Bank
  BY <1>1 DEF Column, Beat, Bank
<1>3. Flags
  BY DEF Flags
<1>4. Numbers
  BY <1>2 DEF Numbers
<1>5. Structures
  <2>1. row_fifo = [i \in 1 .. Len(row_fifo) |-> row_fifo[i]] /\ Len(row_fifo) \in Nat
    OBVIOUS
  <2>2. /\ desc \in Seq([bank : Bank, epoch : Nat]) /\ committed \in Seq(Bank)
        /\ ready \in Seq(Contexts) /\ running \in Seq(Contexts)
    BY EmptySeq
  <2>3. DOMAIN array = Bank /\ \A b \in Bank : DOMAIN array[b] = Column
    OBVIOUS
  <2>4. DOMAIN staged = Bank /\ \A b \in Bank : staged[b] = [i \in Beat |-> staged[b][i]]
    OBVIOUS
  <2>5. /\ DOMAIN bank_state = Bank /\ DOMAIN bank_epoch = Bank
        /\ DOMAIN bank_epoch_valid = Bank
        /\ \A b \in Bank : bank_epoch_valid[b] \in BOOLEAN
        /\ DOMAIN occupied_q = Bank /\ \A b \in Bank : occupied_q[b] \in BOOLEAN
    OBVIOUS
  <2>6. bank_state = [b \in Bank |-> bank_state[b]]
    OBVIOUS
  <2> QED BY <2>1, <2>2, <2>3, <2>4, <2>5, <2>6 DEF Structures
<1>6. NoWeightErrors
  BY DEF NoWeightErrors, any_error, stage_fatal
<1>7. Tiles = 0
  BY DEF Tiles
<1>8. \A b \in Bank : bank_state[b] = "EMPTY" /\ ~bank_epoch_valid[b] /\ ~occupied_q[b]
  OBVIOUS
<1> QED BY <1>3, <1>4, <1>5, <1>6, <1>7, <1>8 DEF Fresh, Typed, NoWrite

\* When a layer is over, nothing of it is left anywhere on the path.
LEMMA AtRest ==
  ASSUME IInv, NEW in \in Inputs, LayerOver
  PROVE  /\ ready = <<>> /\ running = <<>> /\ desc = <<>> /\ row_fifo = <<>>
         /\ ~weight_tile_complete_valid /\ ~format_busy_q /\ ~awaited
         /\ credit_count_q = 0 /\ weight_count = 0
         /\ ~weight_req_r /\ ~weight_busy /\ ~weight_tile_ready
         /\ ~loading_q /\ ~begin_load /\ ~reads_done_q /\ ~read_pending_q
         /\ ~row_fifo_rd_en /\ ~formatter_fire
         /\ ~in.start /\ ~in.retire /\ in.admit = {} /\ ~in.beat
         /\ \A b \in Bank : bank_state[b] \in {"EMPTY", "RETIRING"}
<1>1. admitted = Tiles /\ ready = <<>> /\ running = <<>>
  BY DEF LayerOver
<1>2. ~in.start /\ ~in.retire /\ in.admit = {}
  <2>1. /\ in.start => ready # <<>>
        /\ in.retire => running # <<>>
        /\ in.admit = {} \/ admitted < Tiles
    BY InputFacts
  <2>2. ~(admitted < Tiles)
    BY <1>1, CountTypes
  <2> QED BY <1>1, <2>1, <2>2
<1>3. /\ Retired \in Nat /\ Started \in Nat /\ Loaded \in Nat /\ Credited \in Nat
      /\ Formatted \in Nat /\ Consumed \in Nat /\ Stored \in Nat /\ Tiles \in Nat
      /\ admitted \in Nat /\ demanded \in Nat
  BY CountTypes
<1>4. /\ Started <= Loaded /\ Loaded <= admitted
      /\ Credited = Loaded + credit_count_q /\ credit_count_q \in 0 .. 2
      /\ Credited <= Formatted /\ Formatted <= Consumed /\ Consumed <= Stored
      /\ Consumed <= demanded /\ demanded <= Tiles /\ Stored <= Tiles
  BY CountOrder
<1>5. Started = Tiles /\ Retired = Tiles
  BY <1>1, <1>3 DEF Started, Retired
<1>6. /\ Loaded = Tiles /\ Credited = Tiles /\ Formatted = Tiles /\ Consumed = Tiles
      /\ Stored = Tiles /\ demanded = Tiles /\ credit_count_q = 0
  BY <1>1, <1>3, <1>4, <1>5
<1>7. desc = <<>>
  BY <1>1, <1>3, <1>6, DescFacts
<1>8. /\ ~(sched_weight_start \/ weight_format_pending_q) /\ ~format_busy_q
      /\ ~weight_tile_complete_valid
  <2>1. \A c : Num(c) \in {0, 1} /\ (Num(c) = 1 <=> c)
    BY DEF Num
  <2>2. Consumed = demanded - Num(sched_weight_start \/ weight_format_pending_q)
    BY DEF Consumed
  <2>3. Formatted = Consumed - Num(format_busy_q)
    BY DEF Formatted
  <2>4. Credited = Formatted - Num(weight_tile_complete_valid)
    BY DEF Credited
  <2>5. Num(sched_weight_start \/ weight_format_pending_q) # 1
    BY <1>3, <1>6, <2>2
  <2>6. Num(format_busy_q) # 1
    BY <1>3, <1>6, <2>3
  <2>7. Num(weight_tile_complete_valid) # 1
    BY <1>3, <1>6, <2>4
  <2> QED BY <2>5, <2>6, <2>7 DEF Num
<1>9. ~sched_weight_done
  BY <1>6 DEF IInv, Demanded
<1>10. ~awaited
  BY <1>8, <1>9, OnePlace
<1>11. ~weight_req_r /\ ~weight_busy /\ ~weight_tile_ready /\ weight_count = 0
  <2>1. ~weight_req_r
    BY <1>3, <1>6, CommitFacts
  <2> QED BY <2>1 DEF IInv, Asked
<1>12. ~loading_q /\ ~begin_load /\ ~reads_done_q /\ ~read_pending_q /\ ~row_fifo_rd_en
  <2>1. /\ loading_q => Loaded < admitted
        /\ begin_load => Loaded < admitted
        /\ reads_done_q => loading_q
        /\ row_fifo_rd_en <=> loading_q /\ ~reads_done_q
    BY LoadFacts
  <2>2. ~loading_q /\ ~begin_load
    BY <1>1, <1>3, <1>6, <2>1
  <2>3. read_pending_q => loading_q
    BY DEF IInv, Loading
  <2> QED BY <2>1, <2>2, <2>3
<1>13. row_fifo = <<>>
  <2>1. format_col_q = 0
    BY <1>8 DEF IInv, Staged
  <2>2. ReadPlace = WritePlace
    BY <1>6, <1>12, <2>1 DEF ReadPlace, WritePlace, Issued
  <2>3. ReadPlace + Len(row_fifo) = WritePlace /\ Len(row_fifo) \in Nat
    BY DEF IInv, Lined, Typed, Structures
  <2>4. ReadPlace \in Int
    <3>1. COLS * Loaded \in Int
      BY <1>3, Times
    <3> QED BY <1>12, <3>1 DEF ReadPlace, Issued
  <2>5. Len(row_fifo) = 0
    BY <2>2, <2>3, <2>4
  <2>6. row_fifo = [i \in 1 .. Len(row_fifo) |-> row_fifo[i]]
    BY DEF IInv, Typed, Structures
  <2> QED BY <2>5, <2>6
<1>14. ~formatter_fire
  BY <1>8, FormatFacts
<1>15. ~in.beat
  BY <1>11, InputFacts
<1>16. \A b \in Bank : bank_state[b] \in {"EMPTY", "RETIRING"}
  <2>1. \A n : n \notin Retired .. admitted - 1
    BY <1>1, <1>3, <1>5
  <2> QED BY <2>1 DEF IInv, Owned
<1> QED
  BY <1>1, <1>2, <1>6, <1>7, <1>8, <1>10, <1>11, <1>12, <1>13, <1>14, <1>15, <1>16

LEMMA LayerEdges ==
  ASSUME NEW in \in Inputs, in.layer # {}, Edge(in)
  PROVE  LET p == PreloadInputs(in)
             g == StagingInputs(in)
         IN /\ BankEdge(p) /\ QueueEdge(p) /\ LoadEdge /\ ReadEdge /\ ErrorEdge(p)
            /\ AxisEdge(g) /\ FifoEdge /\ StagingReset
            /\ weight_req_r' = FALSE /\ weight_ingress_more_q' = TRUE
            /\ weight_ingress_k_q' = 0 /\ weight_ingress_cout_q' = 0
            /\ weight_format_pending_q' = FALSE
            /\ \E l \in in.layer : k_total' = l.k /\ cout_total' = l.cout
            /\ weight_tile_complete_pending_q' = FALSE
            /\ sched_weight_done' = weight_tile_complete_fire
            /\ StreamEdge(in) /\ SchedulerEdge(in) /\ ContextEdge(in)
            /\ parity' = 1 - parity
<1>1. StagingInputs(in).layer = in.layer
  BY DEF StagingInputs
<1>2. PreloadEdge(PreloadInputs(in)) /\ StagingEdge(StagingInputs(in))
  BY DEF Edge
<1>3. /\ RequestEdge(StagingInputs(in)) /\ AxisEdge(StagingInputs(in)) /\ FifoEdge
      /\ StagingReset
  BY <1>1, <1>2 DEF StagingEdge
<1>4. /\ weight_req_r' = FALSE /\ weight_ingress_more_q' = TRUE
      /\ weight_ingress_k_q' = 0 /\ weight_ingress_cout_q' = 0
      /\ weight_format_pending_q' = FALSE
      /\ \E l \in in.layer : k_total' = l.k /\ cout_total' = l.cout
      /\ weight_tile_complete_pending_q' = FALSE
      /\ sched_weight_done' = weight_tile_complete_fire
  BY <1>1, <1>3 DEF RequestEdge, reports_done
<1> QED BY <1>2, <1>3, <1>4 DEF PreloadEdge, Edge

LEMMA LayerStep ==
  ASSUME IInv, NEW in \in Inputs, in.layer # {}, ~in.demand, Edge(in)
  PROVE  Fresh'
<1> DEFINE p == PreloadInputs(in)
           g == StagingInputs(in)
<1>1. LayerOver /\ \E l \in Layer : in.layer = {l}
  BY InputFacts
<1>2. /\ ready = <<>> /\ running = <<>> /\ desc = <<>> /\ row_fifo = <<>>
      /\ ~weight_tile_complete_valid /\ ~format_busy_q /\ ~awaited
      /\ credit_count_q = 0 /\ weight_count = 0
      /\ ~weight_req_r /\ ~weight_busy /\ ~weight_tile_ready
      /\ ~loading_q /\ ~begin_load /\ ~reads_done_q /\ ~read_pending_q
      /\ ~row_fifo_rd_en /\ ~formatter_fire
      /\ ~in.start /\ ~in.retire /\ in.admit = {} /\ ~in.beat
      /\ \A b \in Bank : bank_state[b] \in {"EMPTY", "RETIRING"}
  BY <1>1, AtRest
<1>3. /\ BankEdge(p) /\ QueueEdge(p) /\ LoadEdge /\ ReadEdge /\ ErrorEdge(p)
      /\ AxisEdge(g) /\ FifoEdge /\ StagingReset
      /\ weight_req_r' = FALSE /\ weight_ingress_more_q' = TRUE
      /\ weight_ingress_k_q' = 0 /\ weight_ingress_cout_q' = 0
      /\ weight_format_pending_q' = FALSE
      /\ \E l \in in.layer : k_total' = l.k /\ cout_total' = l.cout
      /\ weight_tile_complete_pending_q' = FALSE
      /\ sched_weight_done' = weight_tile_complete_fire
      /\ StreamEdge(in) /\ SchedulerEdge(in) /\ ContextEdge(in)
      /\ parity' = 1 - parity
  BY LayerEdges
<1>4. \A b \in Bank :
        /\ bank_state'[b] = IF bank_state[b] = "RETIRING" THEN "EMPTY" ELSE bank_state[b]
        /\ bank_epoch_valid'[b] = (bank_epoch_valid[b] /\ bank_state[b] # "RETIRING")
        /\ DOMAIN bank_state' = Bank /\ DOMAIN bank_epoch' = Bank
        /\ DOMAIN bank_epoch_valid' = Bank
  BY <1>2, <1>3, BankMoves
<1>5. \A b \in Bank : bank_epoch_valid[b] <=> bank_state[b] # "EMPTY"
  BY DEF IInv, Owned
<1>6. \A b \in Bank : bank_state'[b] = "EMPTY" /\ ~bank_epoch_valid'[b]
  BY <1>2, <1>4, <1>5
<1>7. Flags /\ Numbers /\ Structures
  BY DEF IInv, Typed
<1>8. allocated(p) = {}
  BY <1>2, RequestFacts
<1>9. ~preload_commit_event
  BY <1>2, LoadFacts
<1>10. desc' = <<>>
  BY <1>2, <1>3, <1>8, <1>9 DEF QueueEdge
<1>11. credit_count_q' = 0
  <2>1. ~credit_fire(p)
    BY <1>2 DEF credit_fire, PreloadInputs
  <2> QED BY <1>2, <1>3, <1>9, <2>1 DEF QueueEdge
<1>12. loading_q' = FALSE /\ reads_done_q' = FALSE /\ issue_col_q' = issue_col_q
  BY <1>2, <1>3 DEF LoadEdge, IssueColNext
<1>13. read_pending_q' = FALSE /\ array' = array
  <2>1. ~array_w_load
    BY <1>2, LoadFacts
  <2> QED BY <1>2, <1>3, <2>1 DEF ReadEdge
<1>14. ~any_error'
  <2>1. ~any_error /\ ~descriptor_protocol_error /\ ~row_protocol_error
    BY Clean, LoadFacts
  <2>2. ~owner_error(p) /\ ~epoch_error(p)
    BY RequestFacts
  <2> HIDE DEF p
  <2> QED BY <1>3, <2>1, <2>2 DEF ErrorEdge, any_error
<1>15. ~stage_fatal'
  BY <1>3 DEF StagingReset, stage_fatal
<1>16. /\ weight_req_armed' \in BOOLEAN /\ weight_busy' = FALSE /\ weight_count' = 0
       /\ weight_tile_ready' = FALSE /\ wgt_tile_wr8' = {}
  BY <1>2, <1>3 DEF AxisEdge, takes_request, NoWrite
<1>17. row_fifo' = <<>>
  BY <1>2, <1>3 DEF FifoEdge, FifoLeft
<1>18. sched_weight_done' = FALSE
  BY <1>2, <1>3 DEF weight_tile_complete_fire
<1>19. sent' = 0 /\ demanded' = 0 /\ sched_weight_start' = FALSE /\ awaited' = FALSE
  <2>1. in.demand = FALSE
    BY InputFacts
  <2> QED BY <1>2, <1>3, <2>1 DEF StreamEdge, SchedulerEdge
<1>20. admitted' = 0 /\ ready' = <<>> /\ running' = <<>>
  <2> DEFINE new == {[bank |-> b, epoch |-> admitted % 3, tile |-> Tile(admitted)] :
                       b \in in.admit}
  <2>1. new = {}
    BY <1>2
  <2>2. /\ admitted' = 0
        /\ IF new = {} THEN ready' = ready
           ELSE \E c \in new : ready' = Append(ready, c)
        /\ running' = running
    BY <1>2, <1>3 DEF ContextEdge
  <2> HIDE DEF new
  <2> QED BY <1>2, <2>1, <2>2
<1>21. k_total' \in Nat \ {0} /\ cout_total' \in Nat \ {0}
  BY <1>1, <1>3, LayerAssumption
<1>22. /\ fill_valid_q' = TRUE /\ fill_bank_q' = 0 /\ fill_touched_q' = FALSE
       /\ occupied_q' = [b \in Bank |-> FALSE] /\ committed' = <<>>
       /\ format_busy_q' = FALSE /\ format_bank_q' = 0 /\ format_col_q' = 0
       /\ wgt_loader_done' = FALSE /\ staged' = staged
  BY <1>3 DEF StagingReset
<1>23. Flags'
  BY <1>3, <1>12, <1>13, <1>16, <1>18, <1>19, <1>22 DEF Flags
<1>24. Numbers'
  <2>1. 0 \in Bank /\ 0 \in Column /\ 0 \in Beat
    BY ColsAssumption, BeatsAssumption DEF Bank, Column, Beat
  <2>2. parity' \in {0, 1}
    BY <1>3, <1>7 DEF Numbers
  <2>3. issue_col_q' \in Column
    BY <1>7, <1>12 DEF Numbers
  <2> QED BY <1>3, <1>11, <1>16, <1>19, <1>20, <1>21, <1>22, <2>1, <2>2, <2>3 DEF Numbers
<1>25. Structures'
  <2>1. /\ DOMAIN bank_state' = Bank /\ DOMAIN bank_epoch' = Bank
        /\ DOMAIN bank_epoch_valid' = Bank
        /\ \A b \in Bank : bank_epoch_valid'[b] \in BOOLEAN
    <3>1. 0 \in Bank
      BY DEF Bank
    <3> QED BY <1>4, <3>1
  <2>2. Len(row_fifo') \in Nat /\ row_fifo' = [i \in 1 .. Len(row_fifo') |-> row_fifo'[i]]
    BY <1>17
  <2>3. /\ desc' \in Seq([bank : Bank, epoch : Nat]) /\ committed' \in Seq(Bank)
        /\ ready' \in Seq(Contexts) /\ running' \in Seq(Contexts)
    BY <1>10, <1>20, <1>22, EmptySeq
  <2>4. DOMAIN array' = Bank /\ \A b \in Bank : DOMAIN array'[b] = Column
    BY <1>7, <1>13 DEF Structures
  <2>5. DOMAIN staged' = Bank /\ \A b \in Bank : staged'[b] = [i \in Beat |-> staged'[b][i]]
    BY <1>7, <1>22 DEF Structures
  <2>6. DOMAIN occupied_q' = Bank /\ \A b \in Bank : occupied_q'[b] \in BOOLEAN
    BY <1>22
  <2>7. bank_state' = [b \in Bank |-> bank_state'[b]]
    BY <1>3, BankShape
  <2> QED BY <2>1, <2>2, <2>3, <2>4, <2>5, <2>6, <2>7 DEF Structures
<1>26. NoWeightErrors'
  BY <1>14, <1>15 DEF NoWeightErrors
<1>27. \A b \in Bank : bank_state'[b] = "EMPTY" /\ ~bank_epoch_valid'[b] /\ ~occupied_q'[b]
  BY <1>6, <1>22
<1>28. k_total' > 0 /\ cout_total' > 0
  BY <1>21
<1> QED
  BY <1>3, <1>10, <1>11, <1>12, <1>13, <1>16, <1>17, <1>18, <1>19, <1>20, <1>22, <1>23,
     <1>24, <1>25, <1>26, <1>27, <1>28 DEF Fresh, Typed

-----------------------------------------------------------------------------
LEMMA Stutter ==
  ASSUME IInv, UNCHANGED vars
  PROVE  IInv'
<1> USE DEF vars, preloadVars, bankVars, queueVars, loadVars, readVars, errorVars,
            stagingVars, axisVars, requestVars, fillVars, formatVars, partyVars
<1>1. /\ Consumed' = Consumed /\ Stored' = Stored /\ Formatted' = Formatted
      /\ Credited' = Credited /\ Loaded' = Loaded /\ Started' = Started
      /\ Retired' = Retired /\ Tiles' = Tiles /\ Issued' = Issued
      /\ Received' = Received
  BY DEF Consumed, Stored, Formatted, Credited, Loaded, Started, Retired, Tiles, Issued,
         Received, Num, weight_tile_complete_valid
<1>2. Typed' /\ NoWeightErrors'
  BY DEF IInv, Typed, Flags, Numbers, Structures, NoWeightErrors, stage_fatal, any_error
<1>3. Counted' /\ Demanded' /\ Asked'
  BY <1>1 DEF IInv, Counted, Demanded, Asked, Num, weight_tile_complete_valid
<1>4. Filled' /\ Staged'
  BY <1>1 DEF IInv, Filled, Staged, Written, Num, Packet, Tile
<1>5. Lined'
  BY <1>1 DEF IInv, Lined, ReadPlace, WritePlace, At, Packet, Tile
<1>6. Owned' /\ Kept'
  BY <1>1 DEF IInv, Owned, Kept, Held, StateOf, Tile, Packet
<1>7. Loading'
  BY <1>1 DEF IInv, Loading, Arrived, Num, Packet, Tile
<1> QED BY <1>2, <1>3, <1>4, <1>5, <1>6, <1>7 DEF IInv

\* Every edge of the clock keeps the path in order.
LEMMA StepKeeps ==
  ASSUME IInv, [Next]_vars
  PROVE  IInv' \/ Fresh'
<1>1. ASSUME NEW in \in Inputs, in.layer # {} => ~in.demand, Edge(in)
      PROVE  IInv' \/ Fresh'
  <2>1. CASE in.layer = {}
    BY <1>1, <2>1, WorkStep DEF Works
  <2>2. CASE in.layer # {}
    BY <1>1, <2>2, LayerStep
  <2> QED BY <2>1, <2>2
<1>2. CASE UNCHANGED vars
  BY <1>2, Stutter
<1> QED BY <1>1, <1>2 DEF Next

\* Whatever the stream, the scheduler, the front end and the core do, and from
\* one layer to the next, the counts of the stages, the banks, the FIFO and the
\* contexts agree on which tile is where.
THEOREM WeightPathInvariant == Spec => []IInv
<1>1. Init => IInv
  BY InitFresh, FreshInvariant
<1>2. IInv /\ [Next]_vars => IInv' \/ Fresh'
  BY StepKeeps
<1>3. Fresh => IInv
  BY FreshInvariant
<1> QED BY <1>1, <1>2, <1>3, PTL DEF Spec

LEMMA SafeHolds == IInv => WeightsSafe
<1> SUFFICES ASSUME IInv PROVE WeightsSafe
  OBVIOUS
<1>1. /\ Retired \in Nat /\ Started \in Nat /\ Loaded \in Nat /\ admitted \in Nat
      /\ Formatted \in Nat /\ Stored \in Nat /\ Consumed \in Nat
      /\ Len(desc) \in Nat /\ Len(committed) \in Nat
  BY CountTypes
<1>2. /\ Retired <= Started /\ Started <= Loaded /\ Loaded <= admitted
      /\ admitted <= Retired + 2 /\ Stored <= Formatted + 2 /\ Formatted <= Consumed
  BY CountOrder
<1>3. TypeOK
  <2>1. bank_state \in [Bank -> BankStates]
    <3>1. \A b \in Bank : bank_state[b] \in BankStates
      <4> TAKE b \in Bank
      <4>1. CASE \E n \in Retired .. admitted - 1 : Held(n).bank = b
        BY <4>1, HeldFacts DEF StateOf, BankStates
      <4>2. CASE \A n \in Retired .. admitted - 1 : Held(n).bank # b
        BY <4>2 DEF IInv, Owned, BankStates
      <4> QED BY <4>1, <4>2
    <3>2. bank_state = [b \in Bank |-> bank_state[b]]
      BY DEF IInv, Typed, Structures
    <3> QED BY <3>1, <3>2
  <2>2. Len(desc) <= 2
    <3>1. admitted - Loaded = Len(desc)
      BY DescFacts
    <3> QED BY <1>1, <1>2, <3>1
  <2>3. Len(committed) <= 2
    <3>1. Stored = Consumed + Len(committed)
      BY DEF Stored
    <3> QED BY <1>1, <1>2, <3>1
  <2> QED BY <2>1, <2>2, <2>3 DEF TypeOK, IInv, Typed, Numbers, Lined
<1>4. \A n \in Retired .. admitted - 1 :
        bank_state[Held(n).bank] \in {"READY", "ACTIVE"} =>
          \A c \in Column :
            array[Held(n).bank][c] = Word([i \in Beat |-> Held(n).tile], c)
  <2> TAKE n \in Retired .. admitted - 1
  <2> HAVE bank_state[Held(n).bank] \in {"READY", "ACTIVE"}
  <2>1. bank_state[Held(n).bank] = StateOf(n) /\ Held(n).tile = Tile(n)
    BY HeldFacts
  <2>2. n \in Retired .. Loaded - 1
    <3>1. n < Loaded
      <4>1. StateOf(n) \in {"READY", "ACTIVE"}
        BY <2>1
      <4>2. n < Started \/ n < Loaded
        BY <4>1 DEF StateOf
      <4>3. n \in Int
        BY <1>1
      <4> QED BY <1>1, <1>2, <4>2, <4>3
    <3> QED BY <1>1, <3>1
  <2> QED BY <2>1, <2>2 DEF IInv, Kept, Packet
<1>5. WeightsMatch
  <2>1. Started - Retired = Len(running) /\ admitted - Started = Len(ready)
    BY HeldFacts
  <2>0. Len(running) \in Nat /\ Len(ready) \in Nat
    BY CountTypes
  <2>2. \A k \in 1 .. Len(running) :
          running[k] = Held(Retired + k - 1) /\ Retired + k - 1 \in Retired .. admitted - 1
    <3>1. \A k \in 1 .. Len(running) : Retired + k - 1 \in Retired .. admitted - 1
      BY <1>1, <1>2, <2>0, <2>1
    <3> QED BY <3>1, HeldFacts
  <2>3. \A k \in 1 .. Len(ready) :
          ready[k] = Held(Started + k - 1) /\ Started + k - 1 \in Retired .. admitted - 1
    <3>1. \A k \in 1 .. Len(ready) : Started + k - 1 \in Retired .. admitted - 1
      BY <1>1, <1>2, <2>0, <2>1
    <3> QED BY <3>1, HeldFacts
  <2>4. ASSUME NEW k \in 1 .. Len(running), bank_state[running[k].bank] \in {"READY", "ACTIVE"},
               NEW c \in Column
        PROVE  array[running[k].bank][c] = Word([i \in Beat |-> running[k].tile], c)
    BY <1>4, <2>2, <2>4
  <2>5. ASSUME NEW k \in 1 .. Len(ready), bank_state[ready[k].bank] \in {"READY", "ACTIVE"},
               NEW c \in Column
        PROVE  array[ready[k].bank][c] = Word([i \in Beat |-> ready[k].tile], c)
    BY <1>4, <2>3, <2>5
  <2> QED BY <2>4, <2>5 DEF WeightsMatch
<1>6. CompletionKept
  BY DEF IInv, Demanded, CompletionKept
<1> QED BY <1>3, <1>5, <1>6 DEF WeightsSafe, IInv

\* A bank that a pass may start on, or runs on, holds that pass's weights in
\* every column and every beat; the loader's pulse is never lost, no bank is
\* overwritten in use, no load lacks its words and no completion is dropped.
THEOREM WeightsAlwaysSafe == Spec => []WeightsSafe
<1>1. Spec => []IInv
  BY WeightPathInvariant
<1>2. IInv => WeightsSafe
  BY SafeHolds
<1> QED BY <1>1, <1>2, PTL
===============================================================================
