------------------------------ MODULE WeightProofs ------------------------------
(***************************************************************************)
(* For every number of columns, every depth of the row FIFOs and every     *)
(* sequence of requests: a load that was promised its words finds its bank *)
(* and its words, the banks in use have different epochs, and after an     *)
(* error nothing moves.                                                    *)
(***************************************************************************)
EXTENDS WeightRequests, Integers, SequenceTheorems, TLAPS

LEMMA Times ==
  ASSUME NEW n \in Int
  PROVE  COLS * (n + 1) = COLS * n + COLS /\ COLS * (n - 1) = COLS * n - COLS
  BY ColsAssumption

LEMMA TimesPositive ==
  ASSUME NEW n \in Nat \ {0}
  PROVE  COLS * n >= COLS
<1> PICK m \in Nat : n = m + 1
  BY n - 1 \in Nat
<1>1. COLS * n = COLS * m + COLS
  BY Times
<1>2. COLS * m >= 0
  BY ColsAssumption
<1> QED
  BY <1>1, <1>2, ColsAssumption

LEMMA TileNext ==
  ASSUME NEW t \in Nat, NEW c \in Nat
  PROVE  (t + 1) % TileMod \in 0 .. TileMod - 1 /\ (c + 1) % COLS \in Column
  BY FifoAssumption, ColsAssumption DEF Column

LEMMA ColumnNext ==
  ASSUME NEW c \in Column
  PROVE  (c + 1) % COLS = IF c = COLS - 1 THEN 0 ELSE c + 1
  BY ColsAssumption DEF Column

LEMMA InitInv == Init => IInv
<1> SUFFICES ASSUME Init PROVE IInv
  OBVIOUS
<1>1. (CHOOSE e \in Epoch : TRUE) \in Epoch
  BY EpochAssumption
<1>2. TypeOK
  <2>1. desc \in Seq(Request) /\ Len(desc) <= 2 /\ row_fifo \in Seq(Words)
    BY DEF Init, PreloadInit
  <2>2. bank_epoch \in [Bank -> Epoch]
    BY <1>1 DEF Init, PreloadInit
  <2>3. /\ bank_state \in [Bank -> BankStates]
        /\ bank_epoch_valid \in [Bank -> BOOLEAN]
    BY DEF Init, PreloadInit, BankStates
  <2>4. /\ issue_col_q \in Column /\ read_col_q \in Column
        /\ column \in Column /\ tile \in 0 .. TileMod - 1
        /\ complete \in Nat /\ credit_count_q \in 0 .. 2
        /\ loading_bank_q \in Bank /\ read_bank_q \in Bank
    BY ColsAssumption, FifoAssumption DEF Init, PreloadInit, Bank, Column
  <2>5. /\ loading_q \in BOOLEAN /\ reads_done_q \in BOOLEAN
        /\ read_pending_q \in BOOLEAN /\ sticky_protocol_error_q \in BOOLEAN
        /\ sticky_owner_error_q \in BOOLEAN
        /\ sticky_epoch_error_q \in BOOLEAN
    BY DEF Init, PreloadInit
  <2> QED
    BY <2>1, <2>2, <2>3, <2>4, <2>5 DEF TypeOK
<1>3. QueueAgrees
  BY DEF Init, PreloadInit, QueueAgrees, Queued
<1>4. FifoCounted
  BY ColsAssumption DEF Init, PreloadInit, FifoCounted, Issued
<1>5. LoadsFindTheirs /\ EpochsDiffer
  BY DEF Init, PreloadInit, LoadsFindTheirs, EpochsDiffer, Bank
<1> QED
  BY <1>2, <1>3, <1>4, <1>5 DEF IInv

LEMMA ResetInv == Reset => IInv'
<1> SUFFICES ASSUME Reset PROVE IInv'
  OBVIOUS
<1>1. (CHOOSE e \in Epoch : TRUE) \in Epoch
  BY EpochAssumption
<1>2. TypeOK'
  <2>1. desc' \in Seq(Request) /\ Len(desc') <= 2 /\ row_fifo' \in Seq(Words)
    BY DEF Reset
  <2>2. bank_epoch' \in [Bank -> Epoch]
    BY <1>1 DEF Reset
  <2>3. /\ bank_state' \in [Bank -> BankStates]
        /\ bank_epoch_valid' \in [Bank -> BOOLEAN]
    BY DEF Reset, BankStates
  <2>4. /\ issue_col_q' \in Column /\ read_col_q' \in Column
        /\ column' \in Column /\ tile' \in 0 .. TileMod - 1
        /\ complete' \in Nat /\ credit_count_q' \in 0 .. 2
        /\ loading_bank_q' \in Bank /\ read_bank_q' \in Bank
    BY ColsAssumption, FifoAssumption DEF Reset, Bank, Column
  <2>5. /\ loading_q' \in BOOLEAN /\ reads_done_q' \in BOOLEAN
        /\ read_pending_q' \in BOOLEAN /\ sticky_protocol_error_q' \in BOOLEAN
        /\ sticky_owner_error_q' \in BOOLEAN
        /\ sticky_epoch_error_q' \in BOOLEAN
    BY DEF Reset
  <2> QED
    BY <2>1, <2>2, <2>3, <2>4, <2>5 DEF TypeOK
<1>3. QueueAgrees'
  BY DEF Reset, QueueAgrees, Queued
<1>4. FifoCounted'
  BY ColsAssumption DEF Reset, FifoCounted, Issued
<1>5. LoadsFindTheirs' /\ EpochsDiffer'
  BY DEF Reset, LoadsFindTheirs, EpochsDiffer, Bank
<1> QED
  BY <1>2, <1>3, <1>4, <1>5 DEF IInv

-----------------------------------------------------------------------------
(* What an edge may do *)

\* A port carries nothing or one request.
AtMostOne(S) == \A r, s \in S : r = s

LEMMA InputTypes ==
  ASSUME NEW in \in Inputs
  PROVE  /\ in.alloc \subseteq Request /\ AtMostOne(in.alloc)
         /\ in.start \subseteq Request /\ AtMostOne(in.start)
         /\ in.retire \subseteq Request /\ AtMostOne(in.retire)
         /\ in.credit \in BOOLEAN /\ in.write \in BOOLEAN
         /\ in.credit => complete # 0
<1>1. ASSUME NEW S PROVE OneOf(S) \subseteq S
  BY DEF OneOf
<1>2. AllocRequests \subseteq Request
  BY <1>1 DEF AllocRequests
<1>3. \A state : EventRequests(state) \subseteq Request
  BY <1>1 DEF EventRequests
<1>4. /\ in.alloc \in Port(AllocRequests)
      /\ in.start \in Port(EventRequests("READY"))
      /\ in.retire \in Port(EventRequests("ACTIVE"))
      /\ in.credit \in BOOLEAN /\ in.write \in BOOLEAN
      /\ in.credit => complete # 0
  BY DEF Inputs
<1>5. ASSUME NEW S \in SUBSET Request, NEW P \in Port(S)
      PROVE  P \subseteq Request /\ AtMostOne(P)
  BY DEF Port, AtMostOne
<1> QED
  BY <1>2, <1>3, <1>4, <1>5

\* Each accepted event finds its bank in one state, so that no two of them are
\* for the same bank.
LEMMA EventFacts ==
  ASSUME IInv, NEW in \in Inputs
  PROVE  /\ allocated(in) \subseteq Request /\ AtMostOne(allocated(in))
         /\ \A r \in allocated(in) :
              /\ Len(desc) < 2 /\ bank_state[r.bank] = "EMPTY"
              /\ ~alloc_epoch_conflict(r)
         /\ \A r \in started(in) : r \in Request /\ bank_state[r.bank] = "READY"
         /\ \A r \in retired(in) : r \in Request /\ bank_state[r.bank] = "ACTIVE"
  BY InputTypes DEF allocated, started, retired, alloc_ready, alloc_base_ready,
                    start_ready, retire_match, AtMostOne

\* The descriptors of banks that are to be loaded.
LEMMA DescFacts ==
  ASSUME IInv
  PROVE  /\ Len(desc) \in 0 .. 2
         /\ desc = <<>> <=> Len(desc) = 0
         /\ \A k \in 1 .. Len(desc) : desc[k] \in Request
         /\ desc # <<>> => Head(desc) = desc[1]
<1>1. desc \in Seq(Request) /\ Len(desc) <= 2
  BY DEF IInv, TypeOK
<1>2. Len(desc) \in 0 .. 2
  <2>1. Len(desc) \in Nat /\ Len(desc) <= 2
    BY <1>1, LenProperties
  <2>2. ASSUME NEW n \in Nat, n <= 2 PROVE n \in 0 .. 2
    BY <2>2
  <2> QED
    BY <2>1, <2>2
<1>3. desc = <<>> <=> Len(desc) = 0
  BY <1>1, EmptySeq
<1>4. \A k \in 1 .. Len(desc) : desc[k] \in Request
  BY <1>1, ElementOfSeq
<1>5. desc # <<>> => Head(desc) = desc[1]
  BY <1>1
<1> QED
  BY <1>2, <1>3, <1>4, <1>5

LEMMA LoadFacts ==
  ASSUME IInv
  PROVE  /\ preload_commit_event =>
              /\ loading_q /\ reads_done_q /\ desc # <<>> /\ credit_count_q # 0
              /\ loading_bank_q \in Bank /\ Head(desc).bank = loading_bank_q
              /\ bank_state[loading_bank_q] = "LOADING"
         /\ begin_load =>
              /\ ~loading_q /\ desc # <<>> /\ credit_count_q # 0
              /\ Head(desc).bank \in Bank
              /\ bank_state[Head(desc).bank] = "RESERVED"
              /\ ~preload_commit_event
         /\ row_fifo_rd_en => /\ loading_q /\ ~reads_done_q /\ row_fifo # <<>>
                              /\ ~preload_commit_event /\ ~begin_load
<1>1. preload_commit_event =>
        /\ loading_q /\ reads_done_q /\ desc # <<>> /\ credit_count_q # 0
        /\ loading_bank_q \in Bank /\ Head(desc).bank = loading_bank_q
        /\ bank_state[loading_bank_q] = "LOADING"
  BY DEF IInv, TypeOK, FifoCounted, QueueAgrees, preload_commit_event,
         array_w_load
<1>2. begin_load => /\ ~loading_q /\ desc # <<>> /\ credit_count_q # 0
                    /\ Head(desc).bank \in Bank
                    /\ bank_state[Head(desc).bank] = "RESERVED"
  BY DescFacts DEF begin_load, have_load_pair, head_descriptor_match, Request
<1> QED
  BY <1>1, <1>2 DEF row_fifo_rd_en, all_rows_nonempty

-----------------------------------------------------------------------------
(* One bank, one edge *)

\* The events that an edge may have for bank b.
Allocates(in, b) == \E r \in allocated(in) : r.bank = b
Starts(in, b) == \E r \in started(in) : r.bank = b
Retires(in, b) == \E r \in retired(in) : r.bank = b
Begins(b) == begin_load /\ Head(desc).bank = b
Commits(b) == preload_commit_event /\ loading_bank_q = b

\* Each event moves the bank from one state to the next one.
LEMMA BankMoves ==
  ASSUME IInv, NEW in \in Inputs, BankEdge(in), NEW b \in Bank
  PROVE  /\ bank_state'[b] =
              IF Retires(in, b) THEN "RETIRING" ELSE IF Starts(in, b) THEN "ACTIVE"
              ELSE IF Commits(b) THEN "READY" ELSE IF Allocates(in, b) THEN "RESERVED"
              ELSE IF Begins(b) THEN "LOADING"
              ELSE IF bank_state[b] = "RETIRING" THEN "EMPTY" ELSE bank_state[b]
         /\ Retires(in, b) => bank_state[b] = "ACTIVE"
         /\ Starts(in, b) => bank_state[b] = "READY"
         /\ Commits(b) => bank_state[b] = "LOADING"
         /\ Allocates(in, b) => bank_state[b] = "EMPTY"
         /\ Begins(b) => bank_state[b] = "RESERVED"
<1>1. bank_state'[b] =
        IF Retires(in, b) THEN "RETIRING" ELSE IF Starts(in, b) THEN "ACTIVE"
        ELSE IF Commits(b) THEN "READY" ELSE IF Allocates(in, b) THEN "RESERVED"
        ELSE IF Begins(b) THEN "LOADING"
        ELSE IF bank_state[b] = "RETIRING" THEN "EMPTY" ELSE bank_state[b]
  BY DEF BankEdge, BankStateNext, Retires, Starts, Commits, Allocates, Begins
<1>2. /\ Retires(in, b) => bank_state[b] = "ACTIVE"
      /\ Starts(in, b) => bank_state[b] = "READY"
      /\ Allocates(in, b) => bank_state[b] = "EMPTY"
  BY EventFacts DEF Retires, Starts, Allocates
<1>3. /\ Commits(b) => bank_state[b] = "LOADING"
      /\ Begins(b) => bank_state[b] = "RESERVED"
  BY LoadFacts DEF Commits, Begins
<1> QED
  BY <1>1, <1>2, <1>3

\* A bank's epoch changes only when it is allocated.
LEMMA EpochMoves ==
  ASSUME IInv, NEW in \in Inputs, BankEdge(in), NEW b \in Bank
  PROVE  /\ \A r \in allocated(in) : r.bank = b => bank_epoch'[b] = r.epoch
         /\ ~Allocates(in, b) => bank_epoch'[b] = bank_epoch[b]
         /\ bank_epoch_valid'[b] <=>
              \/ Allocates(in, b)
              \/ bank_epoch_valid[b] /\ bank_state[b] # "RETIRING"
<1>1. AtMostOne(allocated(in))
  BY EventFacts
<1>2. \A r \in allocated(in) : r.bank = b =>
        (CHOOSE q \in allocated(in) : q.bank = b) = r
  BY <1>1 DEF AtMostOne
<1>3. bank_epoch'[b] = IF Allocates(in, b)
                       THEN (CHOOSE r \in allocated(in) : r.bank = b).epoch
                       ELSE bank_epoch[b]
  BY DEF BankEdge, Allocates
<1>4. bank_epoch_valid'[b] = (\/ Allocates(in, b)
                              \/ bank_epoch_valid[b] /\ bank_state[b] # "RETIRING")
  BY DEF BankEdge, Allocates
<1>5. \A r \in allocated(in) : r.bank = b => Allocates(in, b)
  BY DEF Allocates
<1> QED
  BY <1>2, <1>3, <1>4, <1>5

LEMMA BankTypes ==
  ASSUME IInv, NEW in \in Inputs, BankEdge(in)
  PROVE  /\ bank_state' \in [Bank -> BankStates]
         /\ bank_epoch' \in [Bank -> Epoch]
         /\ bank_epoch_valid' \in [Bank -> BOOLEAN]
<1>1. ASSUME NEW b \in Bank PROVE bank_state'[b] \in BankStates
  BY BankMoves DEF IInv, TypeOK, BankStates
<1>2. ASSUME NEW b \in Bank PROVE bank_epoch'[b] \in Epoch
  <2>1. CASE Allocates(in, b)
    <3> PICK r \in allocated(in) : r.bank = b
      BY <2>1 DEF Allocates
    <3> QED
      BY EpochMoves, EventFacts DEF Request
  <2>2. CASE ~Allocates(in, b)
    BY <2>2, EpochMoves DEF IInv, TypeOK
  <2> QED
    BY <2>1, <2>2
<1>3. bank_epoch_valid' \in [Bank -> BOOLEAN]
  BY DEF BankEdge, IInv, TypeOK
<1>4. bank_state' = [b \in Bank |-> bank_state'[b]]
  BY DEF BankEdge
<1>5. bank_epoch' = [b \in Bank |-> bank_epoch'[b]]
  BY DEF BankEdge
<1> QED
  BY <1>1, <1>2, <1>3, <1>4, <1>5

-----------------------------------------------------------------------------
(* The queue of descriptors *)

Dropped == IF preload_commit_event THEN 1 ELSE 0

\* An edge drops the first descriptor, appends one, or both.
LEMMA DescMoves ==
  ASSUME IInv, NEW in \in Inputs, QueueEdge(in)
  PROVE  /\ desc' \in Seq(Request) /\ Len(desc') \in Nat
         /\ \A k \in 1 .. Len(desc) - Dropped : desc'[k] = desc[k + Dropped]
         /\ \/ allocated(in) = {} /\ Len(desc') = Len(desc) - Dropped
            \/ \E r \in allocated(in) :
                 /\ Len(desc') = Len(desc) - Dropped + 1
                 /\ desc'[Len(desc')] = r
<1> DEFINE rest == IF preload_commit_event THEN Tail(desc) ELSE desc
<1>1. desc \in Seq(Request) /\ (preload_commit_event => desc # <<>>)
  BY LoadFacts DEF IInv, TypeOK
<1>2. /\ rest \in Seq(Request) /\ Len(rest) = Len(desc) - Dropped
      /\ \A k \in 1 .. Len(desc) - Dropped : rest[k] = desc[k + Dropped]
  <2>1. CASE preload_commit_event
    BY <1>1, <2>1, HeadTailProperties DEF Dropped
  <2>2. CASE ~preload_commit_event
    BY <1>1, <2>2, LenProperties DEF Dropped
  <2> QED
    BY <2>1, <2>2
<1>3. IF allocated(in) = {} THEN desc' = rest
      ELSE \E r \in allocated(in) : desc' = Append(rest, r)
  BY DEF QueueEdge
<1> HIDE DEF rest
<1>4. CASE allocated(in) = {}
  BY <1>2, <1>3, <1>4, LenProperties
<1>5. CASE allocated(in) # {}
  <2>1. PICK r \in allocated(in) : desc' = Append(rest, r)
    BY <1>3, <1>5
  <2>2. r \in Request
    BY EventFacts
  <2>3. /\ desc' \in Seq(Request) /\ Len(desc') = Len(rest) + 1
        /\ \A k \in 1 .. Len(rest) : desc'[k] = rest[k]
        /\ desc'[Len(rest) + 1] = r
    BY <1>2, <2>1, <2>2, AppendProperties
  <2>4. Len(rest) \in Nat
    BY <1>2, LenProperties
  <2> QED
    BY <1>2, <2>3, <2>4
<1> QED
  BY <1>4, <1>5

\* Who is queued after an edge: the old ones, less the one whose load is done,
\* and the newly allocated one.
LEMMA QueuedMoves ==
  ASSUME IInv, NEW in \in Inputs, QueueEdge(in), NEW b \in Bank
  PROVE  Queued(b)' <=> (Queued(b) /\ ~Commits(b)) \/ Allocates(in, b)
<1>1. AtMostOne(allocated(in)) /\ allocated(in) \subseteq Request
  BY EventFacts
<1>2. Len(desc) \in 0 .. 2 /\ (Len(desc) = 2 => desc[1].bank # desc[2].bank)
  BY DescFacts DEF IInv, QueueAgrees
<1>3. preload_commit_event => Len(desc) # 0 /\ desc[1].bank = loading_bank_q
  BY LoadFacts, DescFacts
<1>4. Queued(b) /\ ~Commits(b) <=>
        \E k \in 1 .. Len(desc) - Dropped : desc[k + Dropped].bank = b
  <2>1. CASE preload_commit_event
    BY <1>2, <1>3, <2>1 DEF Dropped, Queued, Commits
  <2>2. CASE ~preload_commit_event
    BY <1>2, <2>2 DEF Dropped, Queued, Commits
  <2> QED
    BY <2>1, <2>2
<1>5. Len(desc) - Dropped \in Nat
  BY <1>2, <1>3 DEF Dropped
<1>6. CASE allocated(in) = {}
  BY <1>4, <1>5, <1>6, DescMoves DEF Queued, Allocates
<1>7. CASE allocated(in) # {}
  <2>1. PICK r \in allocated(in) :
          Len(desc') = Len(desc) - Dropped + 1 /\ desc'[Len(desc')] = r
    BY <1>7, DescMoves
  <2>2. Allocates(in, b) <=> r.bank = b
    BY <1>1 DEF Allocates, AtMostOne
  <2>3. \A k \in 1 .. Len(desc) - Dropped : desc'[k] = desc[k + Dropped]
    BY DescMoves
  <2>4. 1 .. Len(desc') = (1 .. Len(desc) - Dropped) \cup {Len(desc')}
    BY <1>5, <2>1
  <2>5. Queued(b)' <=> \E k \in 1 .. Len(desc') : desc'[k].bank = b
    BY DEF Queued
  <2> QED
    BY <1>4, <2>1, <2>2, <2>3, <2>4, <2>5
<1> QED
  BY <1>6, <1>7

LEMMA DescLength ==
  ASSUME IInv, NEW in \in Inputs, QueueEdge(in)
  PROVE  Len(desc') <= 2
<1>1. Len(desc) \in 0 .. 2
  BY DescFacts
<1>2. CASE allocated(in) = {}
  BY <1>1, <1>2, DescMoves DEF Dropped
<1>3. CASE allocated(in) # {}
  BY <1>1, <1>3, DescMoves, EventFacts DEF Dropped
<1> QED
  BY <1>2, <1>3

\* An edge's queue, bank by bank: the entries that stay are of banks that are
\* not allocated on the edge.
LEMMA EntryMoves ==
  ASSUME IInv, NEW in \in Inputs, QueueEdge(in), NEW k \in 1 .. Len(desc')
  PROVE  \/ /\ k + Dropped \in 1 .. Len(desc) /\ k <= Len(desc) - Dropped
            /\ desc'[k] = desc[k + Dropped] /\ desc'[k].bank \in Bank
            /\ Queued(desc'[k].bank) /\ ~Allocates(in, desc'[k].bank)
         \/ /\ k = Len(desc') /\ k = Len(desc) - Dropped + 1
            /\ desc'[k] \in allocated(in)
<1>1. Len(desc) \in 0 .. 2 /\ Len(desc') \in Nat /\ Dropped \in {0, 1}
  BY DescFacts, DescMoves DEF Dropped
<1>2. CASE k <= Len(desc) - Dropped
  <2>1. k + Dropped \in 1 .. Len(desc) /\ k \in 1 .. Len(desc) - Dropped
    BY <1>1, <1>2
  <2>2. desc'[k] = desc[k + Dropped]
    BY <2>1, DescMoves
  <2>3. desc'[k].bank \in Bank
    BY <2>1, <2>2, DescFacts DEF Request
  <2>4. Queued(desc'[k].bank)
    BY <2>1, <2>2 DEF Queued
  <2>5. bank_state[desc'[k].bank] # "EMPTY"
    BY <2>3, <2>4 DEF IInv, QueueAgrees
  <2>6. ~Allocates(in, desc'[k].bank)
    BY <2>5, EventFacts DEF Allocates
  <2> QED
    BY <1>2, <2>1, <2>2, <2>3, <2>4, <2>6
<1>3. CASE ~(k <= Len(desc) - Dropped)
  <2>1. Len(desc') # Len(desc) - Dropped
    BY <1>1, <1>3
  <2>2. PICK r \in allocated(in) :
          Len(desc') = Len(desc) - Dropped + 1 /\ desc'[Len(desc')] = r
    BY <2>1, DescMoves
  <2>3. k = Len(desc') /\ k = Len(desc) - Dropped + 1
    BY <1>1, <1>3, <2>2
  <2> QED
    BY <2>2, <2>3
<1> QED
  BY <1>2, <1>3

LEMMA QueueStep ==
  ASSUME IInv, NEW in \in Inputs, Edge(in)
  PROVE  QueueAgrees'
<1> USE DEF Edge, PreloadEdge
<1>1. ASSUME NEW b \in Bank
      PROVE  bank_epoch_valid'[b] <=> bank_state'[b] # "EMPTY"
  <2>1. bank_epoch_valid[b] <=> bank_state[b] # "EMPTY"
    BY DEF IInv, QueueAgrees
  <2> QED
    BY <2>1, BankMoves, EpochMoves
<1>2. /\ loading_q' <=> (loading_q \/ begin_load) /\ ~preload_commit_event
      /\ loading_bank_q' = IF begin_load THEN Head(desc).bank ELSE loading_bank_q
  BY DEF LoadEdge
<1>3. loading_q' => /\ desc' # <<>> /\ Head(desc').bank = loading_bank_q'
                    /\ credit_count_q' # 0
  <2> SUFFICES ASSUME loading_q'
               PROVE  /\ desc' # <<>> /\ Head(desc').bank = loading_bank_q'
                      /\ credit_count_q' # 0
    OBVIOUS
  <2>1. ~preload_commit_event /\ (loading_q \/ begin_load)
    BY <1>2
  <2>2. /\ desc # <<>> /\ Head(desc).bank = loading_bank_q'
        /\ credit_count_q # 0
    BY <1>2, <2>1, LoadFacts DEF IInv, QueueAgrees
  <2>3. Dropped = 0 /\ Len(desc) # 0 /\ Len(desc) \in 0 .. 2
    BY <2>1, <2>2, DescFacts DEF Dropped
  <2>4. desc'[1] = desc[1] /\ Len(desc') # 0
    BY <2>3, DescMoves
  <2>5. desc' \in Seq(Request)
    BY DescMoves
  <2>6. desc' # <<>> /\ Head(desc') = desc'[1]
    BY <2>4, <2>5, EmptySeq
  <2>7. credit_count_q' # 0
    BY <2>1, <2>2 DEF QueueEdge, IInv, TypeOK
  <2> QED
    BY <2>2, <2>4, <2>6, <2>7, DescFacts
<1>4. ASSUME NEW b \in Bank
      PROVE  bank_state'[b] = "LOADING" <=> loading_q' /\ loading_bank_q' = b
  <2>1. bank_state[b] = "LOADING" <=> loading_q /\ loading_bank_q = b
    BY DEF IInv, QueueAgrees
  <2>2. bank_state'[b] = "LOADING" <=>
          Begins(b) \/ (bank_state[b] = "LOADING" /\ ~Commits(b))
    BY BankMoves
  <2> QED
    BY <1>2, <2>1, <2>2, LoadFacts DEF Begins, Commits
<1>5. ASSUME NEW b \in Bank
      PROVE  bank_state'[b] \in {"RESERVED", "LOADING"} <=> Queued(b)'
  <2>1. bank_state[b] \in {"RESERVED", "LOADING"} <=> Queued(b)
    BY DEF IInv, QueueAgrees
  <2>2. bank_state'[b] \in {"RESERVED", "LOADING"} <=>
          \/ Allocates(in, b)
          \/ bank_state[b] \in {"RESERVED", "LOADING"} /\ ~Commits(b)
    BY BankMoves
  <2> QED
    BY <2>1, <2>2, QueuedMoves
<1>6. ASSUME NEW k \in 1 .. Len(desc')
      PROVE  desc'[k].epoch = bank_epoch'[desc'[k].bank]
  <2>1. CASE desc'[k] \in allocated(in)
    BY <2>1, EpochMoves, EventFacts DEF Request
  <2>2. CASE desc'[k] \notin allocated(in)
    <3>1. /\ k + Dropped \in 1 .. Len(desc) /\ desc'[k] = desc[k + Dropped]
          /\ desc'[k].bank \in Bank /\ ~Allocates(in, desc'[k].bank)
      BY <2>2, EntryMoves
    <3>2. desc'[k].epoch = bank_epoch[desc'[k].bank]
      BY <3>1 DEF IInv, QueueAgrees
    <3> QED
      BY <3>1, <3>2, EpochMoves
  <2> QED
    BY <2>1, <2>2
<1>7. ASSUME Len(desc') = 2 PROVE desc'[1].bank # desc'[2].bank
  <2>1. 1 \in 1 .. Len(desc') /\ 2 \in 1 .. Len(desc')
    BY <1>7
  <2>2. Len(desc) \in 0 .. 2 /\ Dropped \in {0, 1}
    BY DescFacts DEF Dropped
  <2>3. /\ 1 <= Len(desc) - Dropped /\ ~Allocates(in, desc'[1].bank)
        /\ desc'[1] = desc[1 + Dropped]
    BY <1>7, <2>1, EntryMoves
  <2>4. CASE desc'[2] \in allocated(in)
    BY <2>3, <2>4 DEF Allocates
  <2>5. CASE desc'[2] \notin allocated(in)
    <3>1. 2 <= Len(desc) - Dropped /\ desc'[2] = desc[2 + Dropped]
      BY <2>1, <2>5, EntryMoves
    <3>2. Dropped = 0 /\ Len(desc) = 2
      BY <2>2, <3>1
    <3> QED
      BY <2>3, <3>1, <3>2 DEF IInv, QueueAgrees
  <2> QED
    BY <2>4, <2>5
<1> QED
  BY <1>1, <1>3, <1>4, <1>5, <1>6, <1>7 DEF QueueAgrees

-----------------------------------------------------------------------------
(* The words in the row FIFOs *)

Taken == IF row_fifo_rd_en THEN 1 ELSE 0
Written(in) == IF in.write THEN 1 ELSE 0
Finished(in) == IF in.write /\ column = COLS - 1 THEN 1 ELSE 0
Given(in) == IF credit_fire(in) THEN 1 ELSE 0

LEMMA WriterMoves ==
  ASSUME IInv, NEW in \in Inputs, WriterEdge(in)
  PROVE  /\ row_fifo' \in Seq(Words)
         /\ Len(row_fifo') = Len(row_fifo) - Taken + Written(in)
         /\ column' \in Column
         /\ column' = column + Written(in) - (IF Finished(in) = 1 THEN COLS ELSE 0)
         /\ tile' \in 0 .. TileMod - 1
         /\ complete' \in Nat
         /\ complete' = complete - Given(in) + Finished(in)
<1>1. /\ row_fifo \in Seq(Words) /\ column \in Column
      /\ tile \in 0 .. TileMod - 1 /\ complete \in Nat
  BY DEF IInv, TypeOK
<1>2. FifoLeft \in Seq(Words) /\ Len(FifoLeft) = Len(row_fifo) - Taken
  <2>1. CASE row_fifo_rd_en
    BY <1>1, <2>1, LoadFacts, HeadTailProperties DEF FifoLeft, Taken
  <2>2. CASE ~row_fifo_rd_en
    BY <1>1, <2>2, LenProperties DEF FifoLeft, Taken
  <2> QED
    BY <2>1, <2>2
<1>3. Word(tile, column) \in Words
  BY <1>1 DEF Word, Words
<1>4. /\ row_fifo' \in Seq(Words)
      /\ Len(row_fifo') = Len(row_fifo) - Taken + Written(in)
  <2>1. CASE in.write
    BY <1>2, <1>3, <2>1, AppendProperties DEF WriterEdge, Written
  <2>2. CASE ~in.write
    <3>1. Len(FifoLeft) \in Nat
      BY <1>2, LenProperties
    <3>2. row_fifo' = FifoLeft
      BY <2>2 DEF WriterEdge
    <3> QED
      BY <1>2, <2>2, <3>1, <3>2 DEF Written
  <2> QED
    BY <2>1, <2>2
<1>5. /\ column' \in Column
      /\ column' = column + Written(in) - (IF Finished(in) = 1 THEN COLS ELSE 0)
  BY <1>1, ColumnNext, ColsAssumption
  DEF WriterEdge, Written, Finished, Column
<1>6. tile' \in 0 .. TileMod - 1
  BY <1>1, TileNext, ColsAssumption, FifoAssumption DEF WriterEdge, Column
<1>7. Given(in) = 1 => complete # 0
  BY InputTypes DEF Given, credit_fire
<1>8. complete' = complete - Given(in) + Finished(in)
  BY DEF WriterEdge, Given, Finished
<1>9. complete' \in Nat
  BY <1>1, <1>7, <1>8 DEF Given, Finished
<1> QED
  BY <1>1, <1>4, <1>5, <1>6, <1>8, <1>9

LEMMA CreditMoves ==
  ASSUME IInv, NEW in \in Inputs, QueueEdge(in)
  PROVE  /\ credit_count_q' = credit_count_q + Given(in) - Dropped
         /\ credit_count_q' \in 0 .. 2
<1>1. credit_count_q \in 0 .. 2
  BY DEF IInv, TypeOK
<1>2. credit_count_q' = credit_count_q + Given(in) - Dropped
  BY DEF QueueEdge, Given, Dropped
<1>3. Dropped = 1 => credit_count_q # 0
  BY LoadFacts DEF Dropped
<1>4. Given(in) = 1 => credit_count_q < 2 \/ Dropped = 1
  BY DEF Given, credit_fire, weight_tile_credit_ready, Dropped
<1> QED
  BY <1>1, <1>2, <1>3, <1>4 DEF Given, Dropped

\* The columns a load has taken, and what it remembers of its last one.
LEMMA LoadMoves ==
  ASSUME IInv, LoadEdge, ReadEdge
  PROVE  /\ Issued' = Issued + Taken - (IF Dropped = 1 THEN COLS ELSE 0)
         /\ issue_col_q' \in Column
         /\ read_pending_q' => loading_q'
         /\ read_pending_q' /\ read_col_q' = COLS - 1 => reads_done_q'
<1>1. /\ issue_col_q \in Column /\ loading_q \in BOOLEAN
      /\ reads_done_q \in BOOLEAN
  BY DEF IInv, TypeOK
<1>2. loading_q' <=> (loading_q \/ begin_load) /\ ~preload_commit_event
  BY DEF LoadEdge
<1>3. reads_done_q' <=> /\ reads_done_q \/ (row_fifo_rd_en /\ issue_col_q = COLS - 1)
                        /\ ~begin_load /\ ~preload_commit_event
  BY DEF LoadEdge
<1>4. issue_col_q' \in Column
  BY <1>1, ColsAssumption DEF LoadEdge, IssueColNext, Column
<1>5. read_pending_q' <=> row_fifo_rd_en
  BY DEF ReadEdge
<1>6. row_fifo_rd_en => read_col_q' = issue_col_q
  BY DEF ReadEdge
<1>7. Issued' = Issued + Taken - (IF Dropped = 1 THEN COLS ELSE 0)
  <2>1. CASE preload_commit_event
    <3>1. Issued = COLS /\ Taken = 0 /\ Dropped = 1
      BY <2>1, LoadFacts DEF Issued, Taken, Dropped
    <3>2. Issued' = 0
      BY <1>2, <2>1 DEF Issued
    <3> QED
      BY <3>1, <3>2, ColsAssumption
  <2>2. CASE begin_load
    <3>1. Issued = 0 /\ Taken = 0 /\ Dropped = 0
      BY <2>2, LoadFacts DEF Issued, Taken, Dropped
    <3>2. Issued' = 0
      BY <1>2, <1>3, <2>2 DEF Issued, LoadEdge, IssueColNext
    <3> QED
      BY <3>1, <3>2
  <2>3. CASE row_fifo_rd_en
    <3>1. Issued = issue_col_q /\ Taken = 1 /\ Dropped = 0 /\ loading_q'
      BY <1>2, <2>3, LoadFacts DEF Issued, Taken, Dropped
    <3>2. CASE issue_col_q = COLS - 1
      BY <1>3, <2>3, <3>1, <3>2, LoadFacts, ColsAssumption DEF Issued
    <3>3. CASE issue_col_q # COLS - 1
      <4>1. issue_col_q' = issue_col_q + 1
        BY <2>3, <3>3, LoadFacts DEF LoadEdge, IssueColNext
      <4>2. ~reads_done_q'
        BY <1>3, <2>3, <3>3, LoadFacts
      <4> QED
        BY <1>1, <3>1, <4>1, <4>2 DEF Issued, Column
    <3> QED
      BY <3>2, <3>3
  <2>4. CASE ~preload_commit_event /\ ~begin_load /\ ~row_fifo_rd_en
    <3>1. Issued' = Issued /\ Taken = 0 /\ Dropped = 0
      BY <1>2, <1>3, <2>4 DEF Issued, Taken, Dropped, LoadEdge, IssueColNext
    <3>2. Issued \in Nat
      BY <1>1, ColsAssumption DEF Issued, Column
    <3> QED
      BY <3>1, <3>2
  <2> QED
    BY <2>1, <2>2, <2>3, <2>4
<1>8. read_pending_q' => loading_q'
  BY <1>2, <1>5, LoadFacts
<1>9. read_pending_q' /\ read_col_q' = COLS - 1 => reads_done_q'
  BY <1>3, <1>5, <1>6, LoadFacts
<1> QED
  BY <1>4, <1>7, <1>8, <1>9

\* Taking a word moves it from the FIFOs to the load, storing the last column
\* takes a whole tile off both sides, finishing a tile adds one to the promised.
LEMMA FifoStep ==
  ASSUME IInv, NEW in \in Inputs, Edge(in)
  PROVE  FifoCounted'
<1> USE DEF Edge, PreloadEdge
<1> DEFINE n == credit_count_q + complete
<1>1. /\ n \in Nat /\ column \in Column
      /\ Len(row_fifo) + Issued = COLS * n + column
  BY DEF IInv, TypeOK, FifoCounted
<1>2. Len(row_fifo) \in Nat /\ Issued \in Nat
  BY LenProperties, ColsAssumption DEF IInv, TypeOK, Issued, Column
<1>3. /\ Len(row_fifo') = Len(row_fifo) - Taken + Written(in)
      /\ Issued' = Issued + Taken - (IF Dropped = 1 THEN COLS ELSE 0)
      /\ column' = column + Written(in) - (IF Finished(in) = 1 THEN COLS ELSE 0)
  BY WriterMoves, LoadMoves
<1>4. credit_count_q' + complete' = n + Finished(in) - Dropped
  <2>1. /\ complete' = complete - Given(in) + Finished(in)
        /\ credit_count_q' = credit_count_q + Given(in) - Dropped
    BY WriterMoves, CreditMoves
  <2>2. /\ complete \in Nat /\ credit_count_q \in Nat /\ Given(in) \in {0, 1}
        /\ Finished(in) \in {0, 1} /\ Dropped \in {0, 1}
    BY DEF IInv, TypeOK, Given, Finished, Dropped
  <2> QED
    BY <2>1, <2>2
<1>5. COLS * (n + Finished(in) - Dropped) =
        COLS * n + (IF Finished(in) = 1 THEN COLS ELSE 0)
                 - (IF Dropped = 1 THEN COLS ELSE 0)
  <2>1. /\ COLS * (n + 1) = COLS * n + COLS /\ COLS * (n - 1) = COLS * n - COLS
        /\ COLS * n \in Int
    BY <1>1, Times, ColsAssumption
  <2>2. /\ n + 1 - 0 = n + 1 /\ n + 1 - 1 = n
        /\ n + 0 - 0 = n /\ n + 0 - 1 = n - 1
    BY <1>1
  <2>3. Finished(in) \in {0, 1} /\ Dropped \in {0, 1}
    BY DEF Finished, Dropped
  <2> HIDE DEF n
  <2> QED
    BY <2>1, <2>2, <2>3, ColsAssumption
<1>6. /\ Len(row_fifo') + Issued' = COLS * (credit_count_q' + complete') + column'
  <2> DEFINE d == IF Dropped = 1 THEN COLS ELSE 0
             f == IF Finished(in) = 1 THEN COLS ELSE 0
             p == COLS * n
  <2>1. /\ Taken \in Nat /\ Written(in) \in Nat /\ column \in Nat
        /\ p \in Nat /\ d \in Nat /\ f \in Nat
    BY <1>1, ColsAssumption DEF Taken, Written, Column
  <2>2. COLS * (credit_count_q' + complete') = p + f - d
    BY <1>4, <1>5
  <2>3. Len(row_fifo) + Issued = p + column
    BY <1>1
  <2>4. /\ Len(row_fifo') = Len(row_fifo) - Taken + Written(in)
        /\ Issued' = Issued + Taken - d /\ column' = column + Written(in) - f
    BY <1>3
  <2> HIDE DEF n, d, f, p
  <2>5. (Len(row_fifo) - Taken + Written(in)) + (Issued + Taken - d)
          = (p + f - d) + (column + Written(in) - f)
    BY <1>2, <2>1, <2>3
  <2> QED
    BY <2>2, <2>4, <2>5
<1> QED
  BY <1>6, LoadMoves DEF FifoCounted

\* A load that has its credit finds its bank reserved and its words there.
LEMMA LoadsStep ==
  ASSUME IInv, NEW in \in Inputs, Edge(in)
  PROVE  LoadsFindTheirs'
<1>1. ~descriptor_protocol_error
  <2> SUFFICES ASSUME have_load_pair PROVE head_descriptor_match
    BY DEF descriptor_protocol_error
  <2>1. ~loading_q /\ desc # <<>>
    BY DEF have_load_pair
  <2>2. /\ 1 \in 1 .. Len(desc) /\ Head(desc) = desc[1]
        /\ Head(desc).bank \in Bank
    BY <2>1, DescFacts DEF Request
  <2>3. Queued(Head(desc).bank)
    BY <2>2 DEF Queued
  <2>4. bank_state[Head(desc).bank] = "RESERVED"
    BY <2>1, <2>2, <2>3 DEF IInv, QueueAgrees
  <2>5. /\ bank_epoch_valid[Head(desc).bank]
        /\ bank_epoch[Head(desc).bank] = Head(desc).epoch
    BY <2>2, <2>4 DEF IInv, QueueAgrees
  <2> QED
    BY <2>4, <2>5 DEF head_descriptor_match
<1>2. ~row_protocol_error
  <2> SUFFICES ASSUME have_load_pair \/ (loading_q /\ ~reads_done_q)
               PROVE  all_rows_nonempty
    BY DEF row_protocol_error
  <2> DEFINE n == credit_count_q + complete
  <2>1. credit_count_q # 0
    BY DEF have_load_pair, IInv, QueueAgrees
  <2>2. /\ n \in Nat \ {0} /\ column \in Nat
        /\ Len(row_fifo) + Issued = COLS * n + column
    BY <2>1 DEF IInv, TypeOK, FifoCounted, Column
  <2> HIDE DEF n
  <2>3. COLS * n >= COLS /\ COLS * n \in Nat
    BY <2>2, TimesPositive, ColsAssumption
  <2>4. Issued \in Nat /\ Issued < COLS
    BY ColsAssumption DEF IInv, TypeOK, Issued, Column, have_load_pair
  <2>5. row_fifo \in Seq(Words) /\ Len(row_fifo) \in Nat
    BY LenProperties DEF IInv, TypeOK
  <2>6. Len(row_fifo) # 0
    BY <2>2, <2>3, <2>4, <2>5, ColsAssumption
  <2> QED
    BY <2>5, <2>6, EmptySeq DEF all_rows_nonempty
<1>3. ~sticky_protocol_error_q
  BY DEF IInv, LoadsFindTheirs
<1> QED
  BY <1>1, <1>2, <1>3 DEF Edge, PreloadEdge, ErrorEdge, LoadsFindTheirs

\* A bank gets an epoch that the other bank, if in use, does not have.
LEMMA EpochStep ==
  ASSUME IInv, NEW in \in Inputs, Edge(in)
  PROVE  EpochsDiffer'
<1> USE DEF Edge, PreloadEdge
<1>1. ASSUME NEW b \in Bank, Allocates(in, b), bank_epoch_valid'[1 - b]
      PROVE  bank_epoch'[b] # bank_epoch'[1 - b]
  <2>1. PICK r \in allocated(in) : r.bank = b
    BY <1>1 DEF Allocates
  <2>2. 1 - b \in Bank /\ 1 - b # b
    BY DEF Bank
  <2>3. ~Allocates(in, 1 - b)
    BY <2>1, <2>2, EventFacts DEF Allocates, AtMostOne
  <2>4. bank_epoch_valid[1 - b] /\ bank_epoch'[1 - b] = bank_epoch[1 - b]
    BY <1>1, <2>2, <2>3, EpochMoves
  <2>5. ~alloc_epoch_conflict(r)
    BY EventFacts
  <2> QED
    BY <2>1, <2>4, <2>5, EpochMoves DEF alloc_epoch_conflict
<1>2. ASSUME bank_epoch_valid'[0], bank_epoch_valid'[1]
      PROVE  bank_epoch'[0] # bank_epoch'[1]
  <2>1. 0 \in Bank /\ 1 \in Bank /\ 1 - 0 = 1 /\ 1 - 1 = 0
    BY DEF Bank
  <2>2. CASE Allocates(in, 0)
    BY <1>1, <1>2, <2>1, <2>2
  <2>3. CASE Allocates(in, 1)
    BY <1>1, <1>2, <2>1, <2>3
  <2>4. CASE ~Allocates(in, 0) /\ ~Allocates(in, 1)
    BY <1>2, <2>1, <2>4, EpochMoves DEF IInv, EpochsDiffer
  <2> QED
    BY <2>2, <2>3, <2>4
<1> QED
  BY <1>2 DEF EpochsDiffer

LEMMA TypeStep ==
  ASSUME IInv, NEW in \in Inputs, Edge(in)
  PROVE  TypeOK'
<1> USE DEF Edge, PreloadEdge
<1>1. /\ bank_state' \in [Bank -> BankStates]
      /\ bank_epoch' \in [Bank -> Epoch]
      /\ bank_epoch_valid' \in [Bank -> BOOLEAN]
  BY BankTypes
<1>2. desc' \in Seq(Request) /\ Len(desc') <= 2 /\ credit_count_q' \in 0 .. 2
  BY DescMoves, DescLength, CreditMoves
<1>3. /\ loading_q' \in BOOLEAN /\ reads_done_q' \in BOOLEAN
      /\ issue_col_q' \in Column
  BY LoadMoves DEF LoadEdge
<1>4. loading_bank_q' \in Bank
  BY LoadFacts DEF LoadEdge, IInv, TypeOK
<1>5. read_bank_q' \in Bank /\ read_col_q' \in Column
  BY DEF ReadEdge, IInv, TypeOK
<1>6. read_pending_q' \in BOOLEAN
  BY DEF ReadEdge, row_fifo_rd_en
<1>7. /\ sticky_protocol_error_q' \in BOOLEAN
      /\ sticky_owner_error_q' \in BOOLEAN
      /\ sticky_epoch_error_q' \in BOOLEAN
  BY DEF ErrorEdge
<1>8. /\ row_fifo' \in Seq(Words) /\ column' \in Column
      /\ tile' \in 0 .. TileMod - 1 /\ complete' \in Nat
  BY WriterMoves
<1> QED
  BY <1>1, <1>2, <1>3, <1>4, <1>5, <1>6, <1>7, <1>8 DEF TypeOK

LEMMA EdgeInv ==
  ASSUME IInv, NEW in \in Inputs, Edge(in)
  PROVE  IInv'
  BY TypeStep, QueueStep, FifoStep, LoadsStep, EpochStep DEF IInv

LEMMA StutterInv == IInv /\ UNCHANGED vars => IInv'
<1> SUFFICES ASSUME IInv, UNCHANGED vars PROVE IInv'
  OBVIOUS
<1> USE DEF vars, preloadVars, bankVars, queueVars, loadVars, readVars, errorVars,
            writerVars, historyVars
<1>1. TypeOK'
  BY DEF IInv, TypeOK
<1>2. QueueAgrees'
  BY DEF IInv, QueueAgrees, Queued
<1>3. FifoCounted'
  BY DEF IInv, FifoCounted, Issued
<1>4. LoadsFindTheirs' /\ EpochsDiffer'
  BY DEF IInv, LoadsFindTheirs, EpochsDiffer
<1> QED
  BY <1>1, <1>2, <1>3, <1>4 DEF IInv

-----------------------------------------------------------------------------
(* The theorems *)

\* Whatever is requested of the loader: the states of its banks agree with its
\* queue, the row FIFOs hold the words that were promised, and the rest of IInv.
THEOREM LoaderCorrect == Spec => []IInv
<1>1. IInv /\ [Next]_vars => IInv'
  BY EdgeInv, ResetInv, StutterInv DEF Next
<1> QED
  BY InitInv, <1>1, PTL DEF Spec

\* A loader whose credits are kept never finds its bank taken or its row FIFOs
\* empty (sticky_protocol_error_q).
THEOREM NoProtocolError == Spec => []LoadsFindTheirs
<1>1. IInv => LoadsFindTheirs
  BY DEF IInv
<1> QED
  BY LoaderCorrect, <1>1, PTL

\* The two banks in use can always be told apart by their epochs.
THEOREM EpochsApart == Spec => []EpochsDiffer
<1>1. IInv => EpochsDiffer
  BY DEF IInv
<1> QED
  BY LoaderCorrect, <1>1, PTL

LEMMA FrozenStep ==
  ASSUME IInv, any_error, NEW in \in Inputs, Edge(in)
  PROVE  /\ UNCHANGED <<array, desc, credit_count_q>>
         /\ \A b \in Bank : bank_state'[b] # bank_state[b] =>
              bank_state[b] = "RETIRING" /\ bank_state'[b] = "EMPTY"
<1> USE DEF Edge, PreloadEdge
<1>1. /\ allocated(in) = {} /\ started(in) = {} /\ retired(in) = {}
      /\ ~begin_load /\ ~preload_commit_event /\ ~credit_fire(in) /\ ~array_w_load
  BY DEF allocated, alloc_ready, alloc_base_ready, started, start_ready, retired,
         retire_match, begin_load, preload_commit_event, array_w_load, credit_fire,
         weight_tile_credit_ready
<1>2. array' = array
  BY <1>1 DEF ReadEdge
<1>3. desc' = desc /\ credit_count_q' = credit_count_q
  BY <1>1 DEF QueueEdge, IInv, TypeOK
<1>4. ASSUME NEW b \in Bank
      PROVE  bank_state'[b] = IF bank_state[b] = "RETIRING" THEN "EMPTY"
                              ELSE bank_state[b]
  BY <1>1, BankMoves DEF Allocates, Starts, Retires, Begins, Commits
<1> QED
  BY <1>2, <1>3, <1>4

\* After an error of any kind nothing is given out, loaded, started or written
\* until a reset.
THEOREM ErrorsFreeze == Spec => FailsClosed
<1> DEFINE Frozen ==
      any_error /\ any_error' =>
        /\ UNCHANGED <<array, desc, credit_count_q>>
        /\ \A b \in Bank : bank_state'[b] # bank_state[b] =>
             bank_state[b] = "RETIRING" /\ bank_state'[b] = "EMPTY"
<1>1. IInv /\ [Next]_vars => [Frozen]_vars
  <2>1. ASSUME IInv, NEW in \in Inputs, Edge(in) PROVE Frozen
    BY <2>1, FrozenStep
  <2>2. ASSUME Reset PROVE Frozen
    BY <2>2 DEF Reset, any_error
  <2> QED
    BY <2>1, <2>2 DEF Next
<1>2. FailsClosed <=> [][Frozen]_vars
  BY DEF FailsClosed
<1> QED
  BY LoaderCorrect, <1>1, <1>2, PTL DEF Spec
-----------------------------------------------------------------------------
(* Every context gets its own tile *)

Following(w) ==
  IF w.col = COLS - 1 THEN Word((w.tile + 1) % TileMod, 0) ELSE Word(w.tile, w.col + 1)

\* The words that are read next, and at the end the one that is written next.
Pending == Append(row_fifo, Word(tile, column))

TilesTyped ==
  /\ array \in [Bank -> [Column -> Words \cup {NoData}]]
  /\ row_fifo_rd_data \in Words \cup {NoData}
  /\ bank_tile \in [Bank -> 0 .. TileMod - 1] /\ allocations \in 0 .. TileMod - 1

InTileOrder == \A i \in 1 .. Len(row_fifo) : Pending[i + 1] = Following(Pending[i])

\* The tile of the first context in the queue, or of the next one admitted.
Expected == IF desc = <<>> THEN allocations ELSE bank_tile[desc[1].bank]

Later(t) == (t + 1) % TileMod

Upcoming ==
  IF ~loading_q THEN Word(Expected, 0)
  ELSE IF reads_done_q THEN Word(Later(Expected), 0) ELSE Word(Expected, issue_col_q)

\* The contexts in the queue wait for consecutive tiles.
Waits ==
  /\ Len(desc) = 1 => allocations = Later(Expected)
  /\ Len(desc) = 2 => /\ bank_tile[desc[2].bank] = Later(Expected)
                      /\ allocations = Later(Later(Expected))

\* The next word is of the tile that the queue's head is waiting for.
Promised == Pending[1] = Upcoming /\ Waits

\* The columns of the running load that are in the array; one word may be on its
\* way there.  An error loses that word, and with it the load.
Stored == IF read_pending_q THEN Issued - 1 ELSE Issued

Loaded ==
  loading_q /\ ~any_error =>
    /\ \A c \in Column : c < Stored => array[loading_bank_q][c] = Word(Expected, c)
    /\ read_pending_q =>
         /\ Issued > 0 /\ read_bank_q = loading_bank_q /\ read_col_q = Issued - 1
         /\ row_fifo_rd_data = Word(Expected, read_col_q)

TileInv == TilesTyped /\ InTileOrder /\ Promised /\ Loaded /\ WeightsComplete

\* Tiles and words stay in their ranges.
LEMMA WordTypes ==
  ASSUME NEW t \in 0 .. TileMod - 1, NEW c \in Column
  PROVE  /\ Later(t) \in 0 .. TileMod - 1 /\ Word(t, c) \in Words /\ 0 \in Column
         /\ Following(Word(t, c)) = IF c = COLS - 1 THEN Word(Later(t), 0)
                                    ELSE Word(t, c + 1)
<1>1. Later(t) \in 0 .. TileMod - 1
  BY FifoAssumption DEF Later
<1>2. 0 \in Column
  BY ColsAssumption DEF Column
<1> QED
  BY <1>1, <1>2 DEF Word, Words, Following, Later

LEMMA PendingFacts ==
  ASSUME IInv
  PROVE  /\ Len(row_fifo) \in Nat
         /\ \A i \in 1 .. Len(row_fifo) : Pending[i] = row_fifo[i]
         /\ Pending[Len(row_fifo) + 1] = Word(tile, column)
<1>1. row_fifo \in Seq(Words) /\ Word(tile, column) \in Words
  BY WordTypes DEF IInv, TypeOK
<1> QED
  BY <1>1, AppendProperties, LenProperties DEF Pending

\* An edge takes the first word, appends one, or both.
LEMMA PendingMoves ==
  ASSUME IInv, NEW in \in Inputs, WriterEdge(in)
  PROVE  /\ Len(row_fifo') \in Nat /\ Len(row_fifo') = Len(row_fifo) - Taken + Written(in)
         /\ Taken <= Len(row_fifo)
         /\ \A i \in 1 .. Len(row_fifo') + 1 :
              Pending'[i] = IF i + Taken <= Len(row_fifo) + 1 THEN Pending[i + Taken]
                            ELSE Following(Word(tile, column))
<1>1. /\ row_fifo \in Seq(Words) /\ column \in Column /\ tile \in 0 .. TileMod - 1
      /\ Word(tile, column) \in Words /\ Len(row_fifo) \in Nat
  BY WordTypes, LenProperties DEF IInv, TypeOK
<1>2. /\ FifoLeft \in Seq(Words) /\ Len(FifoLeft) = Len(row_fifo) - Taken
      /\ Len(FifoLeft) \in Nat /\ Taken \in {0, 1}
      /\ \A i \in 1 .. Len(FifoLeft) : FifoLeft[i] = row_fifo[i + Taken]
  <2>1. CASE row_fifo_rd_en
    BY <1>1, <2>1, LoadFacts, HeadTailProperties, LenProperties DEF FifoLeft, Taken
  <2>2. CASE ~row_fifo_rd_en
    BY <1>1, <2>2, LenProperties DEF FifoLeft, Taken
  <2> QED
    BY <2>1, <2>2
<1>3. \A i \in 1 .. Len(FifoLeft) : FifoLeft[i] = Pending[i + Taken]
  <2>1. \A i \in 1 .. Len(FifoLeft) : i + Taken \in 1 .. Len(row_fifo)
    BY <1>1, <1>2
  <2> QED
    BY <1>2, <2>1, PendingFacts
<1>4. Pending[Len(FifoLeft) + 1 + Taken] = Word(tile, column)
  BY <1>1, <1>2, PendingFacts
<1>5. row_fifo' \in Seq(Words) /\ Word(tile', column') \in Words
  BY WriterMoves, WordTypes
<1>6. CASE in.write
  <2>1. Word(tile', column') = Following(Word(tile, column))
    <3>1. column' = IF column = COLS - 1 THEN 0 ELSE column + 1
      BY <1>1, <1>6, ColumnNext DEF WriterEdge
    <3>2. tile' = IF column = COLS - 1 THEN Later(tile) ELSE tile
      BY <1>6 DEF WriterEdge, Later
    <3> QED
      BY <1>1, <3>1, <3>2, WordTypes
  <2>2. row_fifo' = Append(FifoLeft, Word(tile, column))
    BY <1>6 DEF WriterEdge
  <2>3. /\ Len(row_fifo') = Len(FifoLeft) + 1
        /\ \A i \in 1 .. Len(FifoLeft) : row_fifo'[i] = FifoLeft[i]
        /\ row_fifo'[Len(FifoLeft) + 1] = Word(tile, column)
    BY <1>1, <1>2, <2>2, AppendProperties
  <2>4. /\ \A i \in 1 .. Len(row_fifo') : Pending'[i] = row_fifo'[i]
        /\ Pending'[Len(row_fifo') + 1] = Following(Word(tile, column))
    BY <1>5, <2>1, AppendProperties DEF Pending
  <2>5. Written(in) = 1
    BY <1>6 DEF Written
  <2>6. ASSUME NEW i \in 1 .. Len(row_fifo') + 1
        PROVE  Pending'[i] = IF i + Taken <= Len(row_fifo) + 1 THEN Pending[i + Taken]
                             ELSE Following(Word(tile, column))
    <3>1. CASE i <= Len(FifoLeft)
      BY <1>1, <1>2, <1>3, <2>3, <2>4, <3>1
    <3>2. CASE i = Len(FifoLeft) + 1
      BY <1>1, <1>2, <1>4, <2>3, <2>4, <3>2
    <3>3. CASE i = Len(FifoLeft) + 2
      BY <1>1, <1>2, <2>3, <2>4, <3>3
    <3> QED
      BY <1>2, <2>3, <3>1, <3>2, <3>3
  <2> QED
    BY <1>1, <1>2, <2>3, <2>5, <2>6
<1>7. CASE ~in.write
  <2>1. row_fifo' = FifoLeft /\ Word(tile', column') = Word(tile, column) /\ Written(in) = 0
    BY <1>7 DEF WriterEdge, Written
  <2>2. /\ \A i \in 1 .. Len(FifoLeft) : Pending'[i] = FifoLeft[i]
        /\ Pending'[Len(FifoLeft) + 1] = Word(tile, column)
    BY <1>5, <2>1, AppendProperties DEF Pending
  <2>3. ASSUME NEW i \in 1 .. Len(row_fifo') + 1
        PROVE  Pending'[i] = IF i + Taken <= Len(row_fifo) + 1 THEN Pending[i + Taken]
                             ELSE Following(Word(tile, column))
    <3>1. CASE i <= Len(FifoLeft)
      <4>1. i \in 1 .. Len(FifoLeft) /\ i + Taken <= Len(row_fifo) + 1
        BY <1>1, <1>2, <2>1, <3>1
      <4> QED
        BY <1>3, <2>2, <4>1
    <3>2. CASE i = Len(FifoLeft) + 1
      BY <1>1, <1>2, <1>4, <2>1, <2>2, <3>2
    <3> QED
      BY <1>2, <2>1, <3>1, <3>2
  <2> QED
    BY <1>1, <1>2, <2>1, <2>3
<1> QED
  BY <1>6, <1>7

LEMMA OrderStep ==
  ASSUME IInv, InTileOrder, NEW in \in Inputs, WriterEdge(in)
  PROVE  /\ InTileOrder'
         /\ Pending'[1] = IF row_fifo_rd_en THEN Following(Pending[1]) ELSE Pending[1]
<1>1. /\ Len(row_fifo) \in Nat /\ Len(row_fifo') \in Nat /\ Taken \in {0, 1}
      /\ Len(row_fifo') = Len(row_fifo) - Taken + Written(in) /\ Written(in) \in {0, 1}
      /\ Taken <= Len(row_fifo)
  BY PendingFacts, PendingMoves DEF Taken, Written
<1>2. ASSUME NEW i \in 1 .. Len(row_fifo') PROVE Pending'[i + 1] = Following(Pending'[i])
  <2>1. i \in 1 .. Len(row_fifo') + 1 /\ i + 1 \in 1 .. Len(row_fifo') + 1
    BY <1>1
  <2>2. CASE i + 1 + Taken <= Len(row_fifo) + 1
    <3>1. i + Taken \in 1 .. Len(row_fifo) /\ i + Taken + 1 = i + 1 + Taken
            /\ i + Taken <= Len(row_fifo) + 1
      BY <1>1, <2>2
    <3> QED
      BY <2>1, <2>2, <3>1, PendingMoves DEF InTileOrder
  <2>3. CASE ~(i + 1 + Taken <= Len(row_fifo) + 1)
    <3>1. i + Taken = Len(row_fifo) + 1
      BY <1>1, <2>3
    <3>2. Pending'[i] = Word(tile, column)
      <4>1. Pending'[i] = Pending[i + Taken]
        BY <1>1, <2>1, <3>1, PendingMoves
      <4> QED
        BY <3>1, <4>1, PendingFacts
    <3>3. Pending'[i + 1] = Following(Word(tile, column))
      BY <2>1, <2>3, PendingMoves
    <3> QED
      BY <3>2, <3>3
  <2> QED
    BY <2>2, <2>3
<1>3. Pending'[1] = Pending[1 + Taken]
  <2>1. 1 \in 1 .. Len(row_fifo') + 1 /\ 1 + Taken <= Len(row_fifo) + 1
    BY <1>1
  <2> QED
    BY <2>1, PendingMoves
<1>4. row_fifo_rd_en => Pending[2] = Following(Pending[1])
  <2>1. row_fifo_rd_en => 1 \in 1 .. Len(row_fifo)
    BY <1>1 DEF Taken
  <2> QED
    BY <2>1 DEF InTileOrder
<1>5. InTileOrder'
  BY <1>2 DEF InTileOrder
<1> QED
  BY <1>3, <1>4, <1>5 DEF Taken

\* The tiles that banks wait for change only when they are allocated.
LEMMA TileMoves ==
  ASSUME IInv, TilesTyped, NEW in \in Inputs, HistoryEdge(in)
  PROVE  /\ bank_tile' \in [Bank -> 0 .. TileMod - 1] /\ allocations' \in 0 .. TileMod - 1
         /\ allocations' = IF allocated(in) = {} THEN allocations ELSE Later(allocations)
         /\ \A b \in Bank : bank_tile'[b] = IF Allocates(in, b) THEN allocations
                                            ELSE bank_tile[b]
<1>1. bank_tile \in [Bank -> 0 .. TileMod - 1] /\ allocations \in 0 .. TileMod - 1
  BY DEF TilesTyped
<1>2. Later(allocations) \in 0 .. TileMod - 1
  BY <1>1, FifoAssumption DEF Later
<1>3. CASE allocated(in) = {}
  BY <1>1, <1>3 DEF HistoryEdge, historyVars, Allocates
<1>4. CASE allocated(in) # {}
  <2>1. allocations' = Later(allocations)
    BY <1>4 DEF HistoryEdge, Later
  <2>2. PICK r \in allocated(in) : bank_tile' = [bank_tile EXCEPT ![r.bank] = allocations]
    BY <1>4 DEF HistoryEdge
  <2>3. r.bank \in Bank /\ \A b \in Bank : Allocates(in, b) <=> r.bank = b
    BY <2>2, EventFacts DEF Allocates, AtMostOne, Request
  <2>4. bank_tile' \in [Bank -> 0 .. TileMod - 1]
    BY <1>1, <2>2, <2>3
  <2>5. \A b \in Bank : bank_tile'[b] = IF Allocates(in, b) THEN allocations
                                        ELSE bank_tile[b]
    BY <1>1, <2>2, <2>3
  <2> QED
    BY <1>2, <1>4, <2>1, <2>4, <2>5
<1> QED
  BY <1>3, <1>4

\* They still do after contexts are admitted and loaded.
LEMMA WaitsStep ==
  ASSUME IInv, TilesTyped, Waits, NEW in \in Inputs, QueueEdge(in), HistoryEdge(in)
  PROVE  Waits' /\ Expected' = IF preload_commit_event THEN Later(Expected) ELSE Expected
<1>1. /\ Len(desc) \in 0 .. 2 /\ desc' \in Seq(Request) /\ Dropped \in {0, 1}
      /\ Dropped = 1 => Len(desc) # 0
      /\ desc = <<>> <=> Len(desc) = 0
      /\ desc' = <<>> <=> Len(desc') = 0
  BY DescFacts, DescMoves, LoadFacts, EmptySeq DEF Dropped
<1>2. \A k \in 1 .. Len(desc) : desc[k].bank \in Bank /\ ~Allocates(in, desc[k].bank)
  <2> SUFFICES ASSUME NEW k \in 1 .. Len(desc)
               PROVE  desc[k].bank \in Bank /\ ~Allocates(in, desc[k].bank)
    OBVIOUS
  <2>1. desc[k].bank \in Bank /\ Queued(desc[k].bank)
    BY DescFacts DEF Request, Queued
  <2>2. bank_state[desc[k].bank] # "EMPTY"
    BY <2>1 DEF IInv, QueueAgrees
  <2> QED
    BY <2>1, <2>2, EventFacts DEF Allocates
<1>3. \A k \in 1 .. Len(desc) : bank_tile'[desc[k].bank] = bank_tile[desc[k].bank]
  BY <1>2, TileMoves
<1>4. CASE allocated(in) = {}
  <2>1. /\ Len(desc') = Len(desc) - Dropped /\ allocations' = allocations
        /\ \A k \in 1 .. Len(desc) - Dropped : desc'[k] = desc[k + Dropped]
    BY <1>4, DescMoves, TileMoves
  <2>2. CASE Dropped = 0
    <3>1. Len(desc') = Len(desc) /\ \A k \in 1 .. Len(desc) : desc'[k] = desc[k]
      BY <1>1, <2>1, <2>2
    <3>2. Expected' = Expected
      BY <1>1, <1>3, <2>1, <3>1 DEF Expected
    <3>3. Len(desc) = 2 => bank_tile'[desc'[2].bank] = bank_tile[desc[2].bank]
      BY <1>3, <3>1
    <3> QED
      BY <2>1, <2>2, <3>1, <3>2, <3>3 DEF Waits, Dropped
  <2>3. CASE Dropped = 1
    <3>1. CASE Len(desc) = 1
      BY <1>1, <2>1, <2>3, <3>1 DEF Waits, Expected, Dropped
    <3>2. CASE Len(desc) = 2
      <4>1. Len(desc') = 1 /\ desc'[1] = desc[2]
        BY <2>1, <2>3, <3>2
      <4>2. Expected' = Later(Expected)
        <5>1. Expected' = bank_tile'[desc'[1].bank]
          BY <1>1, <4>1 DEF Expected
        <5> QED
          BY <1>3, <3>2, <4>1, <5>1 DEF Waits
      <4> QED
        BY <2>1, <2>3, <3>2, <4>1, <4>2 DEF Waits, Dropped
    <3> QED
      BY <1>1, <2>3, <3>1, <3>2
  <2> QED
    BY <1>1, <2>2, <2>3
<1>5. CASE allocated(in) # {}
  <2>1. PICK r \in allocated(in) :
          Len(desc') = Len(desc) - Dropped + 1 /\ desc'[Len(desc')] = r
    BY <1>5, DescMoves
  <2>2. /\ allocations' = Later(allocations) /\ bank_tile'[r.bank] = allocations
        /\ Len(desc) \in {0, 1}
    <3>1. r.bank \in Bank /\ Allocates(in, r.bank) /\ Len(desc) < 2
      BY EventFacts DEF Allocates, Request
    <3>2. allocations' = Later(allocations)
      BY <1>5, TileMoves
    <3>3. bank_tile'[r.bank] = allocations
      BY <3>1, TileMoves
    <3>4. Len(desc) \in {0, 1}
      BY <1>1, <3>1
    <3> QED
      BY <3>2, <3>3, <3>4
  <2>3. CASE Len(desc) - Dropped = 0
    <3>1. Len(desc') = 1 /\ desc'[1] = r
      BY <1>1, <2>1, <2>3
    <3>2. Expected' = allocations
      BY <1>1, <2>2, <3>1 DEF Expected
    <3>3. allocations = IF preload_commit_event THEN Later(Expected) ELSE Expected
      BY <1>1, <2>2, <2>3 DEF Waits, Expected, Dropped
    <3> QED
      BY <2>2, <3>1, <3>2, <3>3 DEF Waits
  <2>4. CASE Len(desc) = 1 /\ Dropped = 0
    <3>1. Len(desc') = 2 /\ desc'[2] = r
      BY <2>1, <2>4
    <3>2. desc'[1] = desc[1]
      BY <2>4, DescMoves
    <3>3. Expected' = Expected
      BY <1>1, <1>3, <2>4, <3>1, <3>2 DEF Expected
    <3> QED
      BY <2>2, <2>4, <3>1, <3>3 DEF Waits, Dropped
  <2>5. Len(desc) - Dropped = 0 \/ (Len(desc) = 1 /\ Dropped = 0)
    <3>1. CASE Len(desc) = 0
      BY <1>1, <3>1
    <3>2. CASE Len(desc) = 1
      BY <1>1, <3>2
    <3> QED
      BY <2>2, <3>1, <3>2
  <2> QED
    BY <2>3, <2>4, <2>5
<1> QED
  BY <1>4, <1>5

LEMMA ExpectedType ==
  ASSUME IInv, TilesTyped
  PROVE  Expected \in 0 .. TileMod - 1
<1>1. desc # <<>> => desc[1].bank \in Bank
  BY DescFacts DEF Request
<1> QED
  BY <1>1 DEF TilesTyped, Expected

\* Reads take the columns of the tile in order, and the next tile's come after.
LEMMA UpcomingStep ==
  ASSUME IInv, TilesTyped, InTileOrder, Promised, NEW in \in Inputs, Edge(in)
  PROVE  Pending'[1] = Upcoming'
<1> USE DEF Edge, PreloadEdge
<1>1. Pending'[1] = IF row_fifo_rd_en THEN Following(Upcoming) ELSE Upcoming
  BY OrderStep DEF Promised
<1>2. Expected' = IF preload_commit_event THEN Later(Expected) ELSE Expected
  BY WaitsStep DEF Promised
<1>3. /\ loading_q' <=> (loading_q \/ begin_load) /\ ~preload_commit_event
      /\ reads_done_q' <=> /\ reads_done_q \/ (row_fifo_rd_en /\ issue_col_q = COLS - 1)
                           /\ ~begin_load /\ ~preload_commit_event
      /\ issue_col_q' = IssueColNext
  BY DEF LoadEdge
<1>4. CASE preload_commit_event
  <2>1. ~row_fifo_rd_en /\ Upcoming = Word(Later(Expected), 0)
    BY <1>4, LoadFacts DEF Upcoming
  <2>2. Upcoming' = Word(Expected', 0)
    BY <1>3, <1>4 DEF Upcoming
  <2> QED
    BY <1>1, <1>2, <1>4, <2>1, <2>2
<1>5. CASE begin_load
  <2>1. ~row_fifo_rd_en /\ ~preload_commit_event /\ Upcoming = Word(Expected, 0)
    BY <1>5, LoadFacts DEF Upcoming
  <2>2. loading_q' /\ ~reads_done_q' /\ issue_col_q' = 0
    BY <1>3, <1>5, <2>1 DEF IssueColNext
  <2>3. Upcoming' = Word(Expected', 0)
    BY <2>2 DEF Upcoming
  <2> QED
    BY <1>1, <1>2, <2>1, <2>3
<1>6. CASE row_fifo_rd_en
  <2>1. /\ loading_q /\ ~reads_done_q /\ ~preload_commit_event /\ ~begin_load
        /\ Upcoming = Word(Expected, issue_col_q)
    BY <1>6, LoadFacts DEF Upcoming
  <2>2. loading_q' /\ (reads_done_q' <=> issue_col_q = COLS - 1)
    BY <1>3, <1>6, <2>1
  <2>3. issue_col_q # COLS - 1 => issue_col_q' = issue_col_q + 1
    BY <1>3, <1>6, <2>1 DEF IssueColNext
  <2>4. issue_col_q \in Column /\ Expected \in 0 .. TileMod - 1
    BY ExpectedType DEF IInv, TypeOK
  <2>5. Following(Upcoming) = IF issue_col_q = COLS - 1 THEN Word(Later(Expected), 0)
                              ELSE Word(Expected, issue_col_q + 1)
    BY <2>1, <2>4, WordTypes
  <2>6. Expected' = Expected
    BY <1>2, <2>1
  <2> QED
    BY <1>1, <1>6, <2>2, <2>3, <2>5, <2>6 DEF Upcoming
<1>7. CASE ~preload_commit_event /\ ~begin_load /\ ~row_fifo_rd_en
  <2>1. /\ loading_q' <=> loading_q
        /\ reads_done_q' <=> reads_done_q
        /\ issue_col_q' = issue_col_q /\ Expected' = Expected
    BY <1>2, <1>3, <1>7 DEF IssueColNext
  <2> QED
    BY <1>1, <1>7, <2>1 DEF Upcoming
<1> QED
  BY <1>4, <1>5, <1>6, <1>7

-----------------------------------------------------------------------------
(* The array *)

\* One word is written on an edge, at the place that its read remembered.
LEMMA ArrayMoves ==
  ASSUME IInv, TilesTyped, ReadEdge
  PROVE  /\ array' \in [Bank -> [Column -> Words \cup {NoData}]]
         /\ row_fifo_rd_data' \in Words \cup {NoData}
         /\ \A b \in Bank, c \in Column :
              array'[b][c] =
                IF array_w_load /\ b = read_bank_q /\ c = read_col_q
                THEN row_fifo_rd_data ELSE array[b][c]
<1>1. /\ array \in [Bank -> [Column -> Words \cup {NoData}]]
      /\ row_fifo_rd_data \in Words \cup {NoData}
      /\ read_bank_q \in Bank /\ read_col_q \in Column /\ row_fifo \in Seq(Words)
  BY DEF TilesTyped, IInv, TypeOK
<1>2. row_fifo_rd_data' \in Words \cup {NoData}
  <2>1. CASE row_fifo_rd_en
    <3>1. row_fifo # <<>>
      BY <2>1, LoadFacts
    <3>2. Head(row_fifo) \in Words
      BY <1>1, <3>1, HeadTailProperties
    <3> QED
      BY <2>1, <3>2 DEF ReadEdge
  <2>2. CASE ~row_fifo_rd_en
    BY <1>1, <2>2 DEF ReadEdge
  <2> QED
    BY <2>1, <2>2
<1>3. CASE array_w_load
  <2>1. array' = [array EXCEPT ![read_bank_q][read_col_q] = row_fifo_rd_data]
    BY <1>3 DEF ReadEdge
  <2>2. array' \in [Bank -> [Column -> Words \cup {NoData}]]
    BY <1>1, <2>1
  <2>3. \A b \in Bank, c \in Column :
          array'[b][c] = IF b = read_bank_q /\ c = read_col_q
                         THEN row_fifo_rd_data ELSE array[b][c]
    BY <1>1, <2>1
  <2> QED
    BY <1>2, <1>3, <2>2, <2>3
<1>4. CASE ~array_w_load
  <2>1. array' = array
    BY <1>4 DEF ReadEdge
  <2> QED
    BY <1>1, <1>2, <1>4, <2>1
<1> QED
  BY <1>3, <1>4

\* After the edge the array has every column that the load had read before it.
LEMMA StoreMoves ==
  ASSUME IInv, TilesTyped, Loaded, ReadEdge, loading_q, ~any_error,
         NEW c \in Column, c < Issued
  PROVE  array'[loading_bank_q][c] = Word(Expected, c)
<1>1. loading_bank_q \in Bank /\ Issued \in Nat /\ c \in Nat
  BY ColsAssumption DEF IInv, TypeOK, Issued, Column
<1>2. array_w_load <=> read_pending_q
  BY DEF array_w_load
<1>3. c < Stored => array[loading_bank_q][c] = Word(Expected, c)
  BY DEF Loaded
<1>4. CASE read_pending_q
  <2>1. /\ read_bank_q = loading_bank_q /\ read_col_q = Issued - 1
        /\ row_fifo_rd_data = Word(Expected, read_col_q) /\ Stored = Issued - 1
    BY <1>4 DEF Loaded, Stored
  <2>2. CASE c = Issued - 1
    BY <1>1, <1>2, <1>4, <2>1, <2>2, ArrayMoves
  <2>3. CASE c # Issued - 1
    <3>1. c < Stored
      BY <1>1, <2>1, <2>3
    <3>2. array'[loading_bank_q][c] = array[loading_bank_q][c]
      BY <1>1, <2>1, <2>3, ArrayMoves
    <3> QED
      BY <1>3, <3>1, <3>2
  <2> QED
    BY <2>2, <2>3
<1>5. CASE ~read_pending_q
  <2>1. c < Stored
    BY <1>5 DEF Stored
  <2>2. array'[loading_bank_q][c] = array[loading_bank_q][c]
    BY <1>1, <1>2, <1>5, ArrayMoves
  <2> QED
    BY <1>3, <2>1, <2>2
<1> QED
  BY <1>4, <1>5

LEMMA LoadedStep ==
  ASSUME IInv, TileInv, NEW in \in Inputs, Edge(in)
  PROVE  Loaded'
<1> USE DEF Edge, PreloadEdge
<1> SUFFICES ASSUME loading_q', ~any_error'
             PROVE  /\ \A c \in Column : c < Stored' =>
                         array'[loading_bank_q'][c] = Word(Expected', c)
                    /\ read_pending_q' =>
                         /\ Issued' > 0 /\ read_bank_q' = loading_bank_q'
                         /\ read_col_q' = Issued' - 1
                         /\ row_fifo_rd_data' = Word(Expected', read_col_q')
  BY DEF Loaded
<1>1. ~any_error
  BY DEF ErrorEdge, any_error
<1>2. /\ ~preload_commit_event /\ (loading_q \/ begin_load)
      /\ loading_bank_q' = IF begin_load THEN Head(desc).bank ELSE loading_bank_q
  BY DEF LoadEdge
<1>3. Expected' = Expected
  BY <1>2, WaitsStep DEF TileInv, Promised
<1>4. read_pending_q' <=> row_fifo_rd_en
  BY DEF ReadEdge
<1>5. /\ Issued' = Issued + Taken /\ Issued \in Nat
  <2>1. Issued \in Nat /\ Taken \in Nat
    BY ColsAssumption DEF IInv, TypeOK, Issued, Column, Taken
  <2>2. Issued' = Issued + Taken - 0
    BY <1>2, LoadMoves DEF Dropped
  <2> QED
    BY <2>1, <2>2
<1>6. CASE begin_load
  <2>1. ~row_fifo_rd_en /\ ~loading_q
    BY <1>6, LoadFacts
  <2>2. Issued' = 0 /\ ~read_pending_q'
    BY <1>4, <1>5, <2>1 DEF Issued, Taken
  <2>3. \A c \in Column : ~(c < 0)
    BY ColsAssumption DEF Column
  <2> QED
    BY <2>2, <2>3 DEF Stored
<1>7. CASE ~begin_load
  <2>1. loading_q /\ loading_bank_q' = loading_bank_q
    BY <1>2, <1>7
  <2>2. Stored' = Issued
    BY <1>4, <1>5 DEF Stored, Taken
  <2>3. \A c \in Column : c < Issued => array'[loading_bank_q][c] = Word(Expected, c)
    BY <1>1, <2>1, StoreMoves DEF TileInv
  <2>4. ASSUME row_fifo_rd_en
        PROVE  /\ Issued' > 0 /\ read_bank_q' = loading_bank_q'
               /\ read_col_q' = Issued' - 1
               /\ row_fifo_rd_data' = Word(Expected', read_col_q')
    <3>1. ~reads_done_q /\ row_fifo # <<>> /\ Issued = issue_col_q
      BY <2>1, <2>4, LoadFacts DEF Issued
    <3>2. /\ read_bank_q' = loading_bank_q /\ read_col_q' = issue_col_q
          /\ row_fifo_rd_data' = Head(row_fifo)
      BY <2>4 DEF ReadEdge
    <3>3. Head(row_fifo) = Pending[1]
      <4>1. row_fifo \in Seq(Words)
        BY DEF IInv, TypeOK
      <4>2. Head(row_fifo) = row_fifo[1] /\ 1 \in 1 .. Len(row_fifo)
        BY <3>1, <4>1, EmptySeq, LenProperties
      <4> QED
        BY <4>2, PendingFacts
    <3>4. Pending[1] = Word(Expected, issue_col_q)
      BY <2>1, <3>1 DEF TileInv, Promised, Upcoming
    <3>5. Issued' = issue_col_q + 1 /\ issue_col_q \in Nat
      BY <1>5, <2>4, <3>1 DEF Taken
    <3> QED
      BY <1>3, <2>1, <3>2, <3>3, <3>4, <3>5
  <2> QED
    BY <1>3, <1>4, <2>1, <2>2, <2>3, <2>4
<1> QED
  BY <1>6, <1>7

\* The bank whose last column is stored has all of them, and no other is written.
LEMMA CompleteStep ==
  ASSUME IInv, TileInv, NEW in \in Inputs, Edge(in)
  PROVE  WeightsComplete'
<1> USE DEF Edge, PreloadEdge
<1> SUFFICES ASSUME NEW b \in Bank, NEW c \in Column,
                    bank_state'[b] \in {"READY", "ACTIVE", "RETIRING"}
             PROVE  array'[b][c] = Word(bank_tile'[b], c)
  BY DEF WeightsComplete
<1>1. Commits(b) \/ bank_state[b] \in {"READY", "ACTIVE", "RETIRING"}
  BY BankMoves
<1>2. bank_state[b] # "EMPTY"
  BY <1>1, BankMoves
<1>3. bank_tile'[b] = bank_tile[b]
  BY <1>2, BankMoves, TileMoves DEF TileInv
<1>4. CASE Commits(b)
  <2>1. /\ loading_q /\ reads_done_q /\ loading_bank_q = b /\ desc # <<>>
        /\ Head(desc).bank = b /\ ~any_error
    BY <1>4, LoadFacts DEF Commits, preload_commit_event, array_w_load
  <2>2. Expected = bank_tile[b]
    BY <2>1, DescFacts DEF Expected
  <2>3. c < Issued
    BY <2>1, ColsAssumption DEF Issued, Column
  <2> QED
    BY <1>3, <2>1, <2>2, <2>3, StoreMoves DEF TileInv
<1>5. CASE bank_state[b] \in {"READY", "ACTIVE", "RETIRING"}
  <2>1. array[b][c] = Word(bank_tile[b], c)
    BY <1>5 DEF TileInv, WeightsComplete
  <2>2. array_w_load => read_bank_q # b
    <3> SUFFICES ASSUME array_w_load PROVE read_bank_q # b
      OBVIOUS
    <3>1. read_pending_q /\ ~any_error /\ loading_q
      BY DEF array_w_load, IInv, FifoCounted
    <3>2. read_bank_q = loading_bank_q
      BY <3>1 DEF TileInv, Loaded
    <3>3. bank_state[loading_bank_q] = "LOADING"
      BY <3>1 DEF IInv, QueueAgrees, TypeOK
    <3> QED
      BY <1>5, <3>2, <3>3
  <2>3. array'[b][c] = array[b][c]
    BY <2>2, ArrayMoves DEF TileInv
  <2> QED
    BY <1>3, <2>1, <2>3
<1> QED
  BY <1>1, <1>4, <1>5

LEMMA TileStep ==
  ASSUME IInv, TileInv, NEW in \in Inputs, Edge(in)
  PROVE  TileInv'
<1> USE DEF Edge, PreloadEdge
<1>1. TilesTyped'
  BY ArrayMoves, TileMoves DEF TileInv, TilesTyped
<1>2. InTileOrder'
  BY OrderStep DEF TileInv
<1>3. Promised'
  BY UpcomingStep, WaitsStep DEF TileInv, Promised
<1>4. Loaded' /\ WeightsComplete'
  BY LoadedStep, CompleteStep
<1> QED
  BY <1>1, <1>2, <1>3, <1>4 DEF TileInv

LEMMA TileInit == Init => TileInv
<1> SUFFICES ASSUME Init PROVE TileInv
  OBVIOUS
<1> USE DEF Init, PreloadInit
<1>1. 0 \in 0 .. TileMod - 1
  BY FifoAssumption
<1>2. TilesTyped
  BY <1>1 DEF TilesTyped
<1>3. Len(row_fifo) = 0 /\ Len(desc) = 0
  OBVIOUS
<1>4. InTileOrder
  BY <1>3 DEF InTileOrder
<1>5. Pending[1] = Word(0, 0)
  <2>1. Pending = <<Word(0, 0)>>
    BY DEF Pending
  <2> QED
    BY <2>1
<1>6. Promised
  BY <1>3, <1>5 DEF Promised, Upcoming, Expected, Waits
<1>7. Loaded /\ WeightsComplete
  BY DEF Loaded, WeightsComplete
<1> QED
  BY <1>2, <1>4, <1>6, <1>7 DEF TileInv

LEMMA TileReset ==
  ASSUME TilesTyped, Reset
  PROVE  TileInv'
<1> USE DEF Reset
<1>1. 0 \in 0 .. TileMod - 1
  BY FifoAssumption
<1>2. TilesTyped'
  BY <1>1 DEF TilesTyped
<1>3. Len(row_fifo') = 0 /\ Len(desc') = 0
  OBVIOUS
<1>4. InTileOrder'
  BY <1>3 DEF InTileOrder
<1>5. Pending'[1] = Word(0, 0)
  <2>1. Pending' = <<Word(0, 0)>>
    BY DEF Pending
  <2> QED
    BY <2>1
<1>6. Promised'
  BY <1>3, <1>5 DEF Promised, Upcoming, Expected, Waits
<1>7. Loaded' /\ WeightsComplete'
  BY DEF Loaded, WeightsComplete
<1> QED
  BY <1>2, <1>4, <1>6, <1>7 DEF TileInv

LEMMA TileStutter ==
  ASSUME TileInv, UNCHANGED vars
  PROVE  TileInv'
<1> USE DEF vars, preloadVars, bankVars, queueVars, loadVars, readVars, errorVars,
            writerVars, historyVars
<1>1. TilesTyped' /\ InTileOrder'
  BY DEF TileInv, TilesTyped, InTileOrder, Pending
<1>2. Promised'
  BY DEF TileInv, Promised, Upcoming, Expected, Waits, Pending
<1>3. Loaded'
  BY DEF TileInv, Loaded, Stored, Issued, Expected, any_error
<1>4. WeightsComplete'
  BY DEF TileInv, WeightsComplete
<1> QED
  BY <1>1, <1>2, <1>3, <1>4 DEF TileInv

\* Allocations and tiles come at their own pace, and errors may stop a load; but
\* a bank that is ready, in use or just retired has every column of the tile that
\* belongs to its context.
THEOREM TilesComplete == Spec => []WeightsComplete
<1>1. IInv /\ TileInv /\ [Next]_vars => TileInv'
  BY TileStep, TileReset, TileStutter DEF Next, TileInv
<1>2. TileInv => WeightsComplete
  BY DEF TileInv
<1> QED
  BY LoaderCorrect, TileInit, <1>1, <1>2, PTL DEF Spec
=============================================================================
