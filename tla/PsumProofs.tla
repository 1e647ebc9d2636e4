----------------------------- MODULE PsumProofs -----------------------------
(***************************************************************************)
(* For every bank depth and every traffic: the credits of PsumScoreboard   *)
(* are conserved and fresh, two legal accesses never meet on one word, and *)
(* a sticky error freezes the banks.  For every chain of contexts, in      *)
(* queues of every depth: the feedback loop drives that scoreboard without *)
(* ever being refused.                                                     *)
(*                                                                         *)
(* The first part uses only what PsumScoreboard assumes of its constants.  *)
(***************************************************************************)
EXTENDS PsumFeedback, SequenceTheorems, TLAPS

LEMMA InitInv == Init => IInv
<1> SUFFICES ASSUME Init PROVE IInv
  OBVIOUS
<1>1. TypeOK
  BY SizeAssumption, IdentityAssumption DEF Init, TypeOK, ErrorKind
<1>2. CreditOrder /\ DoneMeansDone /\ CreditsAreFresh
  BY DEF Init, CreditOrder, DoneMeansDone, CreditsAreFresh
<1> QED
  BY <1>1, <1>2 DEF IInv

LEMMA ResetInv == Reset => IInv'
<1> SUFFICES ASSUME Reset PROVE IInv'
  OBVIOUS
<1>1. TypeOK'
  BY SizeAssumption, IdentityAssumption DEF Reset, TypeOK, ErrorKind
<1>2. CreditOrder' /\ DoneMeansDone' /\ CreditsAreFresh'
  BY DEF Reset, CreditOrder, DoneMeansDone, CreditsAreFresh
<1> QED
  BY <1>1, <1>2 DEF IInv

\* What an accepted transfer tells about the bank it is for.
BankFacts(req, b) ==
  /\ Allocates(req, b) => /\ ~allocated[b]
                          /\ req.alloc.expected \in 1 .. DEPTH
                          /\ req.alloc.epoch \in Epoch
                          /\ req.alloc.context \in Context
  /\ Writes(req, b) => /\ allocated[b] /\ ~writer_done[b]
                       /\ written[b] < expected[b] /\ req.wr.addr = written[b]
  /\ Commits(req, b) => allocated[b] /\ written[b] = expected[b]
  /\ Reads(req, b) => /\ allocated[b] /\ rd_issue[b] < written[b]
                      /\ req.rd.addr = rd_issue[b]
  /\ Returns(req, b) => allocated[b] /\ rd_return[b] < rd_issue[b]
  /\ ReturnsLast(req, b) => Returns(req, b) /\ rd_return[b] + 1 = expected[b]
  /\ Releases(req, b) => /\ allocated[b] /\ writer_done[b] /\ reader_done[b]
                         /\ rd_issue[b] = rd_return[b]

LEMMA PortTypes ==
  ASSUME NEW req \in Requests
  PROVE  /\ req.alloc \in AllocPort /\ req.wr \in WritePort
         /\ req.rd \in ReadPort
  BY RequestsAssumption DEF Ports

LEMMA Facts ==
  ASSUME IInv, NEW req \in Requests, NEW b \in Banks
  PROVE  BankFacts(req, b)
<1>1. /\ written[b] \in Nat /\ expected[b] \in Nat
      /\ rd_issue[b] \in Nat /\ rd_return[b] \in Nat
      /\ rd_return[b] <= rd_issue[b]
  BY SizeAssumption DEF IInv, TypeOK, CreditOrder
<1>2. Allocates(req, b) => /\ ~allocated[b]
                           /\ req.alloc.expected \in 1 .. DEPTH
                           /\ req.alloc.epoch \in Epoch
                           /\ req.alloc.context \in Context
  BY PortTypes, SizeAssumption DEF Allocates, AllocReady, AllocPort, Counts
<1>3. Writes(req, b) => /\ allocated[b] /\ ~writer_done[b]
                        /\ written[b] < expected[b] /\ req.wr.addr = written[b]
  BY DEF Writes, WriteReady, IdentityOk, EpochOk
<1>4. Commits(req, b) => allocated[b] /\ written[b] = expected[b]
  BY DEF Commits, CommitReady, IdentityOk, EpochOk
<1>5. Reads(req, b) => /\ allocated[b] /\ rd_issue[b] < written[b]
                       /\ req.rd.addr = rd_issue[b]
  BY DEF Reads, ReadReady, IdentityOk, EpochOk
<1>6. Returns(req, b) => allocated[b] /\ rd_return[b] < rd_issue[b]
  BY <1>1 DEF Returns, ReturnReady, IdentityOk, EpochOk, Outstanding
<1>7. ReturnsLast(req, b) => Returns(req, b) /\ rd_return[b] + 1 = expected[b]
  BY DEF ReturnsLast, Returns, ReturnShouldBeLast
<1>8. Releases(req, b) => /\ allocated[b] /\ writer_done[b] /\ reader_done[b]
                          /\ rd_issue[b] = rd_return[b]
  BY <1>1 DEF Releases, ReleaseReady, IdentityOk, EpochOk, Outstanding
<1> QED
  BY <1>2, <1>3, <1>4, <1>5, <1>6, <1>7, <1>8 DEF BankFacts

\* The registers of bank b after an edge.
BankEdge(req, b) ==
  /\ allocated'[b] <=> (allocated[b] \/ Allocates(req, b)) /\ ~Releases(req, b)
  /\ expected'[b] = IF Allocates(req, b) THEN req.alloc.expected ELSE expected[b]
  /\ writer_done'[b] <=>
       /\ ~Releases(req, b)
       /\ Commits(req, b) \/ (writer_done[b] /\ ~Allocates(req, b))
  /\ reader_done'[b] <=>
       /\ ~Releases(req, b)
       /\ ReturnsLast(req, b) \/ (reader_done[b] /\ ~Allocates(req, b))
  /\ written'[b] = IF Releases(req, b) THEN 0
                   ELSE IF Writes(req, b) THEN written[b] + 1
                   ELSE IF Allocates(req, b) THEN 0 ELSE written[b]
  /\ rd_issue'[b] = IF Releases(req, b) THEN 0
                    ELSE IF Reads(req, b) THEN rd_issue[b] + 1
                    ELSE IF Allocates(req, b) THEN 0 ELSE rd_issue[b]
  /\ rd_return'[b] = IF Releases(req, b) THEN 0
                     ELSE IF Returns(req, b) THEN rd_return[b] + 1
                     ELSE IF Allocates(req, b) THEN 0 ELSE rd_return[b]
  /\ stored'[b] = IF Allocates(req, b) THEN {}
                  ELSE IF Writes(req, b) THEN stored[b] \cup {req.wr.addr}
                  ELSE stored[b]
  /\ taken'[b] = IF Allocates(req, b) THEN {}
                 ELSE IF Reads(req, b) THEN taken[b] \cup {req.rd.addr}
                 ELSE taken[b]

LEMMA BankNext ==
  ASSUME NEW req, Edge(req), NEW b \in Banks
  PROVE  BankEdge(req, b)
  BY DEF Edge, BankEdge

\* Bank b is neither handed out nor taken back.
Keeps(req, b) ==
  /\ ~Allocates(req, b)
  /\ allocated'[b] <=> allocated[b]
  /\ writer_done'[b] <=> Commits(req, b) \/ writer_done[b]
  /\ reader_done'[b] <=> ReturnsLast(req, b) \/ reader_done[b]
  /\ written'[b] = IF Writes(req, b) THEN written[b] + 1 ELSE written[b]
  /\ rd_issue'[b] = IF Reads(req, b) THEN rd_issue[b] + 1 ELSE rd_issue[b]
  /\ rd_return'[b] = IF Returns(req, b) THEN rd_return[b] + 1 ELSE rd_return[b]
  /\ expected'[b] = expected[b]
  /\ stored'[b] = IF Writes(req, b) THEN stored[b] \cup {req.wr.addr} ELSE stored[b]
  /\ taken'[b] = IF Reads(req, b) THEN taken[b] \cup {req.rd.addr} ELSE taken[b]

\* Which of the cases an edge is for bank b decides its registers.
LEMMA BankCases ==
  ASSUME IInv, NEW req \in Requests, Edge(req), NEW b \in Banks
  PROVE  \/ /\ Releases(req, b)
            /\ ~allocated'[b] /\ ~writer_done'[b] /\ ~reader_done'[b]
            /\ written'[b] = 0 /\ rd_issue'[b] = 0 /\ rd_return'[b] = 0
         \/ /\ Allocates(req, b) /\ allocated'[b]
            /\ ~writer_done'[b] /\ ~reader_done'[b]
            /\ written'[b] = 0 /\ rd_issue'[b] = 0 /\ rd_return'[b] = 0
            /\ expected'[b] = req.alloc.expected
            /\ stored'[b] = {} /\ taken'[b] = {}
         \/ Keeps(req, b)
<1>1. BankEdge(req, b) /\ BankFacts(req, b)
  BY BankNext, Facts
<1>2. Allocates(req, b) => /\ ~Writes(req, b) /\ ~Commits(req, b) /\ ~Reads(req, b)
                           /\ ~Returns(req, b) /\ ~ReturnsLast(req, b)
  BY <1>1 DEF BankFacts
<1>3. CASE Releases(req, b)
  BY <1>1, <1>3 DEF BankEdge
<1>4. CASE ~Releases(req, b) /\ Allocates(req, b)
  BY <1>1, <1>2, <1>4 DEF BankEdge
<1>5. CASE ~Releases(req, b) /\ ~Allocates(req, b)
  BY <1>1, <1>5 DEF BankEdge, Keeps
<1> QED
  BY <1>3, <1>4, <1>5

\* The invariant of one bank, and its preservation by an edge.
BankInv(b) ==
  /\ rd_return[b] <= rd_issue[b] /\ rd_issue[b] <= written[b]
  /\ allocated[b] => written[b] <= expected[b] /\ expected[b] # 0
  /\ writer_done[b] => allocated[b] /\ written[b] = expected[b]
  /\ reader_done[b] => allocated[b] /\ rd_return[b] = expected[b]
  /\ ~allocated[b] => written[b] = 0 /\ rd_issue[b] = 0 /\ rd_return[b] = 0

LEMMA BankInvEquiv ==
  (CreditOrder /\ DoneMeansDone) <=> \A b \in Banks : BankInv(b)
  BY DEF CreditOrder, DoneMeansDone, BankInv

LEMMA BankStep ==
  ASSUME IInv, NEW req \in Requests, Edge(req), NEW b \in Banks
  PROVE  /\ BankInv(b)'
         /\ expected'[b] \in 0 .. DEPTH /\ written'[b] \in 0 .. DEPTH
         /\ rd_issue'[b] \in 0 .. DEPTH /\ rd_return'[b] \in 0 .. DEPTH
<1>1. /\ written[b] \in 0 .. DEPTH /\ expected[b] \in 0 .. DEPTH
      /\ rd_issue[b] \in 0 .. DEPTH /\ rd_return[b] \in 0 .. DEPTH
      /\ DEPTH \in Nat
  BY SizeAssumption DEF IInv, TypeOK
<1>2. BankInv(b) /\ BankFacts(req, b)
  BY BankInvEquiv, Facts DEF IInv
<1>3. expected'[b] \in 0 .. DEPTH
  <2>1. expected'[b] = IF Allocates(req, b) THEN req.alloc.expected ELSE expected[b]
    BY BankNext DEF BankEdge
  <2> QED
    BY <1>1, <1>2, <2>1 DEF BankFacts
<1>4. CASE /\ ~allocated'[b] /\ ~writer_done'[b] /\ ~reader_done'[b]
           /\ written'[b] = 0 /\ rd_issue'[b] = 0 /\ rd_return'[b] = 0
  BY <1>1, <1>3, <1>4 DEF BankInv
<1>5. CASE /\ Allocates(req, b) /\ allocated'[b]
           /\ ~writer_done'[b] /\ ~reader_done'[b]
           /\ written'[b] = 0 /\ rd_issue'[b] = 0 /\ rd_return'[b] = 0
           /\ expected'[b] = req.alloc.expected
  BY <1>1, <1>2, <1>3, <1>5 DEF BankInv, BankFacts
<1>6. CASE Keeps(req, b)
  <2>1. /\ written'[b] \in 0 .. DEPTH /\ rd_issue'[b] \in 0 .. DEPTH
        /\ rd_return'[b] \in 0 .. DEPTH
        /\ rd_return'[b] <= rd_issue'[b] /\ rd_issue'[b] <= written'[b]
        /\ allocated[b] => written'[b] <= expected[b] /\ expected[b] # 0
        /\ ~allocated[b] => written'[b] = 0 /\ rd_issue'[b] = 0 /\ rd_return'[b] = 0
    BY <1>1, <1>2, <1>6 DEF Keeps, BankInv, BankFacts
  <2>2. writer_done'[b] => allocated[b] /\ written'[b] = expected[b]
    <3>1. writer_done[b] => ~Writes(req, b) /\ allocated[b]
                            /\ written[b] = expected[b]
      BY <1>2 DEF BankFacts, BankInv
    <3>2. Commits(req, b) => ~Writes(req, b) /\ allocated[b]
                             /\ written[b] = expected[b]
      BY <1>1, <1>2 DEF BankFacts
    <3> QED
      BY <1>6, <3>1, <3>2 DEF Keeps
  <2>3. reader_done'[b] => allocated[b] /\ rd_return'[b] = expected[b]
    <3>1. reader_done[b] => ~Returns(req, b) /\ allocated[b]
                            /\ rd_return[b] = expected[b]
      BY <1>1, <1>2 DEF BankFacts, BankInv
    <3>2. ReturnsLast(req, b) => Returns(req, b) /\ allocated[b]
                                 /\ rd_return[b] + 1 = expected[b]
      BY <1>2 DEF BankFacts
    <3> QED
      BY <1>6, <3>1, <3>2 DEF Keeps
  <2>4. (allocated'[b] <=> allocated[b]) /\ expected'[b] = expected[b]
    BY <1>6 DEF Keeps
  <2> QED
    BY <1>3, <2>1, <2>2, <2>3, <2>4 DEF BankInv
<1> QED
  BY <1>4, <1>5, <1>6, BankCases

LEMMA FreshStep ==
  ASSUME IInv, NEW req \in Requests, Edge(req), NEW b \in Banks, allocated'[b]
  PROVE  /\ stored'[b] = {a \in Address : a < written'[b]}
         /\ taken'[b] = {a \in Address : a < rd_issue'[b]}
<1>1. /\ written[b] \in 0 .. DEPTH /\ expected[b] \in 0 .. DEPTH
      /\ rd_issue[b] \in 0 .. DEPTH /\ DEPTH \in Nat
      /\ Address = 0 .. MaxAddr /\ MaxAddr \in Nat /\ MaxAddr + 1 >= DEPTH
  BY SizeAssumption DEF IInv, TypeOK, Address
<1>2. BankInv(b) /\ BankFacts(req, b)
  BY BankInvEquiv, Facts DEF IInv
<1>3. CASE /\ written'[b] = 0 /\ rd_issue'[b] = 0
           /\ stored'[b] = {} /\ taken'[b] = {}
  BY <1>1, <1>3
<1>4. CASE Keeps(req, b)
  <2>1. /\ allocated[b]
        /\ stored[b] = {a \in Address : a < written[b]}
        /\ taken[b] = {a \in Address : a < rd_issue[b]}
    BY <1>4 DEF Keeps, IInv, CreditsAreFresh
  <2>2. stored'[b] = {a \in Address : a < written'[b]}
    <3>1. CASE Writes(req, b)
      <4>1. /\ stored'[b] = stored[b] \cup {written[b]}
            /\ written'[b] = written[b] + 1 /\ written[b] \in Address
        BY <1>1, <1>2, <1>4, <3>1 DEF Keeps, BankFacts
      <4> QED
        BY <1>1, <2>1, <4>1
    <3>2. CASE ~Writes(req, b)
      BY <1>4, <2>1, <3>2 DEF Keeps
    <3> QED
      BY <3>1, <3>2
  <2>3. taken'[b] = {a \in Address : a < rd_issue'[b]}
    <3>1. CASE Reads(req, b)
      <4>1. /\ taken'[b] = taken[b] \cup {rd_issue[b]}
            /\ rd_issue'[b] = rd_issue[b] + 1 /\ rd_issue[b] \in Address
        BY <1>1, <1>2, <1>4, <3>1 DEF Keeps, BankFacts
      <4> QED
        BY <1>1, <2>1, <4>1
    <3>2. CASE ~Reads(req, b)
      BY <1>4, <2>1, <3>2 DEF Keeps
    <3> QED
      BY <3>1, <3>2
  <2> QED
    BY <2>2, <2>3
<1> QED
  BY <1>3, <1>4, BankCases

LEMMA EdgeInv ==
  ASSUME IInv, NEW req \in Requests, Edge(req)
  PROVE  IInv'
<1>1. /\ allocated' \in [Banks -> BOOLEAN]
      /\ writer_done' \in [Banks -> BOOLEAN]
      /\ reader_done' \in [Banks -> BOOLEAN]
  BY DEF Edge, IInv, TypeOK, ReturnsLast, Releases, Allocates, Commits
<1>2. epoch' \in [Banks -> Epoch] /\ context' \in [Banks -> Context]
  BY Facts DEF Edge, IInv, TypeOK, BankFacts
<1>3. /\ expected' \in [Banks -> 0 .. DEPTH] /\ written' \in [Banks -> 0 .. DEPTH]
      /\ rd_issue' \in [Banks -> 0 .. DEPTH] /\ rd_return' \in [Banks -> 0 .. DEPTH]
  BY BankStep DEF Edge
<1>4. error' \in SUBSET ErrorKind
  BY DEF Edge, IInv, TypeOK, ErrorsRaised
<1>5. stored' \in [Banks -> SUBSET Address] /\ taken' \in [Banks -> SUBSET Address]
  BY PortTypes DEF Edge, IInv, TypeOK, WritePort, ReadPort
<1>6. \A b \in Banks : BankInv(b)'
  BY BankStep
<1>7. CreditOrder' /\ DoneMeansDone'
  BY <1>6 DEF CreditOrder, DoneMeansDone, BankInv
<1>8. CreditsAreFresh'
  BY FreshStep DEF CreditsAreFresh
<1> QED
  BY <1>1, <1>2, <1>3, <1>4, <1>5, <1>7, <1>8 DEF IInv, TypeOK

\* Credit conservation, ownership flags and freshness hold in every reachable
\* state, whatever is driven on the six channels.
THEOREM CreditsCorrect == Spec => []IInv
<1>1. IInv /\ [Next]_vars => IInv'
  <2> SUFFICES ASSUME IInv, [Next]_vars PROVE IInv'
    OBVIOUS
  <2>1. CASE Reset
    BY <2>1, ResetInv
  <2>2. CASE \E req \in Requests : Edge(req)
    BY <2>2, EdgeInv
  <2>3. CASE UNCHANGED vars
    BY <2>3 DEF vars, ownerVars, countVars, ramVars, IInv, TypeOK,
                CreditOrder, DoneMeansDone, CreditsAreFresh
  <2> QED
    BY <2>1, <2>2, <2>3 DEF Next
<1> QED
  BY <1>1, InitInv, PTL DEF Spec

\* No edge grants a read and a write of one word, although no ready compares
\* the two ports.
THEOREM NoLegalCollision == Spec => []LegalAccessesDiffer
<1>1. IInv => LegalAccessesDiffer
  <2> SUFFICES ASSUME IInv, NEW req \in Requests,
                      req.wr.bank = req.rd.bank,
                      WriteReady(req.wr), ReadReady(req.rd)
               PROVE  req.rd.addr < req.wr.addr
    BY DEF LegalAccessesDiffer
  <2>1. /\ req.wr.addr = written[req.wr.bank]
        /\ req.rd.addr = rd_issue[req.wr.bank]
        /\ rd_issue[req.wr.bank] < written[req.wr.bank]
    BY DEF WriteReady, ReadReady
  <2> QED
    BY <2>1
<1> QED
  BY <1>1, CreditsCorrect, PTL

\* A sticky error stops every channel until reset.
THEOREM FailStop == Spec => FailStopFreezes
<1> DEFINE Frozen == fail_stop /\ fail_stop' =>
                       UNCHANGED <<ownerVars, countVars, ramVars>>
<1>1. IInv /\ [Next]_vars => [Frozen]_vars
  <2> SUFFICES ASSUME IInv, Next, fail_stop, fail_stop'
               PROVE  UNCHANGED <<ownerVars, countVars, ramVars>>
    OBVIOUS
  <2>1. CASE Reset
    BY <2>1 DEF Reset, fail_stop
  <2>2. ASSUME NEW req \in Requests, Edge(req)
        PROVE  UNCHANGED <<ownerVars, countVars, ramVars>>
    <3>1. \A b : /\ ~Allocates(req, b) /\ ~Writes(req, b) /\ ~Commits(req, b)
                 /\ ~Reads(req, b) /\ ~Returns(req, b)
                 /\ ~ReturnsLast(req, b) /\ ~Releases(req, b)
      BY DEF Allocates, Writes, Commits, Reads, Returns, ReturnsLast, Releases,
             AllocReady, WriteReady, CommitReady, ReadReady, ReturnReady,
             ReleaseReady
    <3>2. UNCHANGED <<allocated, writer_done, reader_done>>
      BY <2>2, <3>1 DEF Edge, IInv, TypeOK
    <3>3. UNCHANGED <<epoch, context, expected, written, rd_issue, rd_return>>
      BY <2>2, <3>1 DEF Edge, IInv, TypeOK
    <3>4. UNCHANGED <<stored, taken>>
      BY <2>2, <3>1 DEF Edge, IInv, TypeOK
    <3> QED
      BY <3>2, <3>3, <3>4 DEF ownerVars, countVars, ramVars
  <2> QED
    BY <2>1, <2>2 DEF Next
<1> QED
  BY <1>1, CreditsCorrect, PTL DEF Spec, FailStopFreezes

-----------------------------------------------------------------------------
\* What the invariant says of the sets of an allocated bank.
LEMMA Sets ==
  ASSUME IInv, NEW b \in Banks, allocated[b]
  PROVE  stored[b] = 0 .. written[b] - 1 /\ taken[b] = 0 .. rd_issue[b] - 1
<1>1. written[b] \in 0 .. DEPTH /\ rd_issue[b] \in 0 .. DEPTH
  BY DEF IInv, TypeOK
<1>2. /\ stored[b] = {a \in Address : a < written[b]}
      /\ taken[b] = {a \in Address : a < rd_issue[b]}
  BY DEF IInv, CreditsAreFresh
<1> QED
  BY <1>1, <1>2, SizeAssumption DEF Address

\* The refinement mapping, one bank at a time.
LEMMA Mapping ==
  ASSUME NEW b \in Banks
  PROVE  /\ [c \in Banks |-> <<epoch[c], context[c]>>][b] = <<epoch[b], context[b]>>
         /\ [c \in Banks |-> <<epoch[c], context[c]>>]'[b] = <<epoch'[b], context'[b]>>
         /\ [c \in Banks |-> 0 .. expected[c] - 1][b] = 0 .. expected[b] - 1
         /\ [c \in Banks |-> 0 .. expected[c] - 1]'[b] = 0 .. expected'[b] - 1
         /\ [c \in Banks |-> Outstanding(c)][b] = rd_issue[b] - rd_return[b]
         /\ [c \in Banks |-> Outstanding(c)]'[b] = rd_issue'[b] - rd_return'[b]
  BY DEF Outstanding

LEMMA EdgeOwnership ==
  ASSUME IInv, NEW req \in Requests, Edge(req), NEW b \in Banks
  PROVE  \/ Ownership!Grant(b) \/ Ownership!Use(b)
         \/ Ownership!Free(b) \/ Ownership!Rest(b)
<1>1. BankInv(b) /\ BankFacts(req, b)
  BY BankInvEquiv, Facts DEF IInv
<1>2. /\ written[b] \in 0 .. DEPTH /\ expected[b] \in 0 .. DEPTH
      /\ rd_issue[b] \in 0 .. DEPTH /\ rd_return[b] \in 0 .. DEPTH
      /\ DEPTH \in Nat \ {0}
  BY SizeAssumption DEF IInv, TypeOK
<1>3. /\ epoch'[b] = IF Allocates(req, b) THEN req.alloc.epoch ELSE epoch[b]
      /\ context'[b] = IF Allocates(req, b) THEN req.alloc.context ELSE context[b]
  BY DEF Edge
<1>4. CASE Releases(req, b)
  <2>1. /\ allocated[b] /\ written[b] = expected[b]
        /\ rd_return[b] = expected[b] /\ rd_issue[b] = expected[b]
    BY <1>1, <1>4 DEF BankInv, BankFacts
  <2>2. ~allocated'[b]
    BY <1>4, BankNext DEF BankEdge
  <2>3. rd_issue[b] - rd_return[b] = 0
    BY <1>2, <2>1
  <2>4. stored[b] = 0 .. expected[b] - 1 /\ taken[b] = 0 .. expected[b] - 1
    BY <2>1, Sets
  <2> QED
    BY <2>1, <2>2, <2>3, <2>4, Mapping DEF Ownership!Free
<1>5. CASE ~Releases(req, b) /\ Allocates(req, b)
  <2>1. /\ ~allocated[b] /\ allocated'[b]
        /\ rd_issue'[b] = 0 /\ rd_return'[b] = 0
        /\ expected'[b] = req.alloc.expected
        /\ stored'[b] = {} /\ taken'[b] = {}
        /\ req.alloc.expected \in 1 .. DEPTH
        /\ req.alloc.epoch \in Epoch /\ req.alloc.context \in Context
    BY <1>1, <1>5, BankCases DEF BankFacts, Keeps
  <2>2. <<epoch'[b], context'[b]>> \in Epoch \X Context
    BY <1>3, <1>5, <2>1
  <2>3. 0 .. expected'[b] - 1 \subseteq 0 .. DEPTH - 1 /\ 0 .. expected'[b] - 1 # {}
    BY <1>2, <2>1
  <2>4. rd_issue'[b] - rd_return'[b] = 0
    BY <2>1
  <2> QED
    BY <2>1, <2>2, <2>3, <2>4, Mapping DEF Ownership!Grant
<1>6. CASE ~Releases(req, b) /\ ~Allocates(req, b) /\ ~allocated[b]
  BY <1>6, BankNext DEF BankEdge, Ownership!Rest
<1>7. CASE ~Releases(req, b) /\ ~Allocates(req, b) /\ allocated[b]
  <2>1. /\ Keeps(req, b)
        /\ epoch'[b] = epoch[b] /\ context'[b] = context[b]
    BY <1>3, <1>7, BankCases
  <2>2. Ownership!Store(b)
    <3>1. CASE Writes(req, b)
      <4>1. /\ written[b] \in (0 .. expected[b] - 1) \ stored[b]
            /\ stored'[b] = stored[b] \cup {written[b]}
        BY <1>1, <1>2, <1>7, <2>1, <3>1, Sets DEF Keeps, BankFacts
      <4> QED
        BY <4>1, Mapping DEF Ownership!Store
    <3>2. CASE ~Writes(req, b)
      BY <2>1, <3>2 DEF Keeps, Ownership!Store
    <3> QED
      BY <3>1, <3>2
  <2>3. Ownership!TakeAndReturn(b)
    <3> DEFINE awaits == rd_issue[b] - rd_return[b]
               awaitsNext == rd_issue'[b] - rd_return'[b]
    <3>1. CASE Reads(req, b)
      <4>1. /\ rd_issue[b] \in stored[b] \ taken[b]
            /\ taken'[b] = taken[b] \cup {rd_issue[b]}
        BY <1>1, <1>2, <1>7, <2>1, <3>1, Sets, SMTT(30) DEF Keeps, BankFacts
      <4>2. awaitsNext = awaits + 1 \/ (awaits > 0 /\ awaitsNext = awaits)
        BY <1>1, <1>2, <2>1, <3>1 DEF Keeps, BankFacts
      <4> QED
        BY <4>1, <4>2, Mapping DEF Ownership!TakeAndReturn
    <3>2. CASE ~Reads(req, b)
      <4>1. taken'[b] = taken[b]
        BY <2>1, <3>2 DEF Keeps
      <4>2. awaitsNext = awaits \/ (awaits > 0 /\ awaitsNext = awaits - 1)
        BY <1>1, <1>2, <2>1, <3>2 DEF Keeps, BankFacts
      <4> QED
        BY <4>1, <4>2, Mapping DEF Ownership!TakeAndReturn
    <3> QED
      BY <3>1, <3>2
  <2>4. allocated'[b] /\ expected'[b] = expected[b]
    BY <1>7, <2>1 DEF Keeps
  <2> QED
    BY <1>7, <2>1, <2>2, <2>3, <2>4, Mapping DEF Ownership!Use
<1> QED
  BY <1>4, <1>5, <1>6, <1>7

\* The scoreboard implements the ownership protocol, for every depth and every
\* traffic: a bank is reused only after all of its owner's words were stored,
\* taken and returned, and only stored words are ever taken.
THEOREM ScoreboardRefinesOwnership == Spec => OwnershipSpec
<1>1. Init => Ownership!OwnershipInit
  <2> SUFFICES ASSUME Init PROVE Ownership!OwnershipInit
    OBVIOUS
  <2>1. \A b \in Banks : <<epoch[b], context[b]>> \in Epoch \X Context
    BY IdentityAssumption DEF Init
  <2>2. [b \in Banks |-> <<epoch[b], context[b]>>] \in [Banks -> Epoch \X Context]
    BY <2>1
  <2>3. \A b \in Banks : 0 .. expected[b] - 1 = {} /\ Outstanding(b) = 0
    BY DEF Init, Outstanding
  <2>4. /\ [b \in Banks |-> 0 .. expected[b] - 1] = [b \in Banks |-> {}]
        /\ [b \in Banks |-> Outstanding(b)] = [b \in Banks |-> 0]
    BY <2>3
  <2> QED
    BY <2>2, <2>4 DEF Init, Ownership!OwnershipInit
<1>2. IInv /\ [Next]_vars => [Ownership!OwnershipNext]_(Ownership!ownershipVars)
  <2> SUFFICES ASSUME IInv, [Next]_vars
               PROVE  [Ownership!OwnershipNext]_(Ownership!ownershipVars)
    OBVIOUS
  <2>1. CASE Reset
    BY <2>1 DEF Reset, Ownership!OwnershipNext
  <2>2. CASE \E req \in Requests : Edge(req)
    BY <2>2, EdgeOwnership DEF Ownership!OwnershipNext
  <2>3. CASE UNCHANGED vars
    BY <2>3 DEF vars, ownerVars, countVars, ramVars, Outstanding,
                Ownership!ownershipVars
  <2> QED
    BY <2>1, <2>2, <2>3 DEF Next
<1> QED
  BY <1>1, <1>2, CreditsCorrect, PTL DEF Spec, OwnershipSpec, Ownership!OwnershipSpec
-----------------------------------------------------------------------------
(* The feedback loop                                                       *)

Succ(id) == IF id = IdMod - 1 THEN 0 ELSE id + 1

Descriptor ==
  [id : Context, first : BOOLEAN, final : BOOLEAN, rd_bank : Banks,
   wr_bank : Banks, pixels : Nat \ {0}, parent : Context]
Event == [bank : Banks, id : Context]

\* The pixels of a sequence of contexts add up to total; S[k] are those behind
\* the first k.
Sums(q, total) ==
  \E S \in [0 .. Len(q) -> Nat] :
    /\ S[0] = total /\ S[Len(q)] = 0
    /\ \A k \in 1 .. Len(q) : S[k - 1] = S[k] + q[k].pixels

\* The bank belongs to the context.
Owned(b, id) == allocated[b] /\ context[b] = id /\ epoch[b] = EpochOf(id)

LoopTyped ==
  /\ chain \in Chains /\ pass \in 0 .. chain.passes - 1
  /\ next_context_id_q \in Context
  /\ issue \in Descriptor \cup {NoContext}
  /\ context_done \in Descriptor \cup {NoContext}
  /\ pixel_addr \in Nat /\ collected \in Nat /\ in_flight \in Nat
  /\ collecting \in Seq(Descriptor)
  /\ return_q \in [bank : Banks, id : Context, last : BOOLEAN]
  /\ commit_events \in Seq(Event) /\ release_events \in Seq(Event)
  /\ \A b \in Banks :
       /\ written[b] \in Nat /\ rd_issue[b] \in Nat
       /\ rd_return[b] \in Nat /\ expected[b] \in Nat

\* Who the issued context is, and which pass comes next.
Lineage ==
  /\ issue.rd_bank = 1 - issue.wr_bank
  /\ issue # NoContext => Succ(issue.id) = next_context_id_q
  /\ ~issue.first => Succ(issue.parent) = issue.id
  /\ pass = 0 => issue.final
  /\ pass # 0 => /\ ~issue.final /\ issue # NoContext
                 /\ chain_parent_valid_q /\ chain_parent = issue
                 /\ issue.wr_bank = 1 - (pass % 2) /\ issue.pixels = chain.pixels
  /\ computing => /\ issue_context_active_q /\ pixel_addr < issue.pixels
                  /\ compute_done => issue_handoff_done_guard_q

\* The parent of the issued context has words to come.
ParentWaits ==
  Len(collecting) >= 2 /\ ~collecting[Len(collecting) - 1].final

Rest == IF computing THEN issue.pixels - pixel_addr ELSE 0

\* What is collected: the words of the admitted contexts, in their order, and
\* of these only the last, and the one it reads, own a bank.
Queued ==
  /\ computing => collecting # <<>>
  /\ collecting # <<>> =>
       /\ collecting[Len(collecting)] = issue /\ issue # NoContext
       /\ collected < Head(collecting).pixels
  /\ collecting = <<>> => collected = 0
  /\ Sums(collecting, in_flight + collected + Rest)
  /\ \A k \in 1 .. Len(collecting) - 2 : collecting[k].final
  /\ ParentWaits =>
       /\ computing /\ ~issue.first
       /\ LET parent == collecting[Len(collecting) - 1]
          IN /\ parent.id = issue.parent /\ parent.wr_bank = issue.rd_bank
             /\ parent.pixels = issue.pixels
  /\ context_descs =
       (IF context_done = NoContext THEN <<>> ELSE <<context_done>>) \o collecting

\* An allocation is asked for once, before the first pixel, and the permit is
\* there as soon as it is granted.
Permitted ==
  /\ alloc_events # <<>> =>
       /\ computing /\ pixel_addr = 0 /\ ~issue.final
       /\ alloc_events = <<[bank |-> issue.wr_bank, id |-> issue.id,
                            pixels |-> issue.pixels]>>
  /\ computing => (issue_psum_owner_permit_q <=> alloc_events = <<>>)

\* The scoreboard's counts of one bank.
CountsOf(b) ==
  /\ rd_issue[b] <= written[b]
  /\ allocated[b] => /\ written[b] <= expected[b] /\ expected[b] <= DEPTH
                     /\ expected[b] # 0
  /\ allocated[b] /\ written[b] < expected[b] => ~writer_done[b]

CompletedIn(b) ==
  context_done # NoContext /\ ~context_done.final /\ context_done.wr_bank = b
CommittedBy(b) == commit_events # <<>> /\ Head(commit_events).bank = b

\* The writer of a full bank is done, or its commit is on the way, which takes
\* an edge in the descriptor queue and one in the event queue.
Committing ==
  /\ context_done # NoContext => commit_events = <<>>
  /\ context_done # NoContext /\ ~context_done.final =>
       /\ Owned(context_done.wr_bank, context_done.id)
       /\ written[context_done.wr_bank] = expected[context_done.wr_bank]
       /\ ~writer_done[context_done.wr_bank]
  /\ commit_events # <<>> =>
       LET e == Head(commit_events)
       IN /\ Len(commit_events) = 1 /\ Owned(e.bank, e.id)
          /\ written[e.bank] = expected[e.bank] /\ ~writer_done[e.bank]
  /\ \A b \in Banks :
       allocated[b] /\ written[b] = expected[b] =>
         writer_done[b] \/ CompletedIn(b) \/ CommittedBy(b)

\* What is written of the issued context, and of the one it reads.
IssueWords ==
  IF collecting = <<>> THEN issue.pixels
  ELSE IF Len(collecting) = 1 THEN collected ELSE 0
ParentWords ==
  IF ~ParentWaits THEN issue.pixels
  ELSE IF Len(collecting) = 2 THEN collected ELSE 0

IssueBank ==
  ~issue.final /\ alloc_events = <<>> =>
    LET b == issue.wr_bank
    IN /\ Owned(b, issue.id) /\ expected[b] = issue.pixels
       /\ written[b] = IssueWords
       /\ rd_issue[b] = 0 /\ rd_return[b] = 0 /\ ~reader_done[b]

\* A word that was read comes back on the next edge.
ParentBank ==
  computing /\ ~issue.first =>
    LET b == issue.rd_bank
    IN /\ Owned(b, issue.parent) /\ expected[b] = issue.pixels
       /\ written[b] = ParentWords
       /\ rd_issue[b] = pixel_addr
       /\ rd_return[b] = pixel_addr - (IF pp_rd_valid /\ ~return_q.last THEN 1 ELSE 0)
       /\ ~reader_done[b]

Returning ==
  pp_rd_valid /\ ~return_q.last =>
    /\ computing /\ ~issue.first /\ pixel_addr # 0
    /\ return_q.bank = issue.rd_bank /\ return_q.id = issue.parent

\* The last word of a bank comes back: the reader, or the context after it, is
\* issued, and has read nothing.
LastReturning ==
  pp_rd_valid /\ return_q.last =>
    LET b == return_q.bank
    IN /\ Owned(b, return_q.id) /\ written[b] = expected[b]
       /\ rd_issue[b] = expected[b] /\ rd_return[b] + 1 = expected[b]
       /\ ~CompletedIn(b) /\ release_events = <<>>
       /\ issue.id \in {Succ(return_q.id), Succ(Succ(return_q.id))}
       /\ computing => pixel_addr = 0 /\ (issue.first \/ ParentWaits)

\* All words of a bank came back: nothing is left of its owner.
Releasing ==
  release_events # <<>> =>
    LET e == Head(release_events)
    IN /\ Len(release_events) = 1 /\ Owned(e.bank, e.id)
       /\ written[e.bank] = expected[e.bank] /\ rd_issue[e.bank] = expected[e.bank]
       /\ rd_return[e.bank] = expected[e.bank]
       /\ writer_done[e.bank] /\ reader_done[e.bank]
       /\ issue.id \in {Succ(e.id), Succ(Succ(e.id)), Succ(Succ(Succ(e.id)))}

\* No bank is lost: each one that is allocated is the issued context's, its
\* parent's, or on the way back.
Accounted ==
  \A b \in Banks :
    allocated[b] =>
      \/ ~issue.final /\ alloc_events = <<>> /\ b = issue.wr_bank
      \/ computing /\ ~issue.first /\ b = issue.rd_bank
      \/ pp_rd_valid /\ return_q.last /\ b = return_q.bank
      \/ release_events # <<>> /\ b = Head(release_events).bank

LoopInv ==
  /\ LoopTyped /\ Lineage /\ Queued /\ Permitted
  /\ \A b \in Banks : CountsOf(b)
  /\ Committing /\ IssueBank /\ ParentBank
  /\ Returning /\ LastReturning /\ Releasing /\ Accounted
  /\ TokensExact /\ NothingRefused

-----------------------------------------------------------------------------
(* Ids and sums                                                            *)

LEMMA Wraps ==
  ASSUME NEW id \in Context
  PROVE  Succ(id) \in Context /\ (id + 1) % IdMod = Succ(id)
<1>1. IdMod \in Nat /\ IdMod >= 5 /\ id \in 0 .. IdMod - 1
  BY IdAssumption
<1>2. CASE id = IdMod - 1
  BY <1>1, <1>2, IdAssumption DEF Succ
<1>3. CASE id # IdMod - 1
  <2>1. id + 1 \in 0 .. IdMod - 1
    BY <1>1, <1>3
  <2>2. (id + 1) % IdMod = id + 1
    BY <1>1, <2>1
  <2> QED
    BY <1>3, <2>1, <2>2, IdAssumption DEF Succ
<1> QED
  BY <1>2, <1>3

LEMMA Successors ==
  ASSUME NEW id \in Context
  PROVE  /\ id # Succ(id) /\ id # Succ(Succ(id)) /\ id # Succ(Succ(Succ(id)))
         /\ id # Succ(Succ(Succ(Succ(id))))
  BY IdAssumption DEF Succ

LEMMA NoContextId == NoContext \notin Descriptor
<1>1. NoContext.id \notin Context
  BY IdAssumption DEF NoContext
<1> QED
  BY <1>1 DEF Descriptor

LEMMA Zero == 0 \in Banks /\ 0 \in Context /\ 1 \in Context
  BY IdAssumption DEF Banks

LEMMA SumsEmpty ==
  ASSUME NEW total, Sums(<<>>, total)
  PROVE  total = 0
  BY DEF Sums

LEMMA SumsNone == Sums(<<>>, 0)
<1> DEFINE S == [k \in 0 .. 0 |-> 0]
<1>1. S \in [0 .. Len(<<>>) -> Nat] /\ S[0] = 0 /\ S[Len(<<>>)] = 0
  OBVIOUS
<1>2. \A k \in 1 .. Len(<<>>) : S[k - 1] = S[k] + <<>>[k].pixels
  OBVIOUS
<1> HIDE DEF S
<1> QED
  BY <1>1, <1>2 DEF Sums

\* The first context leaves.
LEMMA SumsTail ==
  ASSUME NEW q \in Seq(Descriptor), q # <<>>, NEW total, Sums(q, total)
  PROVE  /\ total \in Nat /\ total >= Head(q).pixels
         /\ Sums(Tail(q), total - Head(q).pixels)
<1> PICK S \in [0 .. Len(q) -> Nat] :
      /\ S[0] = total /\ S[Len(q)] = 0
      /\ \A k \in 1 .. Len(q) : S[k - 1] = S[k] + q[k].pixels
  BY DEF Sums
<1>1. /\ Len(q) \in Nat /\ Len(q) >= 1 /\ Head(q) = q[1]
      /\ Tail(q) \in Seq(Descriptor) /\ Len(Tail(q)) = Len(q) - 1
      /\ \A k \in 1 .. Len(q) - 1 : Tail(q)[k] = q[k + 1]
      /\ \A k \in 1 .. Len(q) : q[k] \in Descriptor
  OBVIOUS
<1>2. q[1].pixels \in Nat
  BY <1>1 DEF Descriptor
<1>3. total = S[1] + q[1].pixels /\ total \in Nat /\ S[1] \in Nat
  BY <1>1
<1> DEFINE f == [k \in 0 .. Len(q) - 1 |-> S[k + 1]]
<1>4. /\ f \in [0 .. Len(q) - 1 -> Nat] /\ f[0] = S[1] /\ f[Len(q) - 1] = 0
      /\ \A k \in 0 .. Len(q) - 1 : f[k] = S[k + 1]
  BY <1>1
<1> HIDE DEF f
<1>5. ASSUME NEW k \in 1 .. Len(Tail(q))
      PROVE  f[k - 1] = f[k] + Tail(q)[k].pixels
  <2>1. k \in 1 .. Len(q) - 1 /\ k + 1 \in 1 .. Len(q) /\ k - 1 \in 0 .. Len(q) - 1
    BY <1>1
  <2>2. S[k] = S[k + 1] + q[k + 1].pixels
    BY <2>1, <1>1
  <2>3. f[k - 1] = S[k] /\ f[k] = S[k + 1] /\ Tail(q)[k] = q[k + 1]
    BY <2>1, <1>1, <1>4
  <2> QED
    BY <2>2, <2>3
<1>6. f \in [0 .. Len(Tail(q)) -> Nat] /\ f[0] = S[1] /\ f[Len(Tail(q))] = 0
  BY <1>1, <1>4
<1>7. Sums(Tail(q), S[1])
  BY <1>5, <1>6 DEF Sums
<1>8. S[1] = total - Head(q).pixels /\ total >= Head(q).pixels
  BY <1>1, <1>2, <1>3
<1> QED
  BY <1>3, <1>7, <1>8

\* A context is put behind the others.
LEMMA SumsAppend ==
  ASSUME NEW q \in Seq(Descriptor), NEW total, Sums(q, total),
         NEW c \in Descriptor
  PROVE  Sums(q \o <<c>>, total + c.pixels)
<1> PICK S \in [0 .. Len(q) -> Nat] :
      /\ S[0] = total /\ S[Len(q)] = 0
      /\ \A k \in 1 .. Len(q) : S[k - 1] = S[k] + q[k].pixels
  BY DEF Sums
<1> DEFINE p == c.pixels
           r == q \o <<c>>
           f == [k \in 0 .. Len(q) + 1 |-> IF k = Len(q) + 1 THEN 0 ELSE S[k] + p]
<1>1. /\ Len(q) \in Nat /\ Len(r) = Len(q) + 1
      /\ \A k \in 1 .. Len(q) : r[k] = q[k]
      /\ r[Len(q) + 1] = c
      /\ \A k \in 1 .. Len(q) : q[k] \in Descriptor
  OBVIOUS
<1>2. p \in Nat /\ \A k \in 1 .. Len(q) : q[k].pixels \in Nat
  BY <1>1 DEF Descriptor
<1>3. r[Len(q) + 1].pixels = p /\ \A k \in 1 .. Len(q) : r[k].pixels = q[k].pixels
  BY <1>1
<1> HIDE DEF p, r
<1>4. /\ f \in [0 .. Len(q) + 1 -> Nat] /\ f[0] = total + p /\ f[Len(q) + 1] = 0
      /\ \A k \in 0 .. Len(q) : f[k] = S[k] + p
  BY <1>1, <1>2
<1> HIDE DEF f
<1>5. ASSUME NEW k \in 1 .. Len(q) + 1
      PROVE  f[k - 1] = f[k] + r[k].pixels
  <2>1. CASE k = Len(q) + 1
    BY <1>1, <1>2, <1>3, <1>4, <2>1
  <2>2. CASE k # Len(q) + 1
    <3>1. k \in 1 .. Len(q) /\ k - 1 \in 0 .. Len(q) /\ k \in 0 .. Len(q)
      BY <1>1, <2>2
    <3>2. /\ f[k - 1] = S[k - 1] + p /\ f[k] = S[k] + p
          /\ S[k - 1] = S[k] + q[k].pixels /\ r[k].pixels = q[k].pixels
      BY <1>3, <1>4, <3>1
    <3>3. S[k] \in Nat /\ q[k].pixels \in Nat
      BY <1>2, <3>1
    <3> QED
      BY <1>2, <3>2, <3>3
  <2> QED
    BY <2>1, <2>2
<1>6. Sums(r, total + p)
  BY <1>1, <1>4, <1>5 DEF Sums
<1> QED
  BY <1>6 DEF r, p

-----------------------------------------------------------------------------
(* What a fire, a packet and a start tell                                  *)

Admits(in) == context_admit_fire(in, compute_fire(in))
Req(in) == Traffic(in, compute_fire(in))

LEMMA Going ==
  ASSUME LoopInv
  PROVE  ~fail_stop /\ ~Stopped
  BY DEF LoopInv, NothingRefused, fail_stop, Stopped

LEMMA IssueTypes ==
  ASSUME LoopInv
  PROVE  /\ issue.rd_bank \in Banks /\ issue.wr_bank \in Banks
         /\ issue.rd_bank # issue.wr_bank
         /\ issue.pixels \in Nat \ {0} /\ issue.parent \in Context
         /\ issue.first \in BOOLEAN /\ issue.final \in BOOLEAN
         /\ pixel_addr \in Nat
<1>1. issue \in Descriptor \/ issue = NoContext
  BY DEF LoopInv, LoopTyped
<1>2. issue.rd_bank = 1 - issue.wr_bank /\ pixel_addr \in Nat
  BY DEF LoopInv, Lineage, LoopTyped
<1>3. CASE issue \in Descriptor
  BY <1>2, <1>3 DEF Descriptor, Banks
<1>4. CASE issue = NoContext
  BY <1>2, <1>4, Zero DEF NoContext, Banks
<1> QED
  BY <1>1, <1>3, <1>4

LEMMA ComputingFacts ==
  ASSUME LoopInv, computing
  PROVE  /\ issue_context_active_q /\ issue \in Descriptor /\ issue # NoContext
         /\ pixel_addr < issue.pixels /\ collecting # <<>>
         /\ collecting[Len(collecting)] = issue
         /\ ~RetiresIssue
<1>1. collecting # <<>> /\ collecting[Len(collecting)] = issue /\ issue # NoContext
  BY DEF LoopInv, Queued
<1>2. issue \in Descriptor
  BY <1>1 DEF LoopInv, LoopTyped
<1> QED
  BY <1>1, <1>2 DEF LoopInv, Lineage, RetiresIssue

LEMMA FireFacts ==
  ASSUME LoopInv, NEW in, compute_fire(in)
  PROVE  /\ computing /\ alloc_events = <<>>
         /\ ~issue.first =>
              /\ rd_issue[issue.rd_bank] < written[issue.rd_bank]
              /\ psum_score_rd_last => HasRoom(release_events)
<1>1. computing /\ tagged_context_admission_ready /\ psum_stream_compute_ready
  BY DEF compute_fire
<1>2. alloc_events = <<>>
  BY <1>1 DEF LoopInv, Permitted, tagged_context_admission_ready
<1>3. ASSUME ~issue.first
      PROVE  /\ rd_issue[issue.rd_bank] < written[issue.rd_bank]
             /\ psum_score_rd_last => HasRoom(release_events)
  <2>1. psum_score_ext_mode
    BY <1>1, <1>3, ComputingFacts DEF psum_score_ext_mode
  <2>2. rd_credit_q[issue.rd_bank] /\ (psum_score_rd_last => HasRoom(release_events))
    BY <1>1, <2>1 DEF psum_stream_compute_ready
  <2>3. rd_credit_q[issue.rd_bank] <=> written[issue.rd_bank] > rd_issue[issue.rd_bank]
    BY IssueTypes DEF LoopInv, TokensExact
  <2>4. /\ rd_issue[issue.rd_bank] \in Nat /\ written[issue.rd_bank] \in Nat
    BY IssueTypes DEF LoopInv, LoopTyped
  <2> QED
    BY <2>2, <2>3, <2>4
<1> QED
  BY <1>1, <1>2, <1>3

LEMMA AdmitFacts ==
  ASSUME LoopInv, NEW in, Admits(in)
  PROVE  /\ ~computing \/ (compute_fire(in) /\ psum_score_rd_last)
         /\ alloc_events = <<>>
         /\ Prepared.final \/ HasRoom(alloc_events)
<1>1. ~computing \/ (compute_fire(in) /\ psum_score_rd_last)
  BY DEF Admits, context_admit_fire
<1>2. alloc_events = <<>>
  BY <1>1, FireFacts DEF LoopInv, Permitted
<1> QED
  BY <1>1, <1>2 DEF Admits, context_admit_fire, tagged_context_start_ready

LEMMA PreparedTypes ==
  ASSUME LoopInv
  PROVE  /\ Prepared \in Descriptor /\ Prepared # NoContext
         /\ Prepared.id = next_context_id_q /\ Prepared.wr_bank = pass % 2
         /\ Prepared.rd_bank = 1 - Prepared.wr_bank
         /\ Prepared.first <=> pass = 0
         /\ Prepared.final <=> pass = chain.passes - 1
         /\ Prepared.pixels = chain.pixels
         /\ pass # 0 => /\ Prepared.parent = issue.id /\ Prepared.pixels = issue.pixels
                        /\ Prepared.rd_bank = issue.wr_bank
                        /\ Succ(issue.id) = Prepared.id /\ ~issue.final
                        /\ issue \in Descriptor /\ issue # NoContext
<1>1. /\ chain.pixels \in Nat \ {0} /\ chain.passes \in Nat \ {0}
      /\ pass \in 0 .. chain.passes - 1 /\ next_context_id_q \in Context
  BY ChainsAssumption DEF LoopInv, LoopTyped
<1>2. pass % 2 \in Banks /\ 1 - (pass % 2) \in Banks
  BY <1>1 DEF Banks
<1>3. /\ Prepared.id = next_context_id_q /\ Prepared.wr_bank = pass % 2
      /\ Prepared.rd_bank = 1 - (pass % 2)
      /\ Prepared.first = (pass = 0) /\ Prepared.final = (pass = chain.passes - 1)
      /\ Prepared.pixels = chain.pixels
      /\ Prepared.parent = IF pass = 0 THEN 0 ELSE chain_parent.id
  BY DEF Prepared
<1>4. ASSUME pass # 0
      PROVE  /\ Prepared.parent = issue.id /\ Prepared.pixels = issue.pixels
             /\ Prepared.rd_bank = issue.wr_bank
             /\ Succ(issue.id) = Prepared.id /\ ~issue.final
             /\ issue \in Descriptor /\ issue # NoContext
  <2>1. /\ ~issue.final /\ issue # NoContext /\ chain_parent = issue
        /\ issue.wr_bank = 1 - (pass % 2) /\ issue.pixels = chain.pixels
    BY <1>4 DEF LoopInv, Lineage
  <2>2. issue \in Descriptor /\ Succ(issue.id) = next_context_id_q
    BY <2>1 DEF LoopInv, LoopTyped, Lineage
  <2> QED
    BY <1>3, <1>4, <2>1, <2>2
<1>5. Prepared.parent \in Context
  BY <1>3, <1>4, Zero DEF Descriptor
<1>6. Prepared \in Descriptor
  BY <1>1, <1>2, <1>3, <1>5 DEF Descriptor, Prepared
<1>7. Prepared # NoContext
  BY <1>6, NoContextId
<1> QED
  BY <1>3, <1>4, <1>6, <1>7

LEMMA CollectTypes ==
  ASSUME LoopInv, collecting # <<>>
  PROVE  /\ collecting \in Seq(Descriptor) /\ Len(collecting) \in Nat \ {0}
         /\ Head(collecting) = collecting[1] /\ Head(collecting) \in Descriptor
         /\ Head(collecting).pixels \in Nat \ {0}
         /\ collected \in Nat /\ collected < Head(collecting).pixels
<1>1. collecting \in Seq(Descriptor)
  BY DEF LoopInv, LoopTyped
<1>2. Head(collecting) = collecting[1] /\ Head(collecting) \in Descriptor
  BY <1>1
<1> QED
  BY <1>1, <1>2 DEF LoopInv, LoopTyped, Queued, Descriptor

\* Of the only context that is collected, each pixel is fired, in flight or
\* collected.
LEMMA OneLeft ==
  ASSUME LoopInv, Len(collecting) = 1
  PROVE  /\ Head(collecting) = issue
         /\ in_flight + collected + Rest = issue.pixels
<1>1. collecting \in Seq(Descriptor) /\ collecting # <<>>
  <2>1. collecting \in Seq(Descriptor)
    BY DEF LoopInv, LoopTyped
  <2> QED
    BY <2>1
<1>2. Head(collecting) = issue
  BY <1>1, CollectTypes DEF LoopInv, Queued
<1>3. Sums(collecting, in_flight + collected + Rest)
  BY DEF LoopInv, Queued
<1>4. Tail(collecting) = <<>>
  <2>1. Tail(collecting) \in Seq(Descriptor) /\ Len(Tail(collecting)) = 0
    BY <1>1
  <2> QED
    BY <2>1, EmptySeq
<1> DEFINE total == in_flight + collected + Rest
<1> HIDE DEF total
<1>5. total \in Nat /\ Sums(<<>>, total - issue.pixels)
  BY <1>1, <1>2, <1>3, <1>4, SumsTail DEF total
<1>6. total - issue.pixels = 0
  BY <1>5, SumsEmpty
<1> QED
  BY <1>2, <1>5, <1>6, IssueTypes DEF total

LEMMA RestType ==
  ASSUME LoopInv
  PROVE  Rest \in Nat
  BY IssueTypes, ComputingFacts DEF Rest

\* A packet belongs to the first context, which has its bank.
LEMMA PacketFacts ==
  ASSUME LoopInv, NEW in, packet_valid(in)
  PROVE  /\ collecting # <<>> /\ context_done = NoContext
         /\ packet_descriptor_match /\ in_flight \in Nat \ {0}
         /\ Len(collecting) = 1 /\ computing => pixel_addr # 0 /\ ~LastPacket
         /\ ~PacketContext.final =>
              LET b == PacketContext.wr_bank
              IN /\ b \in Banks /\ Owned(b, PacketContext.id)
                 /\ expected[b] = PacketContext.pixels
                 /\ written[b] = collected
                 /\ \/ /\ Len(collecting) = 1 /\ b = issue.wr_bank /\ ~issue.final
                    \/ /\ Len(collecting) = 2 /\ b = issue.rd_bank /\ computing
                       /\ ~issue.first /\ ParentWaits
<1>1. in_flight \in Nat \ {0} /\ context_done = NoContext
  BY DEF packet_valid, LoopInv, LoopTyped
<1>2. collecting # <<>>
  <2> SUFFICES ASSUME collecting = <<>> PROVE FALSE
    OBVIOUS
  <2>1. Sums(<<>>, in_flight + collected + Rest)
    BY DEF LoopInv, Queued
  <2>2. in_flight + collected + Rest = 0
    BY <2>1, SumsEmpty
  <2> QED
    BY <1>1, <2>2, RestType DEF LoopInv, LoopTyped
<1>3. packet_descriptor_match
  <2>1. context_descs = <<>> \o collecting /\ collecting \in Seq(Descriptor)
    BY <1>1 DEF LoopInv, Queued, LoopTyped
  <2> QED
    BY <1>2, <2>1 DEF packet_descriptor_match, PacketContext
<1>4. ASSUME Len(collecting) = 1, computing
      PROVE  pixel_addr # 0 /\ ~LastPacket
  <2>1. /\ in_flight + collected + (issue.pixels - pixel_addr) = issue.pixels
        /\ Head(collecting) = issue
    BY <1>4, OneLeft DEF Rest
  <2>2. in_flight \in Nat \ {0} /\ collected \in Nat /\ pixel_addr < issue.pixels
    BY <1>1, <1>4, ComputingFacts DEF LoopInv, LoopTyped
  <2> QED
    BY <2>1, <2>2, IssueTypes DEF LastPacket, PacketContext
<1>5. ASSUME ~PacketContext.final, Len(collecting) = 1
      PROVE  LET b == PacketContext.wr_bank
             IN /\ b \in Banks /\ Owned(b, PacketContext.id)
                /\ expected[b] = PacketContext.pixels
                /\ written[b] = collected
                /\ b = issue.wr_bank /\ ~issue.final
  <2>1. PacketContext = issue
    BY <1>5, OneLeft DEF PacketContext
  <2>2. alloc_events = <<>>
    BY <1>4, <1>5 DEF LoopInv, Permitted
  <2>3. ~issue.final
    BY <1>5, <2>1
  <2>4. /\ Owned(issue.wr_bank, issue.id) /\ expected[issue.wr_bank] = issue.pixels
        /\ written[issue.wr_bank] = collected
    BY <1>2, <1>5, <2>2, <2>3 DEF LoopInv, IssueBank, IssueWords
  <2> QED
    BY <2>1, <2>3, <2>4, IssueTypes
<1>6. ASSUME ~PacketContext.final, Len(collecting) # 1
      PROVE  LET b == PacketContext.wr_bank
             IN /\ b \in Banks /\ Owned(b, PacketContext.id)
                /\ expected[b] = PacketContext.pixels
                /\ written[b] = collected
                /\ Len(collecting) = 2 /\ b = issue.rd_bank /\ computing
                /\ ~issue.first /\ ParentWaits
  <2>1. PacketContext = collecting[1] /\ Len(collecting) \in Nat /\ Len(collecting) >= 2
    <3>1. Head(collecting) = collecting[1] /\ Len(collecting) \in Nat \ {0}
      BY <1>2, CollectTypes
    <3>2. Len(collecting) # 1
      BY <1>6
    <3>3. Len(collecting) >= 2
      BY <3>1, <3>2
    <3> QED
      BY <3>1, <3>3 DEF PacketContext
  <2>2. Len(collecting) = 2
    <3>1. \A k \in 1 .. Len(collecting) - 2 : collecting[k].final
      BY DEF LoopInv, Queued
    <3>2. ~collecting[1].final
      BY <1>6, <2>1
    <3>3. 1 \notin 1 .. Len(collecting) - 2
      BY <3>1, <3>2
    <3> QED
      BY <2>1, <3>3
  <2>3. ParentWaits
    BY <1>6, <2>1, <2>2 DEF ParentWaits
  <2>4. /\ computing /\ ~issue.first /\ PacketContext.id = issue.parent
        /\ PacketContext.wr_bank = issue.rd_bank
        /\ PacketContext.pixels = issue.pixels
    BY <2>1, <2>2, <2>3 DEF LoopInv, Queued
  <2>5. /\ Owned(issue.rd_bank, issue.parent) /\ expected[issue.rd_bank] = issue.pixels
        /\ written[issue.rd_bank] = collected
    BY <2>2, <2>3, <2>4 DEF LoopInv, ParentBank, ParentWords
  <2> QED
    BY <2>2, <2>3, <2>4, <2>5, IssueTypes
<1> QED
  BY <1>1, <1>2, <1>3, <1>4, <1>5, <1>6

-----------------------------------------------------------------------------
(* The six ports: whatever is asked for is granted, but for an allocation   *)
(* that has to wait.                                                       *)

LEMMA AllocPortFacts ==
  ASSUME LoopInv, NEW in
  PROVE  /\ Req(in).alloc = AllocRequest
         /\ AllocRequest.valid <=> alloc_events # <<>>
         /\ alloc_events # <<>> =>
              /\ AllocRequest.bank = issue.wr_bank
              /\ AllocRequest.epoch = EpochOf(issue.id)
              /\ AllocRequest.context = issue.id
              /\ AllocRequest.expected = issue.pixels
<1>1. Req(in).alloc = AllocRequest
  BY DEF Req, Traffic
<1>2. AllocRequest.valid <=> alloc_events # <<>>
  BY DEF AllocRequest
<1>3. ASSUME alloc_events # <<>>
      PROVE  /\ AllocRequest.bank = issue.wr_bank
             /\ AllocRequest.epoch = EpochOf(issue.id)
             /\ AllocRequest.context = issue.id
             /\ AllocRequest.expected = issue.pixels
  <2>1. Head(alloc_events) = [bank |-> issue.wr_bank, id |-> issue.id,
                              pixels |-> issue.pixels]
    BY <1>3 DEF LoopInv, Permitted
  <2> QED
    BY <1>3, <2>1 DEF AllocRequest
<1> QED
  BY <1>1, <1>2, <1>3

LEMMA WritePortFacts ==
  ASSUME LoopInv, NEW in
  PROVE  LET p == Req(in).wr
         IN /\ p.valid <=> packet_pop(in) /\ ~PacketContext.final
            /\ p.valid => /\ packet_valid(in) /\ IdentityOk(p) /\ WriteReady(p)
                          /\ p.bank = PacketContext.wr_bank /\ p.bank \in Banks
                          /\ p.addr = collected /\ p.addr = written[p.bank]
<1> DEFINE p == WriteRequest(in)
<1>1. Req(in).wr = p
  BY DEF Req, Traffic
<1>2. p.valid <=> packet_valid(in) /\ ~PacketContext.final /\ WriteSideReady
  BY DEF WriteRequest
<1>3. ASSUME p.valid
      PROVE  /\ packet_valid(in) /\ IdentityOk(p) /\ WriteReady(p)
             /\ p.bank = PacketContext.wr_bank /\ p.bank \in Banks
             /\ p.addr = collected /\ p.addr = written[p.bank]
  <2>1. packet_valid(in) /\ ~PacketContext.final
    BY <1>2, <1>3
  <2>2. /\ p.bank = PacketContext.wr_bank /\ p.context = PacketContext.id
        /\ p.epoch = EpochOf(PacketContext.id) /\ p.addr = collected
    BY <1>2, <1>3 DEF WriteRequest
  <2>3. /\ p.bank \in Banks /\ Owned(p.bank, PacketContext.id)
        /\ expected[p.bank] = PacketContext.pixels /\ written[p.bank] = collected
    BY <2>1, <2>2, PacketFacts
  <2>4. collected \in Nat /\ collected < PacketContext.pixels
        /\ PacketContext.pixels \in Nat
    BY <2>1, PacketFacts, CollectTypes DEF PacketContext
  <2>5. /\ expected[p.bank] <= DEPTH /\ ~writer_done[p.bank]
    BY <2>3, <2>4 DEF LoopInv, CountsOf, Owned
  <2>6. IdentityOk(p)
    BY <2>2, <2>3 DEF IdentityOk, EpochOk, ContextOk, Owned
  <2>7. p.addr < DEPTH /\ written[p.bank] < expected[p.bank]
    BY <2>2, <2>3, <2>4, <2>5, SizeAssumption
  <2>8. WriteReady(p)
    BY <2>2, <2>3, <2>5, <2>6, <2>7, Going DEF WriteReady
  <2> QED
    BY <2>1, <2>2, <2>3, <2>6, <2>8
<1>4. p.valid <=> packet_pop(in) /\ ~PacketContext.final
  BY <1>2, <1>3, PacketFacts DEF packet_pop
<1> QED
  BY <1>1, <1>3, <1>4

LEMMA CommitPortFacts ==
  ASSUME LoopInv, NEW in
  PROVE  LET p == Req(in).commit
         IN /\ p.valid <=> commit_events # <<>>
            /\ p.valid => /\ IdentityOk(p) /\ CommitReady(p)
                          /\ p.bank = Head(commit_events).bank /\ p.bank \in Banks
<1> DEFINE p == EventOf(commit_events)
           e == Head(commit_events)
<1>1. Req(in).commit = p
  BY DEF Req, Traffic
<1>2. p.valid <=> commit_events # <<>>
  BY DEF EventOf
<1>3. ASSUME commit_events # <<>>
      PROVE  /\ IdentityOk(p) /\ CommitReady(p) /\ p.bank = e.bank /\ p.bank \in Banks
  <2>1. p.bank = e.bank /\ p.epoch = EpochOf(e.id) /\ p.context = e.id
    BY <1>3 DEF EventOf
  <2>2. e \in Event
    BY <1>3 DEF LoopInv, LoopTyped
  <2>3. /\ Owned(e.bank, e.id) /\ written[e.bank] = expected[e.bank]
        /\ ~writer_done[e.bank]
    BY <1>3 DEF LoopInv, Committing
  <2>4. IdentityOk(p)
    BY <2>1, <2>3 DEF IdentityOk, EpochOk, ContextOk, Owned
  <2> QED
    BY <2>1, <2>2, <2>3, <2>4, Going DEF CommitReady, Event
<1> QED
  BY <1>1, <1>2, <1>3

LEMMA ReadPortFacts ==
  ASSUME LoopInv, NEW in
  PROVE  LET p == Req(in).rd
         IN /\ p.valid <=> compute_fire(in) /\ ~issue.first
            /\ p.bank = issue.rd_bank /\ p.addr = pixel_addr
            /\ p.valid => /\ IdentityOk(p) /\ ReadReady(p)
                          /\ p.addr = rd_issue[p.bank] /\ p.bank \in Banks
                          /\ rd_issue[p.bank] < written[p.bank]
                          /\ p.last <=> ReadShouldBeLast(p)
<1> DEFINE p == ReadRequest(compute_fire(in))
<1>1. Req(in).rd = p
  BY DEF Req, Traffic
<1>2. p.valid <=> compute_fire(in) /\ ~issue.first
  BY FireFacts DEF ReadRequest
<1>3. /\ p.bank = issue.rd_bank /\ p.addr = pixel_addr /\ p.context = issue.parent
      /\ p.epoch = EpochOf(issue.parent) /\ (p.last <=> psum_score_rd_last)
  BY DEF ReadRequest
<1>4. ASSUME compute_fire(in), ~issue.first
      PROVE  /\ IdentityOk(p) /\ ReadReady(p)
             /\ p.addr = rd_issue[p.bank] /\ p.bank \in Banks
             /\ rd_issue[p.bank] < written[p.bank]
             /\ p.last <=> ReadShouldBeLast(p)
  <2>1. computing
    BY <1>4, FireFacts
  <2>2. /\ Owned(issue.rd_bank, issue.parent) /\ expected[issue.rd_bank] = issue.pixels
        /\ rd_issue[issue.rd_bank] = pixel_addr
    BY <1>4, <2>1 DEF LoopInv, ParentBank
  <2>3. rd_issue[issue.rd_bank] < written[issue.rd_bank]
    BY <1>4, FireFacts
  <2>4. pixel_addr < issue.pixels /\ issue.pixels <= DEPTH
        /\ issue.rd_bank \in Banks /\ pixel_addr \in Nat /\ issue.pixels \in Nat
    BY <2>1, <2>2, IssueTypes, ComputingFacts DEF LoopInv, CountsOf, Owned
  <2>5. IdentityOk(p)
    BY <1>3, <2>2 DEF IdentityOk, EpochOk, ContextOk, Owned
  <2>6. ReadReady(p)
    <3>1. p.addr < DEPTH /\ rd_issue[p.bank] < expected[p.bank]
      BY <1>3, <2>2, <2>4, SizeAssumption
    <3> QED
      BY <1>3, <2>2, <2>3, <2>5, <3>1, Going DEF ReadReady
  <2>7. p.last <=> ReadShouldBeLast(p)
    <3>1. ReadShouldBeLast(p) <=> pixel_addr + 1 = issue.pixels
      BY <1>3, <2>2 DEF ReadShouldBeLast
    <3>2. psum_score_rd_last <=> pixel_addr + 1 = issue.pixels
      BY <2>4 DEF psum_score_rd_last
    <3> QED
      BY <1>3, <3>1, <3>2
  <2> QED
    BY <1>3, <2>2, <2>3, <2>4, <2>5, <2>6, <2>7
<1> QED
  BY <1>1, <1>2, <1>3, <1>4

LEMMA ReturnPortFacts ==
  ASSUME LoopInv, NEW in
  PROVE  LET p == Req(in).return
         IN /\ p.valid <=> pp_rd_valid
            /\ p.bank = return_q.bank /\ p.last = return_q.last
            /\ p.valid => /\ IdentityOk(p) /\ ReturnReady(p) /\ p.bank \in Banks
                          /\ p.last <=> ReturnShouldBeLast(p)
<1> DEFINE p == ReturnRequest
           b == return_q.bank
<1>1. Req(in).return = p
  BY DEF Req, Traffic
<1>2. /\ p.valid <=> pp_rd_valid
      /\ p.bank = b /\ p.context = return_q.id
      /\ p.epoch = EpochOf(return_q.id) /\ p.last = return_q.last
  BY DEF ReturnRequest
<1>3. ASSUME pp_rd_valid
      PROVE  /\ IdentityOk(p) /\ ReturnReady(p) /\ p.bank \in Banks
             /\ p.last <=> ReturnShouldBeLast(p)
  <2>1. b \in Banks /\ return_q.last \in BOOLEAN
    BY DEF LoopInv, LoopTyped
  <2>2. rd_return[b] \in Nat /\ rd_issue[b] \in Nat /\ expected[b] \in Nat
    BY <2>1 DEF LoopInv, LoopTyped
  <2>3. /\ Owned(b, return_q.id) /\ rd_issue[b] = rd_return[b] + 1
        /\ rd_return[b] + 1 <= expected[b]
        /\ return_q.last <=> rd_return[b] + 1 = expected[b]
    <3>1. CASE return_q.last
      BY <1>3, <2>2, <3>1 DEF LoopInv, LastReturning
    <3>2. CASE ~return_q.last
      <4>1. /\ computing /\ ~issue.first /\ pixel_addr # 0
            /\ b = issue.rd_bank /\ return_q.id = issue.parent
        BY <1>3, <3>2 DEF LoopInv, Returning
      <4>2. /\ Owned(b, return_q.id) /\ rd_issue[b] = pixel_addr
            /\ rd_return[b] = pixel_addr - 1 /\ expected[b] = issue.pixels
        BY <1>3, <3>2, <4>1 DEF LoopInv, ParentBank
      <4>3. pixel_addr < issue.pixels
        BY <4>1, ComputingFacts
      <4> QED
        BY <3>2, <4>1, <4>2, <4>3, IssueTypes
    <3> QED
      BY <3>1, <3>2
  <2>4. IdentityOk(p)
    BY <1>2, <2>3 DEF IdentityOk, EpochOk, ContextOk, Owned
  <2>5. ReturnReady(p)
    <3>1. Outstanding(b) # 0 /\ rd_return[b] < expected[b]
      BY <2>2, <2>3 DEF Outstanding
    <3> QED
      BY <1>2, <2>4, <3>1, Going DEF ReturnReady
  <2>6. p.last <=> ReturnShouldBeLast(p)
    BY <1>2, <2>3 DEF ReturnShouldBeLast
  <2> QED
    BY <1>2, <2>1, <2>4, <2>5, <2>6
<1> QED
  BY <1>1, <1>2, <1>3

LEMMA ReleasePortFacts ==
  ASSUME LoopInv, NEW in
  PROVE  LET p == Req(in).release
         IN /\ p.valid <=> release_events # <<>>
            /\ p.valid => /\ IdentityOk(p) /\ ReleaseReady(p)
                          /\ p.bank = Head(release_events).bank /\ p.bank \in Banks
<1> DEFINE p == EventOf(release_events)
           e == Head(release_events)
<1>1. Req(in).release = p
  BY DEF Req, Traffic
<1>2. p.valid <=> release_events # <<>>
  BY DEF EventOf
<1>3. ASSUME release_events # <<>>
      PROVE  /\ IdentityOk(p) /\ ReleaseReady(p) /\ p.bank = e.bank /\ p.bank \in Banks
  <2>1. p.bank = e.bank /\ p.epoch = EpochOf(e.id) /\ p.context = e.id
    BY <1>3 DEF EventOf
  <2>2. e \in Event
    BY <1>3 DEF LoopInv, LoopTyped
  <2>3. /\ Owned(e.bank, e.id) /\ rd_issue[e.bank] = expected[e.bank]
        /\ rd_return[e.bank] = expected[e.bank]
        /\ writer_done[e.bank] /\ reader_done[e.bank]
    BY <1>3 DEF LoopInv, Releasing
  <2>4. IdentityOk(p)
    BY <2>1, <2>3 DEF IdentityOk, EpochOk, ContextOk, Owned
  <2>5. Outstanding(e.bank) = 0
    <3>1. expected[e.bank] \in Nat
      BY <2>2 DEF LoopInv, LoopTyped, Event
    <3> QED
      BY <2>3, <3>1 DEF Outstanding
  <2> QED
    BY <2>1, <2>2, <2>3, <2>4, <2>5, Going DEF ReleaseReady, Event
<1> QED
  BY <1>1, <1>2, <1>3

\* Nothing the loop drives raises an error.
LEMMA NoErrorRaised ==
  ASSUME LoopInv, NEW in
  PROVE  ErrorsRaised(Req(in)) = {}
<1> DEFINE req == Req(in)
<1> HIDE DEF req
<1>1. ~SameAddressConflict(req)
  <2> SUFFICES ASSUME req.wr.valid, req.rd.valid, req.wr.bank = req.rd.bank,
                      req.wr.addr = req.rd.addr
               PROVE  FALSE
    BY DEF SameAddressConflict
  <2>1. /\ req.wr.addr = written[req.wr.bank]
        /\ req.rd.addr = rd_issue[req.rd.bank] /\ req.rd.bank \in Banks
        /\ rd_issue[req.rd.bank] < written[req.rd.bank]
    BY WritePortFacts, ReadPortFacts DEF req
  <2>2. rd_issue[req.rd.bank] \in Nat /\ written[req.rd.bank] \in Nat
    BY <2>1 DEF LoopInv, LoopTyped
  <2>3. req.wr.addr = written[req.rd.bank] /\ req.wr.addr = rd_issue[req.rd.bank]
    BY <2>1
  <2>4. rd_issue[req.rd.bank] = written[req.rd.bank]
    BY <2>3
  <2> QED
    BY <2>1, <2>2, <2>4
<1>2. \A p \in {req.wr, req.commit, req.rd, req.return, req.release} :
        p.valid => IdentityOk(p)
  BY WritePortFacts, CommitPortFacts, ReadPortFacts, ReturnPortFacts,
     ReleasePortFacts DEF req
<1>3. ~EpochFault(req)
  BY <1>2 DEF EpochFault, IdentityOk
<1>4. ~ContextFault(req)
  <2>1. ~\E p \in {req.wr, req.commit, req.rd, req.return, req.release} :
           p.valid /\ ~ContextOk(p)
    BY <1>2 DEF IdentityOk
  <2>2. ~(req.rd.valid /\ req.rd.last # ReadShouldBeLast(req.rd))
    BY ReadPortFacts DEF req, Req, Traffic, ReadRequest, psum_score_rd_last,
       ReadShouldBeLast
  <2>3. ~(req.return.valid /\ req.return.last # ReturnShouldBeLast(req.return))
    <3>1. req.return.last \in BOOLEAN
      BY ReturnPortFacts DEF req, LoopInv, LoopTyped
    <3> QED
      BY <3>1, ReturnPortFacts DEF req, ReturnShouldBeLast
  <2> QED
    BY <2>1, <2>2, <2>3 DEF ContextFault
<1>5. ~UnderflowFault(req)
  <2>1. req.rd.valid => ReadReady(req.rd)
    BY ReadPortFacts DEF req
  <2>2. req.return.valid => ReturnReady(req.return)
    BY ReturnPortFacts DEF req
  <2>3. ASSUME req.rd.valid
        PROVE  ~(\/ req.rd.addr >= DEPTH \/ req.rd.addr # rd_issue[req.rd.bank]
                 \/ rd_issue[req.rd.bank] >= written[req.rd.bank]
                 \/ rd_issue[req.rd.bank] >= expected[req.rd.bank])
    <3>1. /\ req.rd.addr < DEPTH /\ req.rd.addr = rd_issue[req.rd.bank]
          /\ rd_issue[req.rd.bank] < written[req.rd.bank]
          /\ rd_issue[req.rd.bank] < expected[req.rd.bank]
      BY <2>1, <2>3 DEF ReadReady
    <3>2. req.rd.bank \in Banks
      BY <2>3, ReadPortFacts DEF req
    <3>3. /\ rd_issue[req.rd.bank] \in Nat /\ written[req.rd.bank] \in Nat
          /\ expected[req.rd.bank] \in Nat
      BY <3>2 DEF LoopInv, LoopTyped
    <3> QED
      BY <3>1, <3>3, SizeAssumption
  <2>4. ASSUME req.return.valid
        PROVE  ~(\/ Outstanding(req.return.bank) = 0
                 \/ rd_return[req.return.bank] >= expected[req.return.bank])
    <3>1. Outstanding(req.return.bank) # 0
          /\ rd_return[req.return.bank] < expected[req.return.bank]
      BY <2>2, <2>4 DEF ReturnReady
    <3>2. req.return.bank \in Banks
      BY <2>4, ReturnPortFacts DEF req
    <3>3. rd_return[req.return.bank] \in Nat /\ expected[req.return.bank] \in Nat
      BY <3>2 DEF LoopInv, LoopTyped
    <3> QED
      BY <3>1, <3>3
  <2> QED
    BY <2>3, <2>4 DEF UnderflowFault
<1>6. ~OverwriteFault(req)
  <2> SUFFICES ASSUME req.wr.valid
               PROVE  ~(\/ req.wr.addr >= DEPTH \/ req.wr.addr # written[req.wr.bank]
                        \/ written[req.wr.bank] >= expected[req.wr.bank]
                        \/ writer_done[req.wr.bank])
    BY DEF OverwriteFault
  <2>1. WriteReady(req.wr) /\ req.wr.bank \in Banks
    BY WritePortFacts DEF req
  <2>2. written[req.wr.bank] \in Nat /\ expected[req.wr.bank] \in Nat
    BY <2>1 DEF LoopInv, LoopTyped
  <2> QED
    BY <2>1, <2>2, SizeAssumption DEF WriteReady
<1> QED
  BY <1>1, <1>3, <1>4, <1>5, <1>6 DEF ErrorsRaised, req

-----------------------------------------------------------------------------
(* An edge                                                                 *)

Done(in) == packet_pop(in) /\ LastPacket

LEMMA EdgeParts ==
  ASSUME NEW in, LoopEdge(in)
  PROVE  /\ Edge(Req(in)) /\ IssueEdge(in, Admits(in), compute_fire(in))
         /\ CoreEdge(Admits(in), compute_fire(in))
         /\ QueueEdge(Req(in), Admits(in)) /\ ReadEdge(Req(in))
         /\ CollectEdge(Admits(in), compute_fire(in), packet_pop(in))
  BY DEF LoopEdge, Admits, Req

\* Which transfer an edge is for a bank.
LEMMA Moves ==
  ASSUME LoopInv, NEW in, NEW b \in Banks
  PROVE  /\ Allocates(Req(in), b) =>
              /\ alloc_events # <<>> /\ b = issue.wr_bank /\ ~allocated[b]
              /\ issue.pixels <= DEPTH
         /\ Allocates(Req(in), issue.wr_bank) <=>
              alloc_events # <<>> /\ AllocReady(AllocRequest)
         /\ Writes(Req(in), b) <=>
              packet_pop(in) /\ ~PacketContext.final /\ b = PacketContext.wr_bank
         /\ Commits(Req(in), b) <=>
              commit_events # <<>> /\ b = Head(commit_events).bank
         /\ Reads(Req(in), b) <=>
              compute_fire(in) /\ ~issue.first /\ b = issue.rd_bank
         /\ Returns(Req(in), b) <=> pp_rd_valid /\ b = return_q.bank
         /\ ReturnsLast(Req(in), b) <=>
              pp_rd_valid /\ b = return_q.bank /\ return_q.last
         /\ Releases(Req(in), b) <=>
              release_events # <<>> /\ b = Head(release_events).bank
<1>1. Allocates(Req(in), b) =>
        /\ alloc_events # <<>> /\ b = issue.wr_bank /\ ~allocated[b]
        /\ issue.pixels <= DEPTH
  BY AllocPortFacts DEF Allocates, AllocReady
<1>2. Allocates(Req(in), issue.wr_bank) <=>
        alloc_events # <<>> /\ AllocReady(AllocRequest)
  BY AllocPortFacts DEF Allocates
<1>3. Writes(Req(in), b) <=>
        packet_pop(in) /\ ~PacketContext.final /\ b = PacketContext.wr_bank
  BY WritePortFacts DEF Writes
<1>4. Commits(Req(in), b) <=>
        commit_events # <<>> /\ b = Head(commit_events).bank
  BY CommitPortFacts DEF Commits
<1>5. Reads(Req(in), b) <=>
        compute_fire(in) /\ ~issue.first /\ b = issue.rd_bank
  BY ReadPortFacts DEF Reads
<1>6. Returns(Req(in), b) <=> pp_rd_valid /\ b = return_q.bank
  BY ReturnPortFacts DEF Returns
<1>7. ReturnsLast(Req(in), b) <=>
        pp_rd_valid /\ b = return_q.bank /\ return_q.last
  BY <1>6, ReturnPortFacts DEF ReturnsLast
<1>8. Releases(Req(in), b) <=>
        release_events # <<>> /\ b = Head(release_events).bank
  BY ReleasePortFacts DEF Releases
<1> QED
  BY <1>1, <1>2, <1>3, <1>4, <1>5, <1>6, <1>7, <1>8

\* When a transfer can be.
LEMMA MoveFacts ==
  ASSUME LoopInv, NEW in, NEW b \in Banks
  PROVE  /\ Allocates(Req(in), b) =>
              /\ ~Writes(Req(in), b) /\ ~Commits(Req(in), b) /\ ~Reads(Req(in), b)
              /\ ~Returns(Req(in), b) /\ ~ReturnsLast(Req(in), b)
              /\ ~Releases(Req(in), b)
         /\ Writes(Req(in), b) =>
              /\ allocated[b] /\ written[b] < expected[b] /\ written[b] = collected
              /\ expected[b] = PacketContext.pixels /\ ~writer_done[b]
              /\ Owned(b, PacketContext.id)
              /\ ~Releases(Req(in), b) /\ ~Commits(Req(in), b)
         /\ Commits(Req(in), b) => allocated[b] /\ written[b] = expected[b]
         /\ Reads(Req(in), b) => /\ allocated[b] /\ rd_issue[b] < written[b]
                                 /\ ~Releases(Req(in), b)
         /\ Releases(Req(in), b) =>
              /\ writer_done[b] /\ written[b] = expected[b] /\ allocated[b]
              /\ rd_issue[b] = expected[b] /\ rd_return[b] = expected[b]
<1> DEFINE req == Req(in)
<1> HIDE DEF req
<1>1. Allocates(req, b) => ~allocated[b]
  BY Moves DEF req
<1>2. Writes(req, b) =>
        /\ allocated[b] /\ written[b] < expected[b] /\ written[b] = collected
        /\ expected[b] = PacketContext.pixels /\ ~writer_done[b]
        /\ Owned(b, PacketContext.id)
  <2> SUFFICES ASSUME Writes(req, b)
               PROVE  /\ allocated[b] /\ written[b] < expected[b]
                      /\ written[b] = collected
                      /\ expected[b] = PacketContext.pixels /\ ~writer_done[b]
                      /\ Owned(b, PacketContext.id)
    OBVIOUS
  <2>1. packet_valid(in) /\ ~PacketContext.final /\ b = PacketContext.wr_bank
    BY Moves DEF req, packet_pop
  <2>2. /\ Owned(b, PacketContext.id) /\ expected[b] = PacketContext.pixels
        /\ written[b] = collected
    BY <2>1, PacketFacts
  <2>3. written[b] < expected[b] /\ ~writer_done[b]
    BY DEF Writes, WriteReady
  <2> QED
    BY <2>2, <2>3 DEF Owned
<1>3. Commits(req, b) => allocated[b] /\ written[b] = expected[b]
  BY DEF Commits, CommitReady, IdentityOk, EpochOk
<1>4. Reads(req, b) => allocated[b] /\ rd_issue[b] < written[b]
  BY DEF Reads, ReadReady, IdentityOk, EpochOk
<1>5. Returns(req, b) => allocated[b]
  BY DEF Returns, ReturnReady, IdentityOk, EpochOk
<1>6. Releases(req, b) =>
        /\ writer_done[b] /\ written[b] = expected[b] /\ allocated[b]
        /\ rd_issue[b] = expected[b] /\ rd_return[b] = expected[b]
  BY Moves DEF req, LoopInv, Releasing, Owned
<1>7. /\ written[b] \in Nat /\ expected[b] \in Nat /\ rd_issue[b] \in Nat
  BY DEF LoopInv, LoopTyped
<1>8. ReturnsLast(req, b) => Returns(req, b)
  BY DEF ReturnsLast
<1>9. Writes(req, b) => ~Releases(req, b) /\ ~Commits(req, b)
  BY <1>2, <1>3, <1>6, <1>7
<1>10. Reads(req, b) => ~Releases(req, b)
  BY <1>4, <1>6, <1>7
<1>11. Allocates(req, b) =>
         /\ ~Writes(req, b) /\ ~Commits(req, b) /\ ~Reads(req, b)
         /\ ~Returns(req, b) /\ ~ReturnsLast(req, b) /\ ~Releases(req, b)
  BY <1>1, <1>2, <1>3, <1>4, <1>5, <1>6, <1>8
<1> QED
  BY <1>2, <1>3, <1>4, <1>6, <1>9, <1>10, <1>11 DEF req

\* The registers of a bank that is not given back.
LEMMA BankAfter ==
  ASSUME LoopInv, NEW in, LoopEdge(in), NEW b \in Banks, allocated[b],
         ~Releases(Req(in), b)
  PROVE  /\ allocated'[b] /\ context'[b] = context[b] /\ epoch'[b] = epoch[b]
         /\ expected'[b] = expected[b]
         /\ written'[b] = IF Writes(Req(in), b) THEN written[b] + 1 ELSE written[b]
         /\ rd_issue'[b] = IF Reads(Req(in), b) THEN rd_issue[b] + 1 ELSE rd_issue[b]
         /\ rd_return'[b] = IF Returns(Req(in), b) THEN rd_return[b] + 1
                            ELSE rd_return[b]
         /\ writer_done'[b] <=> Commits(Req(in), b) \/ writer_done[b]
         /\ reader_done'[b] <=> ReturnsLast(Req(in), b) \/ reader_done[b]
<1> DEFINE req == Req(in)
<1> HIDE DEF req
<1>1. ~Allocates(req, b) /\ ~Releases(req, b)
  BY Moves DEF req
<1>2. Edge(req)
  BY EdgeParts DEF req
<1>3. BankEdge(req, b)
  BY <1>2, BankNext
<1>4. context'[b] = context[b] /\ epoch'[b] = epoch[b]
  BY <1>1, <1>2 DEF Edge
<1> QED
  BY <1>1, <1>3, <1>4 DEF BankEdge, req

\* The registers of a bank that is handed out.
LEMMA BankGranted ==
  ASSUME LoopInv, NEW in, LoopEdge(in), NEW b \in Banks, Allocates(Req(in), b)
  PROVE  /\ allocated'[b] /\ context'[b] = issue.id /\ epoch'[b] = EpochOf(issue.id)
         /\ expected'[b] = issue.pixels /\ b = issue.wr_bank
         /\ issue.pixels <= DEPTH /\ alloc_events # <<>>
         /\ written'[b] = 0 /\ rd_issue'[b] = 0 /\ rd_return'[b] = 0
         /\ ~writer_done'[b] /\ ~reader_done'[b]
<1> DEFINE req == Req(in)
<1> HIDE DEF req
<1>1. /\ ~Writes(req, b) /\ ~Commits(req, b) /\ ~Reads(req, b)
      /\ ~Returns(req, b) /\ ~ReturnsLast(req, b) /\ ~Releases(req, b)
      /\ Allocates(req, b)
  BY MoveFacts DEF req
<1>2. Edge(req)
  BY EdgeParts DEF req
<1>3. BankEdge(req, b)
  BY <1>2, BankNext
<1>4. context'[b] = req.alloc.context /\ epoch'[b] = req.alloc.epoch
  BY <1>1, <1>2 DEF Edge
<1>5. alloc_events # <<>> /\ b = issue.wr_bank /\ issue.pixels <= DEPTH
  BY Moves DEF req
<1>6. /\ req.alloc.context = issue.id /\ req.alloc.epoch = EpochOf(issue.id)
      /\ req.alloc.expected = issue.pixels
  BY <1>5, AllocPortFacts DEF req
<1> QED
  BY <1>1, <1>3, <1>4, <1>5, <1>6 DEF BankEdge

LEMMA BankFreed ==
  ASSUME LoopInv, NEW in, LoopEdge(in), NEW b \in Banks,
         \/ ~allocated[b] /\ ~Allocates(Req(in), b)
         \/ Releases(Req(in), b)
  PROVE  ~allocated'[b]
<1>1. Edge(Req(in))
  BY EdgeParts
<1> QED
  BY <1>1, BankNext DEF BankEdge

LEMMA TailOfOne ==
  ASSUME NEW S, NEW q \in Seq(S), Len(q) = 1
  PROVE  Tail(q) = <<>>
<1>1. Tail(q) \in Seq(S) /\ Len(Tail(q)) = 0
  OBVIOUS
<1> QED
  BY <1>1, EmptySeq

\* A queue that is empty, or whose only event is taken.
LEMMA AllTaken ==
  ASSUME NEW q, NEW pops \in BOOLEAN, NEW put \in BOOLEAN, NEW event,
         IF pops THEN Tail(q) = <<>> ELSE q = <<>>,
         put => HasRoom(q)
  PROVE  QueueNext(q, pops, put, event) = IF put THEN <<event>> ELSE <<>>
<1>1. (IF pops THEN Tail(q) ELSE q) = <<>>
  OBVIOUS
<1>2. QueueNext(q, pops, put, event) =
        <<>> \o (IF put /\ HasRoom(q) THEN <<event>> ELSE <<>>)
  BY <1>1 DEF QueueNext
<1>3. <<>> \o <<event>> = <<event>> /\ <<>> \o <<>> = <<>>
  <2>1. <<event>> \in Seq({event}) /\ <<>> \in Seq({event})
    OBVIOUS
  <2> QED
    BY <2>1, ConcatEmptySeq
<1> QED
  BY <1>2, <1>3

\* What comes of the event queues, which hold at most one event.
LEMMA EventsNext ==
  ASSUME LoopInv, NEW in, LoopEdge(in)
  PROVE  /\ alloc_events' =
              IF Admits(in) /\ ~Prepared.final
              THEN <<[bank |-> Prepared.wr_bank, id |-> Prepared.id,
                      pixels |-> Prepared.pixels]>>
              ELSE IF alloc_events # <<>> /\ AllocReady(AllocRequest) THEN <<>>
              ELSE alloc_events
         /\ commit_events' =
              IF context_done # NoContext /\ ~context_done.final
              THEN <<[bank |-> context_done.wr_bank, id |-> context_done.id]>>
              ELSE <<>>
         /\ release_events' =
              IF pp_rd_valid /\ return_q.last
              THEN <<[bank |-> return_q.bank, id |-> return_q.id]>>
              ELSE <<>>
         /\ event_overflow' = {}
<1> DEFINE req == Req(in)
<1> HIDE DEF req
<1>1. QueueEdge(req, Admits(in)) /\ event_overflow = {}
  BY EdgeParts DEF req, LoopInv, NothingRefused
<1>2. HasRoom(<<>>) /\ QUEUE_DEPTH \in Nat \ {0}
  BY QueuesAssumption DEF HasRoom
<1>3. /\ req.alloc = AllocRequest
      /\ AllocRequest.valid <=> alloc_events # <<>>
  BY AllocPortFacts DEF req
<1>4. /\ req.commit.valid /\ CommitReady(req.commit) <=> commit_events # <<>>
      /\ req.release.valid /\ ReleaseReady(req.release) <=> release_events # <<>>
      /\ req.return.valid /\ ReturnReady(req.return) <=> pp_rd_valid
  BY CommitPortFacts, ReleasePortFacts, ReturnPortFacts DEF req
<1>5. /\ commit_events \in Seq(Event) /\ release_events \in Seq(Event)
      /\ commit_events # <<>> => Len(commit_events) = 1
      /\ release_events # <<>> => Len(release_events) = 1
      /\ alloc_events # <<>> =>
           alloc_events = <<[bank |-> issue.wr_bank, id |-> issue.id,
                             pixels |-> issue.pixels]>>
  BY DEF LoopInv, LoopTyped, Committing, Releasing, Permitted
<1>6. Admits(in) => alloc_events = <<>>
  BY AdmitFacts
<1>7. alloc_events' =
        IF Admits(in) /\ ~Prepared.final
        THEN <<[bank |-> Prepared.wr_bank, id |-> Prepared.id,
                pixels |-> Prepared.pixels]>>
        ELSE IF alloc_events # <<>> /\ AllocReady(AllocRequest) THEN <<>>
        ELSE alloc_events
  <2>1. alloc_events' =
          QueueNext(alloc_events, req.alloc.valid /\ AllocReady(req.alloc),
                    Admits(in) /\ ~Prepared.final,
                    [bank |-> Prepared.wr_bank, id |-> Prepared.id,
                     pixels |-> Prepared.pixels])
    BY <1>1 DEF QueueEdge
  <2> DEFINE pops == req.alloc.valid /\ AllocReady(req.alloc)
             puts == Admits(in) /\ ~Prepared.final
             event == [bank |-> Prepared.wr_bank, id |-> Prepared.id,
                       pixels |-> Prepared.pixels]
  <2>2. pops <=> alloc_events # <<>> /\ AllocReady(AllocRequest)
    BY <1>3
  <2>3. puts => alloc_events = <<>> /\ ~pops /\ HasRoom(alloc_events)
    BY <1>2, <1>6, <2>2
  <2>4. alloc_events' = QueueNext(alloc_events, pops, puts, event)
    BY <2>1
  <2>5. alloc_events # <<>> => Tail(alloc_events) = <<>>
    <3> DEFINE one == [bank |-> issue.wr_bank, id |-> issue.id, pixels |-> issue.pixels]
    <3>1. <<one>> \in Seq({one}) /\ Len(<<one>>) = 1
      OBVIOUS
    <3>2. Tail(<<one>>) = <<>>
      BY <3>1, TailOfOne
    <3> QED
      BY <1>5, <3>2
  <2>6. pops \in BOOLEAN /\ puts \in BOOLEAN
    BY <2>2
  <2> HIDE DEF pops, puts, event
  <2>7. CASE puts \/ pops
    <3>1. alloc_events' = IF puts THEN <<event>> ELSE <<>>
      <4>1. IF pops THEN Tail(alloc_events) = <<>> ELSE alloc_events = <<>>
        BY <2>2, <2>3, <2>5, <2>7
      <4>2. puts => HasRoom(alloc_events)
        BY <2>3
      <4>3. QueueNext(alloc_events, pops, puts, event) = IF puts THEN <<event>> ELSE <<>>
        BY <2>6, <4>1, <4>2, AllTaken
      <4> QED
        BY <2>4, <4>3
    <3> QED
      BY <2>2, <2>7, <3>1 DEF puts, event
  <2>8. CASE ~puts /\ ~pops
    <3>1. alloc_events' = alloc_events \o <<>>
      BY <2>4, <2>8 DEF QueueNext
    <3>2. alloc_events \o <<>> = alloc_events
      <4> DEFINE one == [bank |-> issue.wr_bank, id |-> issue.id,
                         pixels |-> issue.pixels]
      <4>1. <<one>> \in Seq({one}) /\ <<>> \in Seq({one})
        OBVIOUS
      <4>2. alloc_events = <<one>> \/ alloc_events = <<>>
        BY <1>5
      <4> HIDE DEF one
      <4>3. alloc_events \in Seq({one})
        BY <4>1, <4>2
      <4> QED
        BY <4>3, ConcatEmptySeq
    <3> QED
      BY <2>2, <2>8, <3>1, <3>2 DEF puts
  <2> QED
    BY <2>7, <2>8
<1>8. commit_events' =
        IF context_done # NoContext /\ ~context_done.final
        THEN <<[bank |-> context_done.wr_bank, id |-> context_done.id]>>
        ELSE <<>>
  <2>1. commit_events' =
          QueueNext(commit_events, req.commit.valid /\ CommitReady(req.commit),
                    context_done # NoContext /\ ~context_done.final,
                    [bank |-> context_done.wr_bank, id |-> context_done.id])
    BY <1>1 DEF QueueEdge
  <2>2. commit_events # <<>> => Tail(commit_events) = <<>> /\ context_done = NoContext
    <3>1. commit_events # <<>> => Tail(commit_events) \in Seq(Event)
                                  /\ Len(Tail(commit_events)) = 0
      BY <1>5
    <3>2. commit_events # <<>> => Tail(commit_events) = <<>>
      BY <3>1, EmptySeq
    <3> QED
      BY <3>2 DEF LoopInv, Committing
  <2> DEFINE pops == req.commit.valid /\ CommitReady(req.commit)
             puts == context_done # NoContext /\ ~context_done.final
             event == [bank |-> context_done.wr_bank, id |-> context_done.id]
  <2>3. /\ pops <=> commit_events # <<>>
        /\ puts => HasRoom(commit_events)
        /\ pops \in BOOLEAN /\ puts \in BOOLEAN
    BY <1>2, <1>4, <2>2
  <2>4. commit_events' = QueueNext(commit_events, pops, puts, event)
    BY <2>1
  <2> HIDE DEF pops, puts, event
  <2>5. commit_events' = IF puts THEN <<event>> ELSE <<>>
    BY <2>2, <2>3, <2>4, AllTaken
  <2> QED
    BY <2>5 DEF puts, event
<1>9. release_events' =
        IF pp_rd_valid /\ return_q.last
        THEN <<[bank |-> return_q.bank, id |-> return_q.id]>>
        ELSE <<>>
  <2>1. release_events' =
          QueueNext(release_events, req.release.valid /\ ReleaseReady(req.release),
                    pp_rd_valid /\ return_q.last,
                    [bank |-> return_q.bank, id |-> return_q.id])
    BY <1>1, <1>4 DEF QueueEdge
  <2>2. release_events # <<>> =>
          Tail(release_events) = <<>> /\ ~(pp_rd_valid /\ return_q.last)
    <3>1. release_events # <<>> => Tail(release_events) \in Seq(Event)
                                   /\ Len(Tail(release_events)) = 0
      BY <1>5
    <3>2. release_events # <<>> => Tail(release_events) = <<>>
      BY <3>1, EmptySeq
    <3> QED
      BY <3>2 DEF LoopInv, LastReturning
  <2> DEFINE pops == req.release.valid /\ ReleaseReady(req.release)
             puts == pp_rd_valid /\ return_q.last
             event == [bank |-> return_q.bank, id |-> return_q.id]
  <2>3. /\ pops <=> release_events # <<>>
        /\ puts => HasRoom(release_events)
        /\ pops \in BOOLEAN /\ puts \in BOOLEAN
    BY <1>2, <1>4, <2>2
  <2>4. release_events' = QueueNext(release_events, pops, puts, event)
    BY <2>1
  <2> HIDE DEF pops, puts, event
  <2>5. release_events' = IF puts THEN <<event>> ELSE <<>>
    BY <2>2, <2>3, <2>4, AllTaken
  <2> QED
    BY <2>5 DEF puts, event
<1>10. event_overflow' = {}
  <2>1. ~(Admits(in) /\ ~Prepared.final /\ ~HasRoom(alloc_events))
    BY AdmitFacts
  <2>2. ~(context_done # NoContext /\ ~context_done.final /\ ~HasRoom(commit_events))
    BY <1>2 DEF LoopInv, Committing
  <2>3. ~(pp_rd_valid /\ return_q.last /\ ~HasRoom(release_events))
    BY <1>2 DEF LoopInv, LastReturning
  <2> QED
    BY <1>1, <1>4, <2>1, <2>2, <2>3 DEF QueueEdge
<1> QED
  BY <1>7, <1>8, <1>9, <1>10

-----------------------------------------------------------------------------
(* The contexts that are collected                                         *)

\* A context does not fire its last pixel while words of its parent are to come.
LEMMA ParentFirst ==
  ASSUME LoopInv, NEW in, compute_fire(in), ParentWaits
  PROVE  ~psum_score_rd_last
<1>1. /\ computing /\ ~issue.first
      /\ collecting[Len(collecting) - 1].pixels = issue.pixels
  BY DEF LoopInv, Queued
<1>2. /\ rd_issue[issue.rd_bank] = pixel_addr /\ written[issue.rd_bank] = ParentWords
  BY <1>1 DEF LoopInv, ParentBank
<1>3. pixel_addr < ParentWords
  BY <1>1, <1>2, FireFacts
<1>4. collecting # <<>> /\ Len(collecting) >= 2
  BY <1>1, ComputingFacts DEF ParentWaits
<1>5. ParentWords < issue.pixels
  <2>1. CASE Len(collecting) = 2
    <3>1. Head(collecting).pixels = issue.pixels
      BY <1>1, <1>4, <2>1, CollectTypes
    <3> QED
      BY <1>4, <2>1, <3>1, CollectTypes DEF ParentWords
  <2>2. CASE Len(collecting) # 2
    BY <2>2, IssueTypes DEF ParentWords
  <2> QED
    BY <2>1, <2>2
<1>6. ParentWords \in Nat
  BY IssueTypes DEF ParentWords, LoopInv, LoopTyped
<1> QED
  BY <1>3, <1>5, <1>6, IssueTypes DEF psum_score_rd_last

LEMMA CoreNext ==
  ASSUME LoopInv, NEW in, LoopEdge(in)
  PROVE  /\ computing' <=> Admits(in) \/ (computing /\ ~(compute_fire(in) /\ psum_score_rd_last))
         /\ compute_done' <=> compute_fire(in) /\ psum_score_rd_last
         /\ pixel_addr' = IF Admits(in) THEN 0
                          ELSE IF compute_fire(in) THEN pixel_addr + 1 ELSE pixel_addr
         /\ issue' = IF Admits(in) THEN Prepared ELSE issue
         /\ pp_rd_valid' <=> compute_fire(in) /\ ~issue.first
         /\ compute_fire(in) /\ ~issue.first =>
              return_q' = [bank |-> issue.rd_bank, id |-> issue.parent,
                           last |-> psum_score_rd_last]
         /\ ~(compute_fire(in) /\ ~issue.first) => return_q' = return_q
<1>1. CoreEdge(Admits(in), compute_fire(in)) /\ ReadEdge(Req(in))
      /\ IssueEdge(in, Admits(in), compute_fire(in))
  BY EdgeParts
<1>2. Req(in).rd.valid /\ ReadReady(Req(in).rd) <=> compute_fire(in) /\ ~issue.first
  BY ReadPortFacts
<1> QED
  BY <1>1, <1>2 DEF CoreEdge, ReadEdge, IssueEdge

LEMMA RestNext ==
  ASSUME LoopInv, NEW in, LoopEdge(in)
  PROVE  /\ Rest \in Nat
         /\ compute_fire(in) => Rest # 0
         /\ Admits(in) => /\ Rest = IF compute_fire(in) THEN 1 ELSE 0
                          /\ Rest' = Prepared.pixels
         /\ ~Admits(in) =>
              Rest' = Rest - (IF compute_fire(in) THEN 1 ELSE 0)
<1>1. Rest \in Nat
  BY RestType
<1>2. ASSUME compute_fire(in)
      PROVE  /\ computing /\ Rest = issue.pixels - pixel_addr /\ pixel_addr < issue.pixels
             /\ psum_score_rd_last <=> Rest = 1
  <2>1. computing /\ pixel_addr < issue.pixels
    BY <1>2, FireFacts, ComputingFacts
  <2> QED
    BY <2>1, IssueTypes DEF Rest, psum_score_rd_last
<1>3. compute_fire(in) => Rest # 0
  BY <1>2, IssueTypes
<1>4. ASSUME Admits(in)
      PROVE  /\ Rest = IF compute_fire(in) THEN 1 ELSE 0
             /\ Rest' = Prepared.pixels
  <2>1. ~computing \/ (compute_fire(in) /\ psum_score_rd_last)
    BY <1>4, AdmitFacts
  <2>2. computing' /\ issue' = Prepared /\ pixel_addr' = 0
    BY <1>4, CoreNext
  <2>3. Prepared.pixels \in Nat
    BY PreparedTypes DEF Descriptor
  <2>4. Rest' = Prepared.pixels
    BY <2>2, <2>3 DEF Rest
  <2>5. Rest = IF compute_fire(in) THEN 1 ELSE 0
    BY <1>2, <2>1 DEF Rest
  <2> QED
    BY <2>4, <2>5
<1>5. ASSUME ~Admits(in)
      PROVE  Rest' = Rest - (IF compute_fire(in) THEN 1 ELSE 0)
  <2>1. /\ computing' <=> computing /\ ~(compute_fire(in) /\ psum_score_rd_last)
        /\ issue' = issue
        /\ pixel_addr' = IF compute_fire(in) THEN pixel_addr + 1 ELSE pixel_addr
    BY <1>5, CoreNext
  <2>2. CASE compute_fire(in) /\ psum_score_rd_last
    BY <1>2, <2>1, <2>2 DEF Rest
  <2>3. CASE compute_fire(in) /\ ~psum_score_rd_last
    BY <1>2, <2>1, <2>3, IssueTypes DEF Rest
  <2>4. CASE ~compute_fire(in)
    BY <1>1, <2>1, <2>4 DEF Rest
  <2> QED
    BY <2>2, <2>3, <2>4
<1> QED
  BY <1>1, <1>3, <1>4, <1>5

\* The contexts after an edge: the first may be done, one may be admitted.
Kept(in) == IF Done(in) THEN Tail(collecting) ELSE collecting
Left(in) == Len(collecting) - (IF Done(in) THEN 1 ELSE 0)

LEMMA PopFacts ==
  ASSUME LoopInv, NEW in, packet_pop(in)
  PROVE  /\ packet_valid(in) /\ collecting # <<>> /\ in_flight # 0
         /\ context_done = NoContext
         /\ Done(in) => /\ collected + 1 = Head(collecting).pixels
                        /\ Len(collecting) = 1 => ~computing
         /\ ~Done(in) => collected + 1 < Head(collecting).pixels
<1>1. packet_valid(in)
  BY DEF packet_pop
<1>2. /\ collecting # <<>> /\ in_flight # 0 /\ context_done = NoContext
      /\ Len(collecting) = 1 /\ computing => ~LastPacket
  BY <1>1, PacketFacts
<1>3. Done(in) <=> collected + 1 = Head(collecting).pixels
  BY <1>2, CollectTypes DEF Done, LastPacket, PacketContext
<1>4. collected + 1 <= Head(collecting).pixels
  BY <1>2, CollectTypes
<1> QED
  BY <1>1, <1>2, <1>3, <1>4, CollectTypes DEF Done

LEMMA CollectNext ==
  ASSUME LoopInv, NEW in, LoopEdge(in)
  PROVE  /\ collecting' = Kept(in) \o (IF Admits(in) THEN <<Prepared>> ELSE <<>>)
         /\ collecting' \in Seq(Descriptor) /\ Kept(in) \in Seq(Descriptor)
         /\ Left(in) \in Nat /\ Len(collecting) \in Nat
         /\ Len(collecting') = Left(in) + (IF Admits(in) THEN 1 ELSE 0)
         /\ \A k \in 1 .. Left(in) :
              collecting'[k] = collecting[k + (IF Done(in) THEN 1 ELSE 0)]
         /\ Admits(in) => collecting'[Left(in) + 1] = Prepared
         /\ context_done' = IF Done(in) THEN PacketContext ELSE NoContext
         /\ collected' = IF Done(in) THEN 0
                         ELSE IF packet_pop(in) THEN collected + 1 ELSE collected
         /\ in_flight' = in_flight + (IF compute_fire(in) THEN 1 ELSE 0)
                                   - (IF packet_pop(in) THEN 1 ELSE 0)
<1>1. CollectEdge(Admits(in), compute_fire(in), packet_pop(in))
  BY EdgeParts
<1>2. collecting \in Seq(Descriptor)
  BY DEF LoopInv, LoopTyped
<1>3. Done(in) => collecting # <<>>
  BY PopFacts DEF Done
<1>4. /\ Kept(in) \in Seq(Descriptor) /\ Left(in) \in Nat /\ Len(Kept(in)) = Left(in)
      /\ Len(collecting) \in Nat
      /\ \A k \in 1 .. Left(in) :
           Kept(in)[k] = collecting[k + (IF Done(in) THEN 1 ELSE 0)]
  <2>1. CASE Done(in)
    BY <1>2, <1>3, <2>1 DEF Kept, Left
  <2>2. CASE ~Done(in)
    BY <1>2, <2>2 DEF Kept, Left
  <2> QED
    BY <2>1, <2>2
<1>5. collecting' = Kept(in) \o (IF Admits(in) THEN <<Prepared>> ELSE <<>>)
  BY <1>1 DEF CollectEdge, Kept, Done
<1>6. /\ collecting' \in Seq(Descriptor)
      /\ Len(collecting') = Left(in) + (IF Admits(in) THEN 1 ELSE 0)
      /\ \A k \in 1 .. Left(in) : collecting'[k] = Kept(in)[k]
      /\ Admits(in) => collecting'[Left(in) + 1] = Prepared
  <2>1. CASE Admits(in)
    <3>1. Prepared \in Descriptor /\ <<Prepared>> \in Seq(Descriptor)
      BY PreparedTypes
    <3>2. collecting' = Kept(in) \o <<Prepared>>
      BY <1>5, <2>1
    <3> QED
      BY <1>4, <2>1, <3>1, <3>2
  <2>2. CASE ~Admits(in)
    <3>1. collecting' = Kept(in)
      BY <1>4, <1>5, <2>2, ConcatEmptySeq
    <3> QED
      BY <1>4, <2>2, <3>1
  <2> QED
    BY <2>1, <2>2
<1>7. /\ context_done' = IF Done(in) THEN PacketContext ELSE NoContext
      /\ collected' = IF Done(in) THEN 0
                      ELSE IF packet_pop(in) THEN collected + 1 ELSE collected
      /\ in_flight' = in_flight + (IF compute_fire(in) THEN 1 ELSE 0)
                                - (IF packet_pop(in) THEN 1 ELSE 0)
  BY <1>1 DEF CollectEdge, Done
<1> QED
  BY <1>4, <1>5, <1>6, <1>7

\* While pixels are left, the issued context is collected, and remains so.
LEMMA IssueStays ==
  ASSUME LoopInv, NEW in, computing
  PROVE  Left(in) >= 1 /\ Len(collecting) >= 1
<1>1. collecting # <<>> /\ Len(collecting) \in Nat \ {0}
  BY ComputingFacts, CollectTypes
<1>2. Done(in) => Len(collecting) # 1
  BY PopFacts DEF Done
<1>3. CASE Done(in)
  <2>1. Left(in) = Len(collecting) - 1
    BY <1>3 DEF Left
  <2>2. Len(collecting) # 1
    BY <1>2, <1>3
  <2> DEFINE n == Len(collecting)
  <2>4. n \in Nat /\ n # 0
    BY <1>1
  <2>5. n # 1
    BY <2>2
  <2> HIDE DEF n
  <2>6. n >= 2
    BY <2>4, <2>5
  <2>3. Len(collecting) >= 2
    BY <2>6 DEF n
  <2> QED
    BY <2>1, <2>2, <2>3
<1>4. CASE ~Done(in)
  <2>1. Left(in) = Len(collecting) - 0
    BY <1>4 DEF Left
  <2> QED
    BY <1>1, <2>1
<1> QED
  BY <1>3, <1>4

LEMMA WaitsNext ==
  ASSUME LoopInv, NEW in, LoopEdge(in)
  PROVE  ParentWaits' <=>
           IF Admits(in) THEN Left(in) >= 1 /\ ~issue.final
           ELSE ParentWaits /\ Left(in) >= 2
<1> DEFINE d == IF Done(in) THEN 1 ELSE 0
<1>1. /\ Left(in) = Len(collecting) - d /\ Left(in) \in Nat /\ Len(collecting) \in Nat
      /\ d \in {0, 1}
      /\ \A k \in 1 .. Left(in) : collecting'[k] = collecting[k + d]
      /\ Len(collecting') = Left(in) + (IF Admits(in) THEN 1 ELSE 0)
  BY CollectNext DEF Left
<1> HIDE DEF d
<1>2. CASE Admits(in) /\ Left(in) >= 1
  <2>1. Len(collecting') - 1 = Left(in) /\ Len(collecting') >= 2
    BY <1>1, <1>2
  <2>2. collecting'[Left(in)] = collecting[Left(in) + d]
    BY <1>1, <1>2
  <2>3. Left(in) + d = Len(collecting)
    BY <1>1
  <2>4. collecting # <<>>
    BY <1>1, <1>2
  <2>5. collecting[Len(collecting)] = issue
    BY <2>4 DEF LoopInv, Queued
  <2> QED
    BY <1>2, <2>1, <2>2, <2>3, <2>5 DEF ParentWaits
<1>3. CASE Admits(in) /\ Left(in) < 1
  BY <1>1, <1>3 DEF ParentWaits
<1>4. CASE ~Admits(in) /\ Left(in) >= 2
  <2>1. Len(collecting') = Left(in) /\ Len(collecting) >= 2
    BY <1>1, <1>4
  <2>2. collecting'[Left(in) - 1] = collecting[Left(in) - 1 + d]
    BY <1>1, <1>4
  <2>3. Left(in) - 1 + d = Len(collecting) - 1
    BY <1>1
  <2> QED
    BY <1>4, <2>1, <2>2, <2>3 DEF ParentWaits
<1>5. CASE ~Admits(in) /\ Left(in) < 2
  BY <1>1, <1>5 DEF ParentWaits
<1> QED
  BY <1>1, <1>2, <1>3, <1>4, <1>5

LEMMA QueuedStep ==
  ASSUME LoopInv, NEW in, LoopEdge(in)
  PROVE  Queued'
<1> DEFINE d == IF Done(in) THEN 1 ELSE 0
           admit == Admits(in)
<1>1. /\ Left(in) = Len(collecting) - d /\ Left(in) \in Nat /\ Len(collecting) \in Nat
      /\ d \in {0, 1} /\ (d = 1 <=> Done(in))
      /\ \A k \in 1 .. Left(in) : collecting'[k] = collecting[k + d]
      /\ Len(collecting') = Left(in) + (IF admit THEN 1 ELSE 0)
      /\ admit => collecting'[Left(in) + 1] = Prepared
      /\ collecting' \in Seq(Descriptor)
  BY CollectNext DEF Left
<1> HIDE DEF d
<1>2. /\ computing' <=> admit \/ (computing /\ ~(compute_fire(in) /\ psum_score_rd_last))
      /\ issue' = IF admit THEN Prepared ELSE issue
  BY CoreNext
<1>3. Prepared \in Descriptor /\ Prepared # NoContext /\ Prepared.pixels \in Nat \ {0}
  BY PreparedTypes DEF Descriptor
<1>4. computing' => collecting' # <<>>
  <2>1. ASSUME computing' PROVE Len(collecting') >= 1
    <3>1. CASE admit
      BY <1>1, <3>1
    <3>2. CASE ~admit
      <4>1. Left(in) >= 1
        BY <1>2, <2>1, <3>2, IssueStays
      <4> QED
        BY <1>1, <3>2, <4>1
    <3> QED
      BY <3>1, <3>2
  <2> QED
    BY <1>1, <2>1, EmptySeq
<1>5. ASSUME collecting' # <<>>
      PROVE  collecting'[Len(collecting')] = issue' /\ issue' # NoContext
  <2>1. CASE admit
    BY <1>1, <1>2, <1>3, <2>1
  <2>2. CASE ~admit
    <3>1. Len(collecting') \in Nat \ {0}
      BY <1>1, <1>5, EmptySeq
    <3>2. Left(in) >= 1 /\ Left(in) + d = Len(collecting) /\ Len(collecting') = Left(in)
      BY <1>1, <2>2, <3>1
    <3>3. collecting'[Len(collecting')] = collecting[Len(collecting)]
      BY <1>1, <3>2
    <3>4. collecting # <<>>
      BY <1>1, <3>2
    <3> QED
      BY <1>2, <2>2, <3>3, <3>4 DEF LoopInv, Queued
  <2> QED
    BY <2>1, <2>2
<1>6. ASSUME collecting' # <<>>
      PROVE  collected' < Head(collecting').pixels
  <2>1. Head(collecting') = collecting'[1] /\ Len(collecting') \in Nat \ {0}
        /\ Head(collecting') \in Descriptor
    BY <1>1, <1>5, <1>6, EmptySeq
  <2>2. CASE Done(in)
    BY <2>1, <2>2, CollectNext DEF Descriptor
  <2>3. CASE ~Done(in) /\ collecting # <<>>
    <3>1. Left(in) >= 1 /\ d = 0
      BY <1>1, <2>3, CollectTypes
    <3>2. Head(collecting') = Head(collecting)
      BY <1>1, <2>1, <2>3, <3>1, CollectTypes
    <3>3. collected' = IF packet_pop(in) THEN collected + 1 ELSE collected
      BY <2>3, CollectNext
    <3> QED
      BY <2>3, <3>2, <3>3, PopFacts, CollectTypes
  <2>4. CASE ~Done(in) /\ collecting = <<>>
    <3>1. ~packet_pop(in)
      BY <2>4, PopFacts
    <3>2. collected' = 0
      BY <2>4, <3>1, CollectNext DEF LoopInv, Queued
    <3> QED
      BY <2>1, <3>2 DEF Descriptor
  <2> QED
    BY <2>2, <2>3, <2>4
<1>7. collecting' = <<>> => collected' = 0
  <2> SUFFICES ASSUME collecting' = <<>>, ~Done(in) PROVE collected' = 0
    BY CollectNext
  <2>1. Len(collecting') = 0
    OBVIOUS
  <2>2. Len(collecting) = 0
    BY <1>1, <2>1
  <2>3. collecting = <<>>
    BY <2>2, EmptySeq DEF LoopInv, LoopTyped
  <2>4. ~packet_pop(in)
    BY <2>3, PopFacts
  <2> QED
    BY <2>3, <2>4, CollectNext DEF LoopInv, Queued
<1>8. Sums(collecting', in_flight' + collected' + Rest')
  <2> DEFINE total == in_flight + collected + Rest
             fired == IF compute_fire(in) THEN 1 ELSE 0
             took == IF Done(in) THEN Head(collecting).pixels ELSE 0
  <2>1. in_flight \in Nat /\ collected \in Nat /\ Rest \in Nat
    BY RestNext DEF LoopInv, LoopTyped
  <2>2. Sums(collecting, total)
    BY DEF LoopInv, Queued
  <2>3. collecting \in Seq(Descriptor)
    BY DEF LoopInv, LoopTyped
  <2>4. Sums(Kept(in), total - took) /\ took \in Nat
    <3>1. CASE Done(in)
      <4>1. collecting # <<>>
        BY <3>1, PopFacts DEF Done
      <4>2. Sums(Tail(collecting), total - Head(collecting).pixels)
        BY <2>2, <2>3, <4>1, SumsTail
      <4> QED
        BY <3>1, <4>1, <4>2, CollectTypes DEF Kept
    <3>2. CASE ~Done(in)
      <4>1. total - 0 = total
        BY <2>1
      <4> QED
        BY <2>2, <3>2, <4>1 DEF Kept
    <3> QED
      BY <3>1, <3>2
  <2>5. in_flight' + collected' = in_flight + collected + fired - took
    <3>1. CASE Done(in)
      <4>1. packet_pop(in) /\ collected + 1 = took
        BY <3>1, PopFacts DEF Done
      <4>2. in_flight' = in_flight + fired - 1 /\ collected' = 0
        BY <3>1, <4>1, CollectNext
      <4> QED
        BY <2>1, <4>1, <4>2
    <3>2. CASE ~Done(in) /\ packet_pop(in)
      <4>1. in_flight' = in_flight + fired - 1 /\ collected' = collected + 1
        BY <3>2, CollectNext
      <4> QED
        BY <2>1, <3>2, <4>1
    <3>3. CASE ~packet_pop(in)
      <4>1. ~Done(in)
        BY <3>3 DEF Done
      <4>2. in_flight' = in_flight + fired - 0 /\ collected' = collected
        BY <3>3, <4>1, CollectNext
      <4> QED
        BY <2>1, <4>1, <4>2
    <3> QED
      BY <3>1, <3>2, <3>3 DEF Done
  <2>6. CASE admit
    <3>1. Rest = fired /\ Rest' = Prepared.pixels
      BY <2>6, RestNext
    <3>2. in_flight' + collected' + Rest' = (total - took) + Prepared.pixels
      BY <1>3, <2>1, <2>4, <2>5, <3>1
    <3>3. collecting' = Kept(in) \o <<Prepared>> /\ Kept(in) \in Seq(Descriptor)
      BY <2>6, CollectNext
    <3> HIDE DEF total, took
    <3>4. Sums(Kept(in) \o <<Prepared>>, (total - took) + Prepared.pixels)
      BY <1>3, <2>4, <3>3, SumsAppend
    <3> QED
      BY <3>2, <3>3, <3>4
  <2>7. CASE ~admit
    <3>1. Rest' = Rest - fired
      BY <2>7, RestNext
    <3>2. in_flight' + collected' + Rest' = total - took
      BY <2>1, <2>4, <2>5, <3>1
    <3>3. collecting' = Kept(in)
      BY <2>7, CollectNext, ConcatEmptySeq
    <3> QED
      BY <2>4, <3>2, <3>3
  <2> QED
    BY <2>6, <2>7
<1>9. ASSUME NEW k \in 1 .. Len(collecting') - 2
      PROVE  collecting'[k].final
  <2>1. k \in 1 .. Left(in) /\ collecting'[k] = collecting[k + d]
    BY <1>1
  <2>2. CASE k + d \in 1 .. Len(collecting) - 2
    BY <2>1, <2>2 DEF LoopInv, Queued
  <2>3. CASE k + d \notin 1 .. Len(collecting) - 2
    <3>1. admit /\ k + d = Len(collecting) - 1 /\ Len(collecting) >= 2
      BY <1>1, <2>1, <2>3
    <3>2. ~ParentWaits
      <4>1. ~computing \/ (compute_fire(in) /\ psum_score_rd_last)
        BY <3>1, AdmitFacts
      <4> QED
        BY <4>1, ParentFirst DEF LoopInv, Queued
    <3> QED
      BY <2>1, <3>1, <3>2 DEF ParentWaits
  <2> QED
    BY <2>2, <2>3
<1>10. ASSUME ParentWaits'
       PROVE  /\ computing' /\ ~issue'.first
              /\ LET parent == collecting'[Len(collecting') - 1]
                 IN /\ parent.id = issue'.parent /\ parent.wr_bank = issue'.rd_bank
                    /\ parent.pixels = issue'.pixels
  <2>1. CASE admit
    <3>1. Left(in) >= 1 /\ ~issue.final
      BY <1>10, <2>1, WaitsNext
    <3>2. pass # 0
      BY <3>1 DEF LoopInv, Lineage
    <3>3. collecting'[Len(collecting') - 1] = collecting[Len(collecting)]
      <4>1. Len(collecting') - 1 = Left(in) /\ Left(in) + d = Len(collecting)
        BY <1>1, <2>1
      <4> QED
        BY <1>1, <3>1, <4>1
    <3>4. collecting[Len(collecting)] = issue
      <4>1. collecting # <<>>
        BY <1>1, <3>1
      <4> QED
        BY <4>1 DEF LoopInv, Queued
    <3>5. issue' = Prepared /\ computing'
      BY <1>2, <2>1
    <3> QED
      BY <3>2, <3>3, <3>4, <3>5, PreparedTypes
  <2>2. CASE ~admit
    <3>1. ParentWaits /\ Left(in) >= 2
      BY <1>10, <2>2, WaitsNext
    <3>2. /\ computing /\ ~issue.first
          /\ LET parent == collecting[Len(collecting) - 1]
             IN /\ parent.id = issue.parent /\ parent.wr_bank = issue.rd_bank
                /\ parent.pixels = issue.pixels
      BY <3>1 DEF LoopInv, Queued
    <3>3. collecting'[Len(collecting') - 1] = collecting[Len(collecting) - 1]
      <4>1. /\ Len(collecting') = Left(in) /\ Left(in) - 1 \in 1 .. Left(in)
            /\ Left(in) - 1 + d = Len(collecting) - 1
        BY <1>1, <2>2, <3>1
      <4> QED
        BY <1>1, <4>1
    <3>4. issue' = issue /\ computing'
      BY <1>2, <2>2, <3>1, <3>2, ParentFirst
    <3> QED
      BY <3>2, <3>3, <3>4
  <2> QED
    BY <2>1, <2>2
<1>11. context_descs' =
         (IF context_done' = NoContext THEN <<>> ELSE <<context_done'>>) \o collecting'
  <2> DEFINE added == IF admit THEN <<Prepared>> ELSE <<>>
  <2>1. added \in Seq(Descriptor) /\ <<>> \in Seq(Descriptor)
    BY <1>3
  <2>2. collecting' = Kept(in) \o added /\ Kept(in) \in Seq(Descriptor)
        /\ context_done' = IF Done(in) THEN PacketContext ELSE NoContext
    BY CollectNext
  <2>3. collecting \in Seq(Descriptor) /\ context_done \in Descriptor \cup {NoContext}
    BY DEF LoopInv, LoopTyped
  <2>4. context_descs' = collecting \o added
    <3>1. QueueEdge(Req(in), admit)
      BY EdgeParts
    <3>2. context_descs = (IF context_done = NoContext THEN <<>> ELSE <<context_done>>)
                          \o collecting
      BY DEF LoopInv, Queued
    <3>3. CASE context_done = NoContext
      <4>1. context_descs = collecting
        BY <2>3, <3>2, <3>3, ConcatEmptySeq
      <4> QED
        BY <3>1, <3>3, <4>1 DEF QueueEdge
    <3>4. CASE context_done # NoContext
      <4>1. context_descs = <<context_done>> \o collecting /\ context_done \in Descriptor
        BY <2>3, <3>2, <3>4
      <4>2. /\ context_descs # <<>> /\ Head(context_descs) = context_done
            /\ Tail(context_descs) = collecting
        BY <2>3, <4>1
      <4> QED
        BY <3>1, <3>4, <4>2 DEF QueueEdge
    <3> QED
      BY <3>3, <3>4
  <2> HIDE DEF added
  <2>5. CASE Done(in)
    <3>1. collecting # <<>>
      BY <2>5, PopFacts DEF Done
    <3>2. collecting = <<PacketContext>> \o Tail(collecting) /\ PacketContext \in Descriptor
          /\ Tail(collecting) \in Seq(Descriptor)
      BY <2>3, <3>1 DEF PacketContext
    <3>3. context_done' = PacketContext /\ PacketContext # NoContext
          /\ collecting' = Tail(collecting) \o added
      BY <2>2, <2>5, <3>2, NoContextId DEF Kept
    <3>4. (<<PacketContext>> \o Tail(collecting)) \o added
            = <<PacketContext>> \o (Tail(collecting) \o added)
      BY <2>1, <3>2
    <3> QED
      BY <2>4, <3>2, <3>3, <3>4
  <2>6. CASE ~Done(in)
    BY <1>1, <2>2, <2>4, <2>6, ConcatEmptySeq DEF Kept
  <2> QED
    BY <2>5, <2>6
<1> QED
  <2>1. \A k \in 1 .. Len(collecting') - 2 : collecting'[k].final
    BY <1>9
  <2>2. ParentWaits' =>
          /\ computing' /\ ~issue'.first
          /\ LET parent == collecting'[Len(collecting') - 1]
             IN /\ parent.id = issue'.parent /\ parent.wr_bank = issue'.rd_bank
                /\ parent.pixels = issue'.pixels
    BY <1>10
  <2>3. collecting' # <<>> =>
          /\ collecting'[Len(collecting')] = issue' /\ issue' # NoContext
          /\ collected' < Head(collecting').pixels
    BY <1>5, <1>6
  <2>4. NoContext' = NoContext
    BY DEF NoContext
  <2>5. Sums(collecting, in_flight + collected + Rest)'
    BY <1>8 DEF Sums
  <2> QED
    BY <1>4, <1>7, <1>11, <2>1, <2>2, <2>3, <2>4, <2>5 DEF Queued

-----------------------------------------------------------------------------
(* The banks after an edge                                                 *)

LEMMA BankNats ==
  ASSUME LoopInv, NEW b \in Banks
  PROVE  /\ written[b] \in Nat /\ rd_issue[b] \in Nat
         /\ rd_return[b] \in Nat /\ expected[b] \in Nat
  BY DEF LoopInv, LoopTyped

\* A bank is held after an edge by the context that held it before, or by the
\* issued context.
LEMMA HeldAfter ==
  ASSUME LoopInv, NEW in, LoopEdge(in), NEW b \in Banks, allocated'[b]
  PROVE  Allocates(Req(in), b) \/ (allocated[b] /\ ~Releases(Req(in), b))
  BY BankFreed

LEMMA CountsStep ==
  ASSUME LoopInv, NEW in, LoopEdge(in), NEW b \in Banks
  PROVE  /\ CountsOf(b)'
         /\ written'[b] \in Nat /\ rd_issue'[b] \in Nat
         /\ rd_return'[b] \in Nat /\ expected'[b] \in Nat
<1> DEFINE req == Req(in)
<1> HIDE DEF req
<1>1. /\ written[b] \in Nat /\ rd_issue[b] \in Nat
      /\ rd_return[b] \in Nat /\ expected[b] \in Nat
  BY BankNats
<1>2. CountsOf(b)
  BY DEF LoopInv
<1>3. CASE allocated[b] /\ ~Releases(req, b)
  <2>1. /\ expected'[b] = expected[b]
        /\ written'[b] = IF Writes(req, b) THEN written[b] + 1 ELSE written[b]
        /\ rd_issue'[b] = IF Reads(req, b) THEN rd_issue[b] + 1 ELSE rd_issue[b]
        /\ rd_return'[b] = IF Returns(req, b) THEN rd_return[b] + 1 ELSE rd_return[b]
        /\ writer_done'[b] <=> Commits(req, b) \/ writer_done[b]
    BY <1>3, BankAfter DEF req
  <2>2. /\ Writes(req, b) => written[b] < expected[b] /\ ~Commits(req, b)
        /\ Reads(req, b) => rd_issue[b] < written[b]
        /\ Commits(req, b) => written[b] = expected[b]
    BY MoveFacts DEF req
  <2>3. /\ written'[b] \in Nat /\ rd_issue'[b] \in Nat
        /\ rd_return'[b] \in Nat /\ expected'[b] \in Nat
    BY <1>1, <2>1
  <2>4. rd_issue'[b] <= written'[b] /\ written'[b] <= expected'[b]
        /\ expected'[b] <= DEPTH /\ expected'[b] # 0
    BY <1>1, <1>2, <1>3, <2>1, <2>2 DEF CountsOf
  <2>5. written'[b] < expected'[b] => ~writer_done'[b]
    <3>1. ASSUME written'[b] < expected'[b]
          PROVE  written[b] < expected[b] /\ ~Commits(req, b)
      BY <1>1, <2>1, <2>2, <3>1
    <3> QED
      BY <1>2, <1>3, <2>1, <3>1 DEF CountsOf
  <2> QED
    BY <2>3, <2>4, <2>5 DEF CountsOf
<1>4. CASE Allocates(req, b)
  BY <1>4, BankGranted, IssueTypes DEF CountsOf, req
<1>5. CASE ~Allocates(req, b) /\ (~allocated[b] \/ Releases(req, b))
  <2>1. Edge(req)
    BY EdgeParts DEF req
  <2>2. BankEdge(req, b)
    BY <2>1, BankNext
  <2>3. ~allocated'[b]
    BY <1>5, BankFreed DEF req
  <2>4. Writes(req, b) => allocated[b] /\ ~Releases(req, b)
    BY MoveFacts DEF req
  <2>5. Reads(req, b) => allocated[b] /\ ~Releases(req, b)
    BY MoveFacts DEF req
  <2>6. /\ written'[b] = (IF Releases(req, b) THEN 0 ELSE written[b])
        /\ rd_issue'[b] = (IF Releases(req, b) THEN 0 ELSE rd_issue[b])
        /\ expected'[b] = expected[b]
    BY <1>5, <2>2, <2>4, <2>5 DEF BankEdge
  <2>7. rd_return'[b] \in Nat
    BY <1>1, <2>2 DEF BankEdge
  <2> QED
    BY <1>1, <1>2, <2>3, <2>6, <2>7 DEF CountsOf
<1> QED
  BY <1>3, <1>4, <1>5

\* The tokens mirror the counts.
LEMMA TokensStep ==
  ASSUME LoopInv, NEW in, LoopEdge(in)
  PROVE  TokensExact'
<1> SUFFICES ASSUME NEW b \in Banks
             PROVE  rd_credit_q'[b] <=> written'[b] > rd_issue'[b]
  BY DEF TokensExact
<1> DEFINE req == Req(in)
<1> HIDE DEF req
<1>1. /\ written[b] \in Nat /\ rd_issue[b] \in Nat /\ rd_issue[b] <= written[b]
  BY BankNats DEF LoopInv, CountsOf
<1>2. Edge(req) /\ rd_credit_q'[b] = TokenNext(req, b)
  BY EdgeParts DEF req, ReadEdge
<1>3. BankEdge(req, b)
  BY <1>2, BankNext
<1>4. /\ Allocates(req, b) => ~Writes(req, b) /\ ~Reads(req, b)
      /\ Reads(req, b) => rd_issue[b] < written[b]
  BY MoveFacts DEF req
<1>5. CASE Releases(req, b)
  <2>1. written'[b] = 0 /\ rd_issue'[b] = 0
    BY <1>3, <1>5 DEF BankEdge
  <2> QED
    BY <1>2, <1>5, <2>1 DEF TokenNext
<1>6. CASE ~Releases(req, b) /\ Allocates(req, b)
  <2>1. written'[b] = 0 /\ rd_issue'[b] = 0
    BY <1>3, <1>4, <1>6 DEF BankEdge
  <2> QED
    BY <1>2, <1>6, <2>1 DEF TokenNext
<1>7. CASE ~Releases(req, b) /\ ~Allocates(req, b)
  <2>1. /\ written'[b] = IF Writes(req, b) THEN written[b] + 1 ELSE written[b]
        /\ rd_issue'[b] = IF Reads(req, b) THEN rd_issue[b] + 1 ELSE rd_issue[b]
    BY <1>3, <1>7 DEF BankEdge
  <2>2. CASE Writes(req, b) /\ ~Reads(req, b)
    <3>1. rd_credit_q'[b] = TRUE
      BY <1>2, <1>7, <2>2 DEF TokenNext
    <3> QED
      BY <1>1, <2>1, <2>2, <3>1
  <2>3. CASE Reads(req, b) /\ ~Writes(req, b)
    <3>1. rd_credit_q'[b] <=> written[b] - rd_issue[b] > 1
      BY <1>2, <1>7, <2>3 DEF TokenNext
    <3> QED
      BY <1>1, <2>1, <2>3, <3>1
  <2>4. CASE Writes(req, b) <=> Reads(req, b)
    <3>1. rd_credit_q'[b] <=> written[b] - rd_issue[b] # 0
      BY <1>2, <1>7, <2>4 DEF TokenNext
    <3> QED
      BY <1>1, <2>1, <2>4, <3>1
  <2> QED
    BY <2>2, <2>3, <2>4
<1> QED
  BY <1>5, <1>6, <1>7

LEMMA CommittingStep ==
  ASSUME LoopInv, NEW in, LoopEdge(in)
  PROVE  Committing'
<1> DEFINE req == Req(in)
<1> HIDE DEF req
<1>1. /\ context_done' = IF Done(in) THEN PacketContext ELSE NoContext
      /\ commit_events' =
           IF context_done # NoContext /\ ~context_done.final
           THEN <<[bank |-> context_done.wr_bank, id |-> context_done.id]>>
           ELSE <<>>
  BY CollectNext, EventsNext
<1>2. context_done \in Descriptor \cup {NoContext}
  BY DEF LoopInv, LoopTyped
<1>3. NoContext' = NoContext
  BY DEF NoContext
<1>4. context_done' # NoContext => Done(in) /\ commit_events' = <<>>
  <2> SUFFICES ASSUME context_done' # NoContext
               PROVE  Done(in) /\ commit_events' = <<>>
    OBVIOUS
  <2>1. Done(in)
    BY <1>1
  <2>2. context_done = NoContext
    BY <2>1, PopFacts DEF Done
  <2> QED
    BY <1>1, <2>1, <2>2
\* A context whose last word is written on this edge.
<1>5. ASSUME context_done' # NoContext, ~context_done'.final
      PROVE  /\ Owned(context_done.wr_bank, context_done.id)'
             /\ written'[context_done'.wr_bank] = expected'[context_done'.wr_bank]
             /\ ~writer_done'[context_done'.wr_bank]
  <2>1. Done(in) /\ context_done' = PacketContext
    BY <1>1, <1>4, <1>5
  <2> DEFINE b == PacketContext.wr_bank
  <2>2. packet_valid(in) /\ ~PacketContext.final
    BY <1>5, <2>1, PopFacts DEF Done
  <2>3. b \in Banks
    BY <2>2, PacketFacts
  <2>4. Writes(req, b)
    BY <2>1, <2>2, <2>3, Moves DEF req, Done
  <2>5. /\ written[b] = collected /\ expected[b] = PacketContext.pixels
        /\ allocated[b] /\ ~writer_done[b] /\ Owned(b, PacketContext.id)
        /\ ~Releases(req, b) /\ ~Commits(req, b)
    BY <2>3, <2>4, MoveFacts DEF req
  <2>6. /\ allocated'[b] /\ context'[b] = context[b] /\ epoch'[b] = epoch[b]
        /\ expected'[b] = expected[b] /\ written'[b] = written[b] + 1
        /\ ~writer_done'[b]
    BY <2>3, <2>4, <2>5, BankAfter DEF req
  <2>7. collected + 1 = PacketContext.pixels
    BY <2>1, PopFacts DEF Done, PacketContext
  <2> QED
    BY <2>1, <2>5, <2>6, <2>7 DEF Owned
\* A context whose commit was asked for on this edge.
<1>6. ASSUME commit_events' # <<>>
      PROVE  LET e == Head(commit_events')
             IN /\ Len(commit_events') = 1
                /\ allocated'[e.bank] /\ context'[e.bank] = e.id
                /\ epoch'[e.bank] = EpochOf(e.id)
                /\ written'[e.bank] = expected'[e.bank] /\ ~writer_done'[e.bank]
  <2>1. /\ context_done # NoContext /\ ~context_done.final
        /\ commit_events' = <<[bank |-> context_done.wr_bank, id |-> context_done.id]>>
    BY <1>1, <1>6
  <2> DEFINE b == context_done.wr_bank
  <2>2. b \in Banks
    BY <1>2, <2>1 DEF Descriptor
  <2>3. /\ Owned(b, context_done.id) /\ written[b] = expected[b] /\ ~writer_done[b]
        /\ commit_events = <<>>
    BY <2>1 DEF LoopInv, Committing
  <2>4. ~Releases(req, b) /\ ~Writes(req, b) /\ ~Commits(req, b)
    <3>1. Releases(req, b) => writer_done[b]
      BY <2>2, MoveFacts DEF req
    <3>2. Writes(req, b) => written[b] < expected[b]
      BY <2>2, MoveFacts DEF req
    <3>3. Commits(req, b) => commit_events # <<>>
      BY <2>2, Moves DEF req
    <3>4. written[b] \in Nat
      BY <2>2, BankNats
    <3> QED
      BY <2>3, <3>1, <3>2, <3>3, <3>4
  <2>5. /\ allocated'[b] /\ context'[b] = context[b] /\ epoch'[b] = epoch[b]
        /\ expected'[b] = expected[b] /\ written'[b] = written[b]
        /\ ~writer_done'[b]
    BY <2>2, <2>3, <2>4, BankAfter DEF req, Owned
  <2>6. /\ Len(commit_events') = 1 /\ Head(commit_events').bank = b
        /\ Head(commit_events').id = context_done.id
    BY <2>1
  <2> QED
    BY <2>3, <2>5, <2>6 DEF Owned
<1>7. ASSUME NEW b \in Banks, allocated'[b], written'[b] = expected'[b]
      PROVE  writer_done'[b] \/ CompletedIn(b)' \/ CommittedBy(b)'
  <2>1. CASE Allocates(req, b)
    BY <1>7, <2>1, BankGranted, IssueTypes DEF req
  <2>2. CASE allocated[b] /\ ~Releases(req, b) /\ Writes(req, b)
    <3>1. packet_pop(in) /\ ~PacketContext.final /\ b = PacketContext.wr_bank
      BY <2>2, Moves DEF req
    <3>2. /\ written'[b] = written[b] + 1 /\ expected'[b] = expected[b]
          /\ written[b] = collected /\ expected[b] = PacketContext.pixels
      BY <2>2, BankAfter, MoveFacts DEF req
    <3>3. collected + 1 = PacketContext.pixels
      BY <1>7, <3>2
    <3>4. Done(in)
      BY <3>1, <3>3, PopFacts, CollectTypes DEF PacketContext
    <3>5. collecting # <<>>
      BY <3>1, PopFacts
    <3>6. context_done' = PacketContext /\ PacketContext # NoContext
      BY <1>1, <3>4, <3>5, CollectTypes, NoContextId DEF PacketContext
    <3> QED
      BY <1>3, <3>1, <3>6 DEF CompletedIn
  <2>3. CASE allocated[b] /\ ~Releases(req, b) /\ ~Writes(req, b)
    <3>1. /\ written'[b] = written[b] /\ expected'[b] = expected[b]
          /\ writer_done'[b] <=> Commits(req, b) \/ writer_done[b]
      BY <2>3, BankAfter DEF req
    <3>2. writer_done[b] \/ CompletedIn(b) \/ CommittedBy(b)
      BY <1>7, <2>3, <3>1 DEF LoopInv, Committing
    <3>3. CommittedBy(b) => Commits(req, b)
      BY Moves DEF req, CommittedBy
    <3>4. CompletedIn(b) => CommittedBy(b)'
      BY <1>1 DEF CompletedIn, CommittedBy
    <3> QED
      BY <3>1, <3>2, <3>3, <3>4
  <2> QED
    BY <1>7, <2>1, <2>2, <2>3, HeldAfter DEF req
<1>8. (commit_events # <<>> =>
         LET e == Head(commit_events)
         IN /\ Len(commit_events) = 1 /\ Owned(e.bank, e.id)
            /\ written[e.bank] = expected[e.bank] /\ ~writer_done[e.bank])'
  BY <1>6 DEF Owned
<1>9. (context_done # NoContext /\ ~context_done.final =>
         /\ Owned(context_done.wr_bank, context_done.id)
         /\ written[context_done.wr_bank] = expected[context_done.wr_bank]
         /\ ~writer_done[context_done.wr_bank])'
  BY <1>3, <1>5
<1>10. (context_done # NoContext => commit_events = <<>>)'
  BY <1>3, <1>4
<1>11. (\A b \in Banks :
          allocated[b] /\ written[b] = expected[b] =>
            writer_done[b] \/ CompletedIn(b) \/ CommittedBy(b))'
  BY <1>7
<1> QED
  BY <1>8, <1>9, <1>10, <1>11 DEF Committing

\* The bank that the issued context writes.
LEMMA IssueBankNext ==
  ASSUME LoopInv, NEW in, LoopEdge(in), ~issue.final, alloc_events = <<>>
  PROVE  LET b == issue.wr_bank
         IN /\ allocated'[b] /\ context'[b] = issue.id /\ epoch'[b] = EpochOf(issue.id)
            /\ expected'[b] = issue.pixels
            /\ rd_issue'[b] = 0 /\ rd_return'[b] = 0 /\ ~reader_done'[b]
            /\ written'[b] = IF Left(in) = 0 THEN issue.pixels
                             ELSE IF Left(in) = 1 THEN collected' ELSE 0
<1> DEFINE req == Req(in)
           b == issue.wr_bank
           n == Len(collecting)
<1> HIDE DEF req
<1>1. /\ Owned(b, issue.id) /\ expected[b] = issue.pixels /\ written[b] = IssueWords
      /\ rd_issue[b] = 0 /\ rd_return[b] = 0 /\ ~reader_done[b]
  BY DEF LoopInv, IssueBank
<1>2. /\ b \in Banks /\ b # issue.rd_bank /\ issue.pixels \in Nat \ {0}
  BY IssueTypes
<1>3. ~Releases(req, b)
  <2>1. Releases(req, b) => rd_return[b] = expected[b]
    BY <1>2, MoveFacts DEF req
  <2> QED
    BY <1>1, <1>2, <2>1
<1>4. ~Reads(req, b)
  BY <1>2, Moves DEF req
<1>5. ~(pp_rd_valid /\ b = return_q.bank)
  <2> SUFFICES ASSUME pp_rd_valid, b = return_q.bank PROVE FALSE
    OBVIOUS
  <2>1. CASE return_q.last
    <3>1. rd_issue[b] = expected[b]
      BY <2>1 DEF LoopInv, LastReturning
    <3> QED
      BY <1>1, <1>2, <3>1
  <2>2. CASE ~return_q.last
    <3>1. b = issue.rd_bank
      BY <2>2 DEF LoopInv, Returning
    <3> QED
      BY <1>2, <3>1
  <2> QED
    BY <2>1, <2>2
<1>6. ~Returns(req, b) /\ ~ReturnsLast(req, b)
  BY <1>2, <1>5, Moves DEF req
<1>7. /\ allocated'[b] /\ context'[b] = issue.id /\ epoch'[b] = EpochOf(issue.id)
      /\ expected'[b] = issue.pixels
      /\ rd_issue'[b] = 0 /\ rd_return'[b] = 0 /\ ~reader_done'[b]
      /\ written'[b] = IF Writes(req, b) THEN written[b] + 1 ELSE written[b]
  BY <1>1, <1>2, <1>3, <1>4, <1>6, BankAfter DEF req, Owned
<1>8. /\ n \in Nat /\ (n = 0 <=> collecting = <<>>)
      /\ IssueWords = IF n = 0 THEN issue.pixels ELSE IF n = 1 THEN collected ELSE 0
      /\ Done(in) => Left(in) = n - 1
      /\ ~Done(in) => Left(in) = n
  <2>1. n \in Nat /\ (n = 0 <=> collecting = <<>>)
    BY EmptySeq DEF LoopInv, LoopTyped
  <2>2. IssueWords = IF n = 0 THEN issue.pixels ELSE IF n = 1 THEN collected ELSE 0
    BY <2>1 DEF IssueWords
  <2>3. Done(in) => Left(in) = n - 1
    BY DEF Left
  <2>4. ~Done(in) => Left(in) = n - 0
    BY DEF Left
  <2> QED
    BY <2>1, <2>2, <2>3, <2>4
<1>9. Writes(req, b) <=> packet_pop(in) /\ n = 1
  <2>1. Writes(req, b) <=>
          packet_pop(in) /\ ~PacketContext.final /\ b = PacketContext.wr_bank
    BY <1>2, Moves DEF req
  <2>2. ASSUME packet_pop(in), n = 1
        PROVE  ~PacketContext.final /\ b = PacketContext.wr_bank
    BY <2>2, OneLeft DEF PacketContext
  <2>3. ASSUME packet_pop(in), ~PacketContext.final, b = PacketContext.wr_bank
        PROVE  n = 1
    <3>1. packet_valid(in)
      BY <2>3, PopFacts
    <3> QED
      BY <1>2, <2>3, <3>1, PacketFacts
  <2> QED
    BY <2>1, <2>2, <2>3
<1> HIDE DEF n
<1>10. written'[b] = IF Left(in) = 0 THEN issue.pixels
                     ELSE IF Left(in) = 1 THEN collected' ELSE 0
  <2>1. CASE n = 0
    <3>1. ~packet_pop(in) /\ ~Done(in)
      BY <1>8, <2>1, PopFacts DEF Done
    <3>2. written'[b] = issue.pixels /\ Left(in) = 0
      BY <1>1, <1>7, <1>8, <1>9, <2>1, <3>1
    <3> QED
      BY <3>2
  <2>2. CASE n = 1 /\ ~packet_pop(in)
    <3>1. ~Done(in)
      BY <2>2 DEF Done
    <3>2. Left(in) = 1 /\ collected' = collected
      BY <1>8, <2>2, <3>1, CollectNext
    <3>3. written'[b] = collected
      BY <1>1, <1>7, <1>8, <1>9, <2>2
    <3> QED
      BY <3>2, <3>3
  <2>3. CASE n = 1 /\ packet_pop(in)
    <3>1. written'[b] = collected + 1 /\ Head(collecting) = issue
      BY <1>1, <1>7, <1>8, <1>9, <2>3, OneLeft DEF n
    <3>2. CASE Done(in)
      <4>1. Left(in) = 0 /\ collected + 1 = issue.pixels
        BY <1>8, <2>3, <3>1, <3>2, PopFacts
      <4> QED
        BY <3>1, <4>1
    <3>3. CASE ~Done(in)
      <4>1. Left(in) = 1 /\ collected' = collected + 1
        BY <1>8, <2>3, <3>3, CollectNext
      <4> QED
        BY <3>1, <4>1
    <3> QED
      BY <3>2, <3>3
  <2>4. CASE n >= 2
    <3>1. written'[b] = 0
      BY <1>1, <1>7, <1>8, <1>9, <2>4
    <3>2. Left(in) # 0 /\ (Left(in) = 1 => Done(in))
      BY <1>8, <2>4
    <3>3. Left(in) = 1 => collected' = 0
      BY <3>2, CollectNext
    <3> QED
      BY <3>1, <3>2, <3>3
  <2> QED
    BY <1>8, <2>1, <2>2, <2>3, <2>4
<1> QED
  BY <1>7, <1>10

\* The bank that the issued context reads.
LEMMA ParentBankNext ==
  ASSUME LoopInv, NEW in, LoopEdge(in), computing, ~issue.first
  PROVE  LET b == issue.rd_bank
         IN /\ allocated'[b] /\ context'[b] = issue.parent
            /\ epoch'[b] = EpochOf(issue.parent) /\ expected'[b] = issue.pixels
            /\ rd_issue'[b] = IF compute_fire(in) THEN pixel_addr + 1 ELSE pixel_addr
            /\ rd_return'[b] = pixel_addr /\ ~reader_done'[b]
            /\ written'[b] = IF ~ParentWaits \/ Left(in) < 2 THEN issue.pixels
                             ELSE IF Left(in) = 2 THEN collected' ELSE 0
<1> DEFINE req == Req(in)
           b == issue.rd_bank
           n == Len(collecting)
<1> HIDE DEF req
<1>1. /\ Owned(b, issue.parent) /\ expected[b] = issue.pixels
      /\ written[b] = ParentWords /\ rd_issue[b] = pixel_addr
      /\ rd_return[b] = pixel_addr - (IF pp_rd_valid /\ ~return_q.last THEN 1 ELSE 0)
      /\ ~reader_done[b]
  BY DEF LoopInv, ParentBank
<1>2. /\ b \in Banks /\ b # issue.wr_bank /\ issue.pixels \in Nat \ {0}
      /\ pixel_addr \in Nat /\ pixel_addr < issue.pixels
  BY IssueTypes, ComputingFacts
<1>3. ~Releases(req, b)
  <2>1. Releases(req, b) => rd_issue[b] = expected[b]
    BY <1>2, MoveFacts DEF req
  <2> QED
    BY <1>1, <1>2, <2>1
<1>4. Reads(req, b) <=> compute_fire(in)
  BY <1>2, Moves DEF req
<1>5. Returns(req, b) <=> pp_rd_valid /\ ~return_q.last
  <2>1. Returns(req, b) <=> pp_rd_valid /\ b = return_q.bank
    BY <1>2, Moves DEF req
  <2>2. ASSUME pp_rd_valid, return_q.last PROVE b # return_q.bank
    <3>1. rd_issue[return_q.bank] = expected[return_q.bank]
      BY <2>2 DEF LoopInv, LastReturning
    <3> QED
      BY <1>1, <1>2, <3>1
  <2>3. pp_rd_valid /\ ~return_q.last => b = return_q.bank
    BY DEF LoopInv, Returning
  <2> QED
    BY <2>1, <2>2, <2>3
<1>6. ~ReturnsLast(req, b)
  <2>1. ReturnsLast(req, b) => pp_rd_valid /\ return_q.last /\ Returns(req, b)
    BY <1>2, Moves DEF req
  <2> QED
    BY <1>5, <2>1
<1>7. /\ allocated'[b] /\ context'[b] = issue.parent
      /\ epoch'[b] = EpochOf(issue.parent) /\ expected'[b] = issue.pixels
      /\ written'[b] = IF Writes(req, b) THEN written[b] + 1 ELSE written[b]
      /\ rd_issue'[b] = IF Reads(req, b) THEN rd_issue[b] + 1 ELSE rd_issue[b]
      /\ rd_return'[b] = IF Returns(req, b) THEN rd_return[b] + 1 ELSE rd_return[b]
      /\ ~reader_done'[b]
  BY <1>1, <1>2, <1>3, <1>6, BankAfter DEF req, Owned
<1>8. rd_return'[b] = pixel_addr
  <2>1. CASE pp_rd_valid /\ ~return_q.last
    BY <1>1, <1>2, <1>5, <1>7, <2>1
  <2>2. CASE ~(pp_rd_valid /\ ~return_q.last)
    BY <1>1, <1>2, <1>5, <1>7, <2>2
  <2> QED
    BY <2>1, <2>2
<1>9. rd_issue'[b] = IF compute_fire(in) THEN pixel_addr + 1 ELSE pixel_addr
  BY <1>1, <1>4, <1>7
<1>10. /\ n \in Nat /\ (ParentWaits => n >= 2)
       /\ ParentWords = IF ~ParentWaits THEN issue.pixels
                        ELSE IF n = 2 THEN collected ELSE 0
       /\ Done(in) => Left(in) = n - 1
       /\ ~Done(in) => Left(in) = n
  <2>1. n \in Nat /\ (ParentWaits => n >= 2)
    BY DEF LoopInv, LoopTyped, ParentWaits
  <2>2. ParentWords = IF ~ParentWaits THEN issue.pixels
                      ELSE IF n = 2 THEN collected ELSE 0
    BY DEF ParentWords
  <2>3. Done(in) => Left(in) = n - 1
    BY DEF Left
  <2>4. ~Done(in) => Left(in) = n - 0
    BY DEF Left
  <2> QED
    BY <2>1, <2>2, <2>3, <2>4
<1>11. Writes(req, b) <=> packet_pop(in) /\ ParentWaits /\ n = 2
  <2>1. Writes(req, b) <=>
          packet_pop(in) /\ ~PacketContext.final /\ b = PacketContext.wr_bank
    BY <1>2, Moves DEF req
  <2>2. ASSUME packet_pop(in), ParentWaits, n = 2
        PROVE  ~PacketContext.final /\ b = PacketContext.wr_bank
    <3>1. PacketContext = collecting[1]
      BY <2>2, CollectTypes, PopFacts DEF PacketContext
    <3>2. ~collecting[1].final /\ collecting[1].wr_bank = issue.rd_bank
      BY <2>2 DEF ParentWaits, LoopInv, Queued
    <3> QED
      BY <3>1, <3>2
  <2>3. ASSUME packet_pop(in), ~PacketContext.final, b = PacketContext.wr_bank
        PROVE  ParentWaits /\ n = 2
    <3>1. packet_valid(in)
      BY <2>3, PopFacts
    <3> QED
      BY <1>2, <2>3, <3>1, PacketFacts
  <2> QED
    BY <2>1, <2>2, <2>3
<1> HIDE DEF n
<1>12. written'[b] = IF ~ParentWaits \/ Left(in) < 2 THEN issue.pixels
                     ELSE IF Left(in) = 2 THEN collected' ELSE 0
  <2>1. CASE ~ParentWaits
    BY <1>1, <1>7, <1>10, <1>11, <2>1
  <2>2. CASE ParentWaits /\ n = 2 /\ ~packet_pop(in)
    <3>1. ~Done(in)
      BY <2>2 DEF Done
    <3>2. Left(in) = 2 /\ collected' = collected
      BY <1>10, <2>2, <3>1, CollectNext
    <3>3. written'[b] = collected
      BY <1>1, <1>7, <1>10, <1>11, <2>2
    <3> QED
      BY <2>2, <3>2, <3>3
  <2>3. CASE ParentWaits /\ n = 2 /\ packet_pop(in)
    <3>1. written'[b] = collected + 1
      BY <1>1, <1>7, <1>10, <1>11, <2>3
    <3>2. CASE Done(in)
      <4>1. Left(in) = 1 /\ collected + 1 = Head(collecting).pixels
        BY <1>10, <2>3, <3>2, PopFacts
      <4>2. Head(collecting).pixels = issue.pixels
        <5>1. Head(collecting) = collecting[1]
          BY <2>3, CollectTypes, PopFacts
        <5>2. collecting[1].pixels = issue.pixels
          BY <2>3 DEF LoopInv, Queued, n
        <5> QED
          BY <5>1, <5>2
      <4> QED
        BY <3>1, <4>1, <4>2
    <3>3. CASE ~Done(in)
      <4>1. Left(in) = 2 /\ collected' = collected + 1
        BY <1>10, <2>3, <3>3, CollectNext
      <4> QED
        BY <2>3, <3>1, <4>1
    <3> QED
      BY <3>2, <3>3
  <2>4. CASE ParentWaits /\ n # 2
    <3>1. n >= 3
      BY <1>10, <2>4
    <3>2. written'[b] = 0
      BY <1>1, <1>7, <1>10, <1>11, <2>4
    <3>3. Left(in) >= 2 /\ (Left(in) = 2 => Done(in))
      BY <1>10, <3>1
    <3>4. Left(in) = 2 => collected' = 0
      BY <3>3, CollectNext
    <3>5. ~(Left(in) < 2)
      BY <1>10, <3>1, <3>3
    <3> QED
      BY <2>4, <3>2, <3>4, <3>5
  <2> QED
    BY <2>1, <2>2, <2>3, <2>4
<1> QED
  BY <1>7, <1>8, <1>9, <1>12

LEMMA IssueBankStep ==
  ASSUME LoopInv, NEW in, LoopEdge(in)
  PROVE  IssueBank'
<1> SUFFICES ASSUME ~issue'.final, alloc_events' = <<>>
             PROVE  LET b == issue'.wr_bank
                    IN /\ allocated'[b] /\ context'[b] = issue'.id
                       /\ epoch'[b] = EpochOf(issue'.id)
                       /\ expected'[b] = issue'.pixels /\ written'[b] = IssueWords'
                       /\ rd_issue'[b] = 0 /\ rd_return'[b] = 0 /\ ~reader_done'[b]
  BY DEF IssueBank, Owned
<1>1. ~Admits(in) /\ issue' = issue
  BY EventsNext, CoreNext
<1>2. IssueWords' = IF Left(in) = 0 THEN issue.pixels
                    ELSE IF Left(in) = 1 THEN collected' ELSE 0
  <2>1. /\ collecting' \in Seq(Descriptor) /\ Len(collecting') = Left(in)
        /\ Left(in) \in Nat
    BY <1>1, CollectNext
  <2>2. collecting' = <<>> <=> Left(in) = 0
    BY <2>1, EmptySeq
  <2> QED
    BY <1>1, <2>1, <2>2 DEF IssueWords
<1>3. CASE alloc_events = <<>>
  BY <1>1, <1>2, <1>3, IssueBankNext
<1>4. CASE alloc_events # <<>>
  <2>1. Allocates(Req(in), issue.wr_bank)
    <3>1. alloc_events # <<>> /\ AllocReady(AllocRequest)
      BY <1>1, <1>4, EventsNext
    <3> QED
      BY <3>1, IssueTypes, Moves
  <2>2. LET b == issue.wr_bank
        IN /\ allocated'[b] /\ context'[b] = issue.id /\ epoch'[b] = EpochOf(issue.id)
           /\ expected'[b] = issue.pixels
           /\ written'[b] = 0 /\ rd_issue'[b] = 0 /\ rd_return'[b] = 0
           /\ ~reader_done'[b]
    BY <2>1, IssueTypes, BankGranted
  <2>3. computing /\ pixel_addr = 0
    BY <1>4 DEF LoopInv, Permitted
  <2>4. Left(in) # 0
    BY <2>3, IssueStays, CollectNext
  <2>5. Left(in) = 1 => collected' = 0
    <3> SUFFICES ASSUME Left(in) = 1, ~Done(in) PROVE collected' = 0
      BY CollectNext
    <3>1. Len(collecting) - 0 = 1 /\ Len(collecting) \in Nat
      BY CollectNext DEF Left
    <3>2. Len(collecting) = 1
      BY <3>1
    <3>3. ~packet_pop(in)
      BY <2>3, <3>2, PopFacts, PacketFacts
    <3>4. in_flight + collected + (issue.pixels - 0) = issue.pixels
      BY <2>3, <3>2, OneLeft DEF Rest
    <3>5. collected = 0
      BY <3>4, IssueTypes DEF LoopInv, LoopTyped
    <3> QED
      BY <3>3, <3>5, CollectNext
  <2> QED
    BY <1>1, <1>2, <2>2, <2>4, <2>5
<1> QED
  BY <1>3, <1>4

LEMMA ParentBankStep ==
  ASSUME LoopInv, NEW in, LoopEdge(in)
  PROVE  ParentBank'
<1> DEFINE away == IF pp_rd_valid' /\ ~return_q'.last THEN 1 ELSE 0
<1> SUFFICES ASSUME computing', ~issue'.first
             PROVE  LET b == issue'.rd_bank
                    IN /\ allocated'[b] /\ context'[b] = issue'.parent
                       /\ epoch'[b] = EpochOf(issue'.parent)
                       /\ expected'[b] = issue'.pixels /\ written'[b] = ParentWords'
                       /\ rd_issue'[b] = pixel_addr'
                       /\ rd_return'[b] = pixel_addr' - away
                       /\ ~reader_done'[b]
  BY DEF ParentBank, Owned
<1>1. Left(in) \in Nat /\ Len(collecting') = Left(in) + (IF Admits(in) THEN 1 ELSE 0)
  BY CollectNext
<1>2. CASE Admits(in)
  <2>1. issue' = Prepared /\ pixel_addr' = 0
    BY <1>2, CoreNext
  <2>2. pass # 0
    BY <2>1, PreparedTypes
  <2>3. /\ Prepared.parent = issue.id /\ Prepared.pixels = issue.pixels
        /\ Prepared.rd_bank = issue.wr_bank /\ ~issue.final
    BY <2>2, PreparedTypes
  <2>4. alloc_events = <<>>
    BY <1>2, AdmitFacts
  <2>5. LET b == issue.wr_bank
        IN /\ allocated'[b] /\ context'[b] = issue.id /\ epoch'[b] = EpochOf(issue.id)
           /\ expected'[b] = issue.pixels
           /\ rd_issue'[b] = 0 /\ rd_return'[b] = 0 /\ ~reader_done'[b]
           /\ written'[b] = IF Left(in) = 0 THEN issue.pixels
                            ELSE IF Left(in) = 1 THEN collected' ELSE 0
    BY <2>3, <2>4, IssueBankNext
  <2>6. ParentWords' = IF Left(in) = 0 THEN issue.pixels
                       ELSE IF Left(in) = 1 THEN collected' ELSE 0
    <3>1. ParentWaits' <=> Left(in) >= 1
      BY <1>2, <2>3, WaitsNext
    <3>2. Len(collecting') = 2 <=> Left(in) = 1
      BY <1>1, <1>2
    <3> QED
      BY <1>1, <2>1, <2>3, <3>1, <3>2 DEF ParentWords
  <2>7. away = 0
    <3>1. pp_rd_valid' => compute_fire(in) /\ ~issue.first
      BY CoreNext
    <3>2. compute_fire(in) => computing
      BY FireFacts
    <3>3. compute_fire(in) => psum_score_rd_last
      BY <1>2, <3>2, AdmitFacts
    <3>4. ASSUME pp_rd_valid' PROVE return_q'.last
      <4>1. return_q' = [bank |-> issue.rd_bank, id |-> issue.parent,
                         last |-> psum_score_rd_last]
        BY <3>1, <3>4, CoreNext
      <4> QED
        BY <3>1, <3>3, <3>4, <4>1
    <3> QED
      BY <3>4
  <2> HIDE DEF away
  <2> QED
    BY <2>1, <2>3, <2>5, <2>6, <2>7
<1>3. CASE ~Admits(in)
  <2>1. /\ issue' = issue /\ computing
        /\ ~(compute_fire(in) /\ psum_score_rd_last)
        /\ pixel_addr' = IF compute_fire(in) THEN pixel_addr + 1 ELSE pixel_addr
    BY <1>3, CoreNext
  <2>2. LET b == issue.rd_bank
        IN /\ allocated'[b] /\ context'[b] = issue.parent
           /\ epoch'[b] = EpochOf(issue.parent) /\ expected'[b] = issue.pixels
           /\ rd_issue'[b] = IF compute_fire(in) THEN pixel_addr + 1 ELSE pixel_addr
           /\ rd_return'[b] = pixel_addr /\ ~reader_done'[b]
           /\ written'[b] = IF ~ParentWaits \/ Left(in) < 2 THEN issue.pixels
                            ELSE IF Left(in) = 2 THEN collected' ELSE 0
    BY <2>1, ParentBankNext
  <2>3. ParentWords' = IF ~ParentWaits \/ Left(in) < 2 THEN issue.pixels
                       ELSE IF Left(in) = 2 THEN collected' ELSE 0
    <3>1. ParentWaits' <=> ParentWaits /\ Left(in) >= 2
      BY <1>3, WaitsNext
    <3>2. Len(collecting') = 2 <=> Left(in) = 2
      BY <1>1, <1>3
    <3> QED
      BY <1>1, <2>1, <3>1, <3>2 DEF ParentWords
  <2>4. away = IF compute_fire(in) THEN 1 ELSE 0
    <3>1. CASE compute_fire(in)
      <4>1. pp_rd_valid' /\ return_q'.last = psum_score_rd_last
        BY <2>1, <3>1, CoreNext
      <4> QED
        BY <2>1, <3>1, <4>1
    <3>2. CASE ~compute_fire(in)
      BY <3>2, CoreNext
    <3> QED
      BY <3>1, <3>2
  <2> HIDE DEF away
  <2> QED
    BY <2>1, <2>2, <2>3, <2>4, IssueTypes
<1> QED
  BY <1>2, <1>3

LEMMA ReturningStep ==
  ASSUME LoopInv, NEW in, LoopEdge(in)
  PROVE  Returning'
<1> SUFFICES ASSUME pp_rd_valid', ~return_q'.last
             PROVE  /\ computing' /\ ~issue'.first /\ pixel_addr' # 0
                    /\ return_q'.bank = issue'.rd_bank /\ return_q'.id = issue'.parent
  BY DEF Returning
<1>1. /\ compute_fire(in) /\ ~issue.first /\ ~psum_score_rd_last
      /\ return_q'.bank = issue.rd_bank /\ return_q'.id = issue.parent
  BY CoreNext
<1>2. computing /\ ~Admits(in)
  BY <1>1, FireFacts, AdmitFacts
<1>3. computing' /\ issue' = issue /\ pixel_addr' = pixel_addr + 1
  BY <1>1, <1>2, CoreNext
<1> QED
  BY <1>1, <1>3, IssueTypes

LEMMA LastReturningStep ==
  ASSUME LoopInv, NEW in, LoopEdge(in)
  PROVE  LastReturning'
<1> SUFFICES ASSUME pp_rd_valid', return_q'.last
             PROVE  LET b == return_q'.bank
                    IN /\ allocated'[b] /\ context'[b] = return_q'.id
                       /\ epoch'[b] = EpochOf(return_q'.id)
                       /\ written'[b] = expected'[b]
                       /\ rd_issue'[b] = expected'[b]
                       /\ rd_return'[b] + 1 = expected'[b]
                       /\ ~(/\ context_done' # NoContext /\ ~context_done'.final
                            /\ context_done'.wr_bank = b)
                       /\ release_events' = <<>>
                       /\ issue'.id \in {Succ(return_q'.id), Succ(Succ(return_q'.id))}
                       /\ computing' => pixel_addr' = 0 /\ (issue'.first \/ ParentWaits')
  <2>a. NoContext' = NoContext
    BY DEF NoContext
  <2> QED
    BY <2>a DEF LastReturning, Owned, CompletedIn, Succ
<1>1. /\ compute_fire(in) /\ ~issue.first /\ psum_score_rd_last
      /\ return_q'.bank = issue.rd_bank /\ return_q'.id = issue.parent
  BY CoreNext
<1> DEFINE b == issue.rd_bank
<1>2. computing /\ pixel_addr + 1 = issue.pixels
  BY <1>1, FireFacts, IssueTypes DEF psum_score_rd_last
<1>3. /\ allocated'[b] /\ context'[b] = issue.parent
      /\ epoch'[b] = EpochOf(issue.parent) /\ expected'[b] = issue.pixels
      /\ rd_issue'[b] = pixel_addr + 1 /\ rd_return'[b] = pixel_addr
      /\ written'[b] = IF ~ParentWaits \/ Left(in) < 2 THEN issue.pixels
                       ELSE IF Left(in) = 2 THEN collected' ELSE 0
  BY <1>1, <1>2, ParentBankNext
<1>4. ~ParentWaits
  BY <1>1, ParentFirst
<1>5. written'[b] = expected'[b] /\ rd_issue'[b] = expected'[b]
      /\ rd_return'[b] + 1 = expected'[b]
  BY <1>2, <1>3, <1>4
\* No word was written to the bank on this edge, so no context completes in it.
<1>6. ~(/\ context_done' # NoContext /\ ~context_done'.final
        /\ context_done'.wr_bank = b)
  <2> SUFFICES ASSUME context_done' # NoContext, ~context_done'.final,
                      context_done'.wr_bank = b
               PROVE  FALSE
    OBVIOUS
  <2>1. Done(in) /\ context_done' = PacketContext
    BY CollectNext
  <2>2. packet_valid(in)
    BY <2>1, PopFacts DEF Done
  <2>3. b # issue.wr_bank
    BY IssueTypes
  <2> QED
    BY <1>4, <2>1, <2>2, <2>3, PacketFacts
<1>7. release_events' = <<>>
  <2>1. ~(pp_rd_valid /\ return_q.last)
    BY <1>1, <1>2, <1>4 DEF LoopInv, LastReturning
  <2> QED
    BY <2>1, EventsNext
<1>8. issue'.id \in {Succ(issue.parent), Succ(Succ(issue.parent))}
  <2>1. Succ(issue.parent) = issue.id
    BY <1>1 DEF LoopInv, Lineage
  <2>2. Succ(issue.id) = next_context_id_q
    BY <1>2, ComputingFacts DEF LoopInv, Lineage
  <2>3. issue' = IF Admits(in) THEN Prepared ELSE issue
    BY CoreNext
  <2> QED
    BY <2>1, <2>2, <2>3, PreparedTypes
<1>9. ASSUME computing'
      PROVE  pixel_addr' = 0 /\ (issue'.first \/ ParentWaits')
  <2>1. Admits(in) /\ pixel_addr' = 0 /\ issue' = Prepared
    BY <1>1, <1>9, CoreNext
  <2>2. CASE pass = 0
    BY <2>1, <2>2, PreparedTypes
  <2>3. CASE pass # 0
    <3>1. ~issue.final
      BY <2>3, PreparedTypes
    <3>2. Left(in) >= 1
      BY <1>2, IssueStays
    <3> QED
      BY <2>1, <3>1, <3>2, WaitsNext
  <2> QED
    BY <2>1, <2>2, <2>3
<1> QED
  BY <1>1, <1>3, <1>5, <1>6, <1>7, <1>8, <1>9

LEMMA ReleasingStep ==
  ASSUME LoopInv, NEW in, LoopEdge(in)
  PROVE  Releasing'
<1> SUFFICES ASSUME release_events' # <<>>
             PROVE  (LET e == Head(release_events)
                     IN /\ Len(release_events) = 1 /\ Owned(e.bank, e.id)
                        /\ written[e.bank] = expected[e.bank]
                        /\ rd_issue[e.bank] = expected[e.bank]
                        /\ rd_return[e.bank] = expected[e.bank]
                        /\ writer_done[e.bank] /\ reader_done[e.bank]
                        /\ issue.id \in {Succ(e.id), Succ(Succ(e.id)),
                                         Succ(Succ(Succ(e.id)))})'
  BY DEF Releasing
<1> DEFINE req == Req(in)
           b == return_q.bank
<1> HIDE DEF req
<1>1. /\ pp_rd_valid /\ return_q.last
      /\ release_events' = <<[bank |-> b, id |-> return_q.id]>>
  BY EventsNext
<1>2. b \in Banks /\ return_q.id \in Context
  BY DEF LoopInv, LoopTyped
<1>3. /\ Owned(b, return_q.id) /\ written[b] = expected[b]
      /\ rd_issue[b] = expected[b] /\ rd_return[b] + 1 = expected[b]
      /\ ~CompletedIn(b) /\ release_events = <<>>
      /\ issue.id \in {Succ(return_q.id), Succ(Succ(return_q.id))}
  BY <1>1 DEF LoopInv, LastReturning
<1>4. written[b] \in Nat /\ expected[b] \in Nat
  BY <1>2, BankNats
<1>5. /\ ~Releases(req, b) /\ ~Writes(req, b) /\ ~Reads(req, b)
      /\ Returns(req, b) /\ ReturnsLast(req, b)
  <2>1. ~Releases(req, b) /\ Returns(req, b) /\ ReturnsLast(req, b)
    BY <1>1, <1>2, <1>3, Moves DEF req
  <2>2. Writes(req, b) => written[b] < expected[b]
    BY <1>2, MoveFacts DEF req
  <2>3. Reads(req, b) => rd_issue[b] < written[b]
    BY <1>2, MoveFacts DEF req
  <2> QED
    BY <1>3, <1>4, <2>1, <2>2, <2>3
<1>6. writer_done[b] \/ Commits(req, b)
  <2>1. writer_done[b] \/ CommittedBy(b)
    BY <1>2, <1>3 DEF LoopInv, Committing, Owned
  <2> QED
    BY <1>2, <2>1, Moves DEF req, CommittedBy
<1>7. /\ allocated'[b] /\ context'[b] = return_q.id /\ epoch'[b] = EpochOf(return_q.id)
      /\ written'[b] = expected'[b] /\ rd_issue'[b] = expected'[b]
      /\ rd_return'[b] = expected'[b] /\ writer_done'[b] /\ reader_done'[b]
  BY <1>2, <1>3, <1>5, <1>6, BankAfter DEF req, Owned
<1>8. issue'.id \in {Succ(return_q.id), Succ(Succ(return_q.id)),
                     Succ(Succ(Succ(return_q.id)))}
  <2>1. issue.id \in Context
    BY <1>2, <1>3, Wraps
  <2>2. issue # NoContext
    BY <2>1, IdAssumption DEF NoContext
  <2>3. Succ(issue.id) = next_context_id_q
    BY <2>2 DEF LoopInv, Lineage
  <2>4. issue' = IF Admits(in) THEN Prepared ELSE issue
    BY CoreNext
  <2> QED
    BY <1>3, <2>3, <2>4, PreparedTypes
<1>9. /\ Len(release_events') = 1 /\ Head(release_events').bank = b
      /\ Head(release_events').id = return_q.id
  BY <1>1
<1> QED
  BY <1>7, <1>8, <1>9 DEF Owned, Succ

LEMMA AccountedStep ==
  ASSUME LoopInv, NEW in, LoopEdge(in)
  PROVE  Accounted'
<1> SUFFICES ASSUME NEW b \in Banks, allocated'[b]
             PROVE  \/ ~issue'.final /\ alloc_events' = <<>> /\ b = issue'.wr_bank
                    \/ computing' /\ ~issue'.first /\ b = issue'.rd_bank
                    \/ pp_rd_valid' /\ return_q'.last /\ b = return_q'.bank
                    \/ release_events' # <<>> /\ b = Head(release_events').bank
  BY DEF Accounted
<1>1. CASE Allocates(Req(in), b)
  <2>1. /\ alloc_events # <<>> /\ b = issue.wr_bank
        /\ AllocReady(AllocRequest)
    BY <1>1, Moves
  <2>2. ~Admits(in) /\ ~issue.final
    BY <2>1, AdmitFacts DEF LoopInv, Permitted
  <2> QED
    BY <2>1, <2>2, EventsNext, CoreNext
<1>2. CASE allocated[b] /\ ~Releases(Req(in), b)
  <2>1. \/ ~issue.final /\ alloc_events = <<>> /\ b = issue.wr_bank
        \/ computing /\ ~issue.first /\ b = issue.rd_bank
        \/ pp_rd_valid /\ return_q.last /\ b = return_q.bank
        \/ release_events # <<>> /\ b = Head(release_events).bank
    BY <1>2 DEF LoopInv, Accounted
  <2>2. CASE ~issue.final /\ alloc_events = <<>> /\ b = issue.wr_bank
    <3>1. CASE Admits(in)
      <4>1. pass # 0
        BY <2>2 DEF LoopInv, Lineage
      <4> QED
        BY <2>2, <3>1, <4>1, CoreNext, PreparedTypes
    <3>2. CASE ~Admits(in)
      BY <2>2, <3>2, CoreNext, EventsNext
    <3> QED
      BY <3>1, <3>2
  <2>3. CASE computing /\ ~issue.first /\ b = issue.rd_bank
    <3>1. CASE compute_fire(in) /\ psum_score_rd_last
      BY <2>3, <3>1, CoreNext
    <3>2. CASE ~(compute_fire(in) /\ psum_score_rd_last)
      <4>1. ~Admits(in)
        BY <2>3, <3>2, AdmitFacts
      <4> QED
        BY <2>3, <3>2, <4>1, CoreNext
    <3> QED
      BY <3>1, <3>2
  <2>4. CASE pp_rd_valid /\ return_q.last /\ b = return_q.bank
    <3>1. release_events' = <<[bank |-> return_q.bank, id |-> return_q.id]>>
      BY <2>4, EventsNext
    <3>2. release_events' # <<>> /\ Head(release_events').bank = b
      BY <2>4, <3>1
    <3> QED
      BY <3>2
  <2>5. CASE release_events # <<>> /\ b = Head(release_events).bank
    BY <1>2, <2>5, Moves
  <2> QED
    BY <2>1, <2>2, <2>3, <2>4, <2>5
<1> QED
  BY <1>1, <1>2, HeldAfter

\* The bank that the next context, or the one that waits for its allocation,
\* is going to write is still another context's.
LEMMA NotYetOwned ==
  ASSUME LoopInv, NEW b \in Banks, NEW id \in Context,
         \/ alloc_events # <<>> /\ b = issue.wr_bank /\ id = issue.id
         \/ ~Prepared.final /\ b = Prepared.wr_bank /\ id = Prepared.id
  PROVE  ~Owns(b, id)
<1> SUFFICES ASSUME allocated[b], context[b] = id PROVE FALSE
  BY DEF Owns
<1>1. \/ ~issue.final /\ alloc_events = <<>> /\ b = issue.wr_bank
      \/ computing /\ ~issue.first /\ b = issue.rd_bank
      \/ pp_rd_valid /\ return_q.last /\ b = return_q.bank
      \/ release_events # <<>> /\ b = Head(release_events).bank
  BY DEF LoopInv, Accounted
<1>2. issue # NoContext => Succ(issue.id) = Prepared.id
  BY PreparedTypes DEF LoopInv, Lineage
<1>3. issue.id \in Context => issue # NoContext
  BY IdAssumption DEF NoContext
<1>4. CASE ~issue.final /\ alloc_events = <<>> /\ b = issue.wr_bank
  <2>1. pass # 0
    BY <1>4 DEF LoopInv, Lineage
  <2>2. Prepared.rd_bank = issue.wr_bank /\ Prepared.rd_bank = 1 - Prepared.wr_bank
        /\ Prepared.wr_bank = pass % 2
    BY <2>1, PreparedTypes
  <2>3. pass \in Nat
    BY ChainsAssumption DEF LoopInv, LoopTyped
  <2>4. b = Prepared.wr_bank
    BY <1>4
  <2>5. Prepared.wr_bank \in {0, 1}
    BY <2>2, <2>3
  <2> QED
    BY <1>4, <2>2, <2>4, <2>5
<1>5. CASE computing /\ ~issue.first /\ b = issue.rd_bank
  <2>1. context[b] = issue.parent
    BY <1>5 DEF LoopInv, ParentBank, Owned
  <2>2. Succ(issue.parent) = issue.id /\ issue # NoContext
    BY <1>5, ComputingFacts DEF LoopInv, Lineage
  <2>3. id \in {Succ(issue.parent), Succ(Succ(issue.parent))}
    BY <1>2, <2>2
  <2> QED
    BY <2>1, <2>3, IssueTypes, Successors
<1>6. CASE pp_rd_valid /\ return_q.last /\ b = return_q.bank
  <2>1. context[b] = return_q.id
        /\ issue.id \in {Succ(return_q.id), Succ(Succ(return_q.id))}
    BY <1>6 DEF LoopInv, LastReturning, Owned
  <2>2. return_q.id \in Context
    BY DEF LoopInv, LoopTyped
  <2>3. issue.id \in Context
    BY <2>1, <2>2, Wraps
  <2>4. id \in {Succ(return_q.id), Succ(Succ(return_q.id)),
                Succ(Succ(Succ(return_q.id)))}
    BY <1>2, <1>3, <2>1, <2>3
  <2> QED
    BY <2>1, <2>2, <2>4, Successors
<1>7. CASE release_events # <<>> /\ b = Head(release_events).bank
  <2> DEFINE e == Head(release_events)
  <2>1. context[b] = e.id
        /\ issue.id \in {Succ(e.id), Succ(Succ(e.id)), Succ(Succ(Succ(e.id)))}
    BY <1>7 DEF LoopInv, Releasing, Owned
  <2>2. e.id \in Context
    <3>1. release_events \in Seq(Event) /\ release_events # <<>>
      BY <1>7 DEF LoopInv, LoopTyped
    <3>2. e \in Event
      BY <3>1
    <3> QED
      BY <3>2 DEF Event
  <2>3. issue.id \in Context
    <3>1. Succ(e.id) \in Context
      BY <2>2, Wraps
    <3>2. Succ(Succ(e.id)) \in Context
      BY <3>1, Wraps
    <3>3. Succ(Succ(Succ(e.id))) \in Context
      BY <3>2, Wraps
    <3> QED
      BY <2>1, <3>1, <3>2, <3>3
  <2>4. id \in {Succ(e.id), Succ(Succ(e.id)), Succ(Succ(Succ(e.id))),
                Succ(Succ(Succ(Succ(e.id))))}
    BY <1>2, <1>3, <2>1, <2>3
  <2> HIDE DEF e
  <2> QED
    BY <2>1, <2>2, <2>4, Successors
<1> QED
  BY <1>1, <1>4, <1>5, <1>6, <1>7

LEMMA PermittedStep ==
  ASSUME LoopInv, NEW in, LoopEdge(in)
  PROVE  Permitted'
<1>1. issue_psum_owner_permit_q' = PermitNext(Admits(in))
  BY EdgeParts DEF IssueEdge
<1>2. CASE Admits(in)
  <2>1. /\ computing' /\ pixel_addr' = 0 /\ issue' = Prepared
        /\ alloc_events = <<>>
    BY <1>2, CoreNext, AdmitFacts
  <2>2. alloc_events' = IF ~Prepared.final
                        THEN <<[bank |-> Prepared.wr_bank, id |-> Prepared.id,
                                pixels |-> Prepared.pixels]>>
                        ELSE <<>>
    BY <1>2, <2>1, EventsNext
  <2>3. alloc_events' = <<>> <=> Prepared.final
    BY <2>2
  <2>4. issue_psum_owner_permit_q' <=> BanksOwnedNext(Prepared)
    BY <1>1, <1>2 DEF PermitNext
  <2>5. Prepared.first \/ OwnsNext(Prepared.rd_bank, Prepared.parent)
    <3> SUFFICES ASSUME pass # 0
                 PROVE  Owns(Prepared.rd_bank, Prepared.parent)
      BY PreparedTypes DEF OwnsNext
    <3>1. Owned(issue.wr_bank, issue.id)
      BY <2>1, PreparedTypes DEF LoopInv, IssueBank
    <3> QED
      BY <3>1, PreparedTypes DEF Owned, Owns
  <2>6. ~Prepared.final => ~OwnsNext(Prepared.wr_bank, Prepared.id)
    <3>1. Prepared.wr_bank \in Banks /\ Prepared.id \in Context
      BY PreparedTypes DEF Descriptor
    <3>2. ~AllocatesTo(Prepared.wr_bank, Prepared.id)
      BY <2>1, AllocPortFacts DEF AllocatesTo
    <3> QED
      BY <3>1, <3>2, NotYetOwned DEF OwnsNext
  <2>7. BanksOwnedNext(Prepared) <=> Prepared.final
    BY <2>5, <2>6 DEF BanksOwnedNext
  <2> QED
    BY <2>1, <2>2, <2>3, <2>4, <2>7 DEF Permitted
<1>3. CASE ~Admits(in) /\ alloc_events # <<>>
  <2>1. /\ computing /\ pixel_addr = 0 /\ ~issue.final
        /\ alloc_events = <<[bank |-> issue.wr_bank, id |-> issue.id,
                             pixels |-> issue.pixels]>>
        /\ ~issue_psum_owner_permit_q
    BY <1>3 DEF LoopInv, Permitted
  <2>2. ~compute_fire(in)
    BY <1>3, FireFacts
  <2>3. computing' /\ pixel_addr' = 0 /\ issue' = issue
    BY <1>3, <2>1, <2>2, CoreNext
  <2>4. alloc_events' = IF AllocReady(AllocRequest) THEN <<>> ELSE alloc_events
    BY <1>3, EventsNext
  <2>5. issue_psum_owner_permit_q' <=> BanksOwnedNext(issue)
    BY <1>1, <1>3, <2>1, ComputingFacts DEF PermitNext
  <2>6. issue.first \/ OwnsNext(issue.rd_bank, issue.parent)
    BY <2>1 DEF LoopInv, ParentBank, Owned, Owns, OwnsNext
  <2>7. AllocatesTo(issue.wr_bank, issue.id) <=> AllocReady(AllocRequest)
    BY <1>3, AllocPortFacts DEF AllocatesTo
  <2>8. ~Owns(issue.wr_bank, issue.id)
    <3>1. issue.id \in Context
      BY <2>1, ComputingFacts DEF Descriptor
    <3> QED
      BY <1>3, <3>1, IssueTypes, NotYetOwned
  <2>9. BanksOwnedNext(issue) <=> AllocReady(AllocRequest)
    BY <2>1, <2>6, <2>7, <2>8 DEF BanksOwnedNext, OwnsNext
  <2> QED
    BY <1>3, <2>1, <2>3, <2>4, <2>5, <2>9 DEF Permitted
<1>4. CASE ~Admits(in) /\ alloc_events = <<>>
  <2>1. alloc_events' = <<>>
    BY <1>4, EventsNext
  <2>2. ASSUME computing' PROVE issue_psum_owner_permit_q'
    <3>1. computing
      BY <1>4, <2>2, CoreNext
    <3>2. issue_psum_owner_permit_q /\ ~RetiresIssue
      BY <1>4, <3>1, ComputingFacts DEF LoopInv, Permitted
    <3> QED
      BY <1>1, <1>4, <3>2 DEF PermitNext
  <2> QED
    BY <2>1, <2>2 DEF Permitted
<1> QED
  BY <1>2, <1>3, <1>4

LEMMA PassNext ==
  ASSUME LoopInv, NEW in, LoopEdge(in)
  PROVE  /\ pass \in Nat /\ chain \in Chains /\ chain.passes \in Nat \ {0}
         /\ ~Admits(in) => pass' = pass /\ chain' = chain
         /\ Admits(in) /\ Prepared.final => pass' = 0 /\ chain' \in Chains
         /\ Admits(in) /\ ~Prepared.final =>
              pass' = pass + 1 /\ chain' = chain /\ pass + 1 < chain.passes
<1>1. pass \in 0 .. chain.passes - 1 /\ chain \in Chains
      /\ chain.passes \in Nat \ {0}
  BY ChainsAssumption DEF LoopInv, LoopTyped
<1>2. Prepared.final <=> pass = chain.passes - 1
  BY PreparedTypes
<1>3. CoreEdge(Admits(in), compute_fire(in))
  BY EdgeParts
<1> QED
  BY <1>1, <1>2, <1>3 DEF CoreEdge

LEMMA LineageStep ==
  ASSUME LoopInv, NEW in, LoopEdge(in)
  PROVE  Lineage'
<1>1. IssueEdge(in, Admits(in), compute_fire(in))
  BY EdgeParts
<1>2. next_context_id_q \in Context
  BY DEF LoopInv, LoopTyped
<1>a. NoContext' = NoContext
  BY DEF NoContext
<1>3. CASE Admits(in)
  <2>1. /\ issue' = Prepared /\ pixel_addr' = 0 /\ computing'
        /\ next_context_id_q' = Succ(next_context_id_q)
        /\ issue_context_active_q'
    BY <1>1, <1>2, <1>3, CoreNext, Wraps DEF IssueEdge
  <2>2. issue'.rd_bank = 1 - issue'.wr_bank /\ Succ(issue'.id) = next_context_id_q'
        /\ issue' # NoContext
    BY <2>1, PreparedTypes
  <2>3. ~issue'.first => Succ(issue'.parent) = issue'.id
    BY <2>1, PreparedTypes
  <2>4. pass' = 0 => issue'.final
    BY <1>3, <2>1, PassNext
  <2>5. ASSUME pass' # 0
        PROVE  /\ ~issue'.final /\ chain_parent_valid_q' /\ chain_parent' = issue'
               /\ issue'.wr_bank = 1 - (pass' % 2) /\ issue'.pixels = chain'.pixels
    <3>1. ~Prepared.final /\ pass' = pass + 1 /\ chain' = chain /\ pass \in Nat
      BY <1>3, <2>5, PassNext
    <3>2. pass % 2 = 1 - ((pass + 1) % 2)
      BY <3>1
    <3> QED
      BY <1>1, <1>3, <2>1, <3>1, <3>2, PreparedTypes DEF IssueEdge
  <2>6. 0 < issue'.pixels
    BY <2>1, PreparedTypes DEF Descriptor
  <2>7. compute_done' => issue_handoff_done_guard_q'
    <3>1. compute_done' => compute_fire(in) /\ issue_context_active_q
      BY CoreNext, FireFacts, ComputingFacts
    <3> QED
      BY <1>1, <1>3, <3>1 DEF IssueEdge
  <2> QED
    BY <1>a, <2>1, <2>2, <2>3, <2>4, <2>5, <2>6, <2>7 DEF Lineage, Succ
<1>4. CASE ~Admits(in)
  <2>1. /\ issue' = issue /\ next_context_id_q' = next_context_id_q
        /\ pass' = pass /\ chain' = chain /\ chain_parent' = chain_parent
        /\ (chain_parent_valid_q' <=> chain_parent_valid_q)
    BY <1>1, <1>4, CoreNext, PassNext DEF IssueEdge
  <2>2. ASSUME computing'
        PROVE  /\ issue_context_active_q' /\ pixel_addr' < issue.pixels /\ ~compute_done'
    <3>1. /\ computing /\ ~(compute_fire(in) /\ psum_score_rd_last)
          /\ ~compute_done'
          /\ pixel_addr' = IF compute_fire(in) THEN pixel_addr + 1 ELSE pixel_addr
      BY <1>4, <2>2, CoreNext
    <3>2. issue_context_active_q /\ ~RetiresIssue /\ pixel_addr < issue.pixels
      BY <3>1, ComputingFacts
    <3>3. issue_context_active_q'
      BY <1>1, <3>2 DEF IssueEdge
    <3>4. pixel_addr' < issue.pixels
      BY <3>1, <3>2, IssueTypes DEF psum_score_rd_last
    <3> QED
      BY <3>1, <3>3, <3>4
  <2> QED
    BY <1>a, <2>1, <2>2 DEF LoopInv, Lineage, Succ
<1> QED
  BY <1>3, <1>4

LEMMA NothingRefusedStep ==
  ASSUME LoopInv, NEW in, LoopEdge(in)
  PROVE  NothingRefused'
<1>1. error' = {}
  BY EdgeParts, NoErrorRaised DEF LoopInv, NothingRefused, Edge
<1>2. event_overflow' = {}
  BY EventsNext
<1>3. IssueEdge(in, Admits(in), compute_fire(in))
  BY EdgeParts
<1>4. Admits(in) /\ ~Prepared.first =>
        chain_parent_valid_q /\ Prepared.rd_bank = chain_parent.wr_bank
  BY PreparedTypes DEF LoopInv, Lineage
<1>5. packet_valid(in) => packet_descriptor_match
  BY PacketFacts
<1>6. ASSUME context_done # NoContext
      PROVE  context_descs # <<>> /\ Head(context_descs) = context_done
  <2>1. context_descs = <<context_done>> \o collecting
    BY <1>6 DEF LoopInv, Queued
  <2>2. collecting \in Seq(Descriptor) /\ context_done \in Descriptor
    BY <1>6 DEF LoopInv, LoopTyped
  <2>3. <<context_done>> \in Seq(Descriptor) /\ Len(<<context_done>>) = 1
        /\ <<context_done>>[1] = context_done
    BY <2>2
  <2>4. /\ context_descs \in Seq(Descriptor)
        /\ Len(context_descs) = 1 + Len(collecting)
        /\ context_descs[1] = context_done
    BY <2>1, <2>2, <2>3, ConcatProperties
  <2>5. Len(collecting) \in Nat
    BY <2>2
  <2> QED
    BY <2>4, <2>5, EmptySeq
<1>7. ~context_lineage_error_q
  BY DEF LoopInv, NothingRefused
<1>8. ~context_lineage_error_q'
  BY <1>3, <1>4, <1>5, <1>6, <1>7 DEF IssueEdge
<1> QED
  BY <1>1, <1>2, <1>8 DEF NothingRefused

LEMMA TypedStep ==
  ASSUME LoopInv, NEW in, LoopEdge(in)
  PROVE  LoopTyped'
<1>1. chain' \in Chains /\ pass' \in 0 .. chain'.passes - 1
  <2>1. pass \in 0 .. chain.passes - 1 /\ pass \in Nat /\ chain \in Chains
    BY PassNext DEF LoopInv, LoopTyped
  <2>2. CASE ~Admits(in)
    BY <2>1, <2>2, PassNext
  <2>3. CASE Admits(in) /\ Prepared.final
    <3>1. pass' = 0 /\ chain' \in Chains
      BY <2>3, PassNext
    <3>2. chain'.passes \in Nat \ {0}
      BY <3>1, ChainsAssumption
    <3> QED
      BY <3>1, <3>2
  <2>4. CASE Admits(in) /\ ~Prepared.final
    <3>1. /\ pass' = pass + 1 /\ chain' = chain /\ pass + 1 < chain.passes
          /\ chain.passes \in Nat
      BY <2>4, PassNext
    <3> QED
      BY <2>1, <3>1
  <2> QED
    BY <2>2, <2>3, <2>4
<1>2. next_context_id_q' \in Context
  <2>1. next_context_id_q \in Context
    BY DEF LoopInv, LoopTyped
  <2> QED
    BY <2>1, EdgeParts, Wraps DEF IssueEdge
<1>3. issue' \in Descriptor \cup {NoContext}
  BY CoreNext, PreparedTypes DEF LoopInv, LoopTyped
<1>4. context_done' \in Descriptor \cup {NoContext}
  <2>1. Done(in) => PacketContext \in Descriptor
    BY PopFacts, CollectTypes DEF Done, PacketContext
  <2> QED
    BY <2>1, CollectNext
<1>5. pixel_addr' \in Nat
  BY CoreNext, IssueTypes
<1>6. collected' \in Nat
  <2>1. collected \in Nat
    BY DEF LoopInv, LoopTyped
  <2>2. collected' = IF Done(in) THEN 0
                     ELSE IF packet_pop(in) THEN collected + 1 ELSE collected
    BY CollectNext
  <2>3. collected + 1 \in Nat
    BY <2>1
  <2> QED
    BY <2>1, <2>2, <2>3
<1>7. in_flight' \in Nat
  <2>1. in_flight \in Nat /\ (packet_pop(in) => in_flight # 0)
    BY PopFacts DEF LoopInv, LoopTyped
  <2> QED
    BY <2>1, CollectNext
<1>8. collecting' \in Seq(Descriptor)
  BY CollectNext
<1>9. return_q' \in [bank : Banks, id : Context, last : BOOLEAN]
  <2>1. return_q \in [bank : Banks, id : Context, last : BOOLEAN]
    BY DEF LoopInv, LoopTyped
  <2>2. psum_score_rd_last \in BOOLEAN
    BY DEF psum_score_rd_last
  <2>3. [bank |-> issue.rd_bank, id |-> issue.parent, last |-> psum_score_rd_last]
          \in [bank : Banks, id : Context, last : BOOLEAN]
    BY <2>2, IssueTypes
  <2> QED
    BY <2>1, <2>3, CoreNext
<1>10. commit_events' \in Seq(Event)
  <2>1. context_done # NoContext => context_done \in Descriptor
    BY DEF LoopInv, LoopTyped
  <2>2. context_done # NoContext =>
          [bank |-> context_done.wr_bank, id |-> context_done.id] \in Event
    BY <2>1 DEF Descriptor, Event
  <2> DEFINE event == [bank |-> context_done.wr_bank, id |-> context_done.id]
             ends == context_done # NoContext /\ ~context_done.final
  <2>3. commit_events' = IF ends THEN <<event>> ELSE <<>>
    BY EventsNext
  <2>4. ends => event \in Event
    BY <2>2
  <2> HIDE DEF event, ends
  <2> QED
    BY <2>3, <2>4
<1>11. release_events' \in Seq(Event)
  <2>1. return_q.bank \in Banks /\ return_q.id \in Context
    BY DEF LoopInv, LoopTyped
  <2> DEFINE event == [bank |-> return_q.bank, id |-> return_q.id]
  <2>2. event \in Event
    BY <2>1 DEF Event
  <2>3. release_events' = IF pp_rd_valid /\ return_q.last THEN <<event>> ELSE <<>>
    BY EventsNext
  <2> HIDE DEF event
  <2> QED
    BY <2>2, <2>3
<1>12. \A b \in Banks : /\ written'[b] \in Nat /\ rd_issue'[b] \in Nat
                        /\ rd_return'[b] \in Nat /\ expected'[b] \in Nat
  BY CountsStep
<1> HIDE DEF Descriptor
<1>13. (Descriptor' = Descriptor) /\ (NoContext' = NoContext) /\ (Event' = Event)
  BY DEF Descriptor, NoContext, Event
<1> QED
  BY <1>1, <1>2, <1>3, <1>4, <1>5, <1>6, <1>7, <1>8, <1>9, <1>10, <1>11, <1>12, <1>13
     DEF LoopTyped

LEMMA LoopStart ==
  ASSUME LoopInit
  PROVE  LoopInv
<1> USE DEF LoopInit, Init
<1>1. LoopTyped
  BY Zero, ChainsAssumption DEF LoopTyped
<1>2. Lineage /\ Permitted
  BY DEF Lineage, Permitted, NoContext
<1>3. Queued
  <2>1. Rest = 0 /\ ~ParentWaits
    BY DEF Rest, ParentWaits
  <2>2. Sums(collecting, in_flight + collected + Rest)
    BY <2>1, SumsNone
  <2>3. context_descs = (IF context_done = NoContext THEN <<>> ELSE <<context_done>>)
                        \o collecting
    OBVIOUS
  <2> QED
    BY <2>1, <2>2, <2>3 DEF Queued
<1>4. \A b \in Banks : CountsOf(b)
  BY DEF CountsOf
<1>5. Committing /\ IssueBank /\ ParentBank /\ Returning /\ LastReturning
      /\ Releasing /\ Accounted /\ NothingRefused
  BY DEF Committing, IssueBank, ParentBank, Returning, LastReturning, Releasing,
         Accounted, NothingRefused, NoContext
<1>6. TokensExact
  BY DEF TokensExact
<1> QED
  BY <1>1, <1>2, <1>3, <1>4, <1>5, <1>6 DEF LoopInv

LEMMA LoopStep ==
  ASSUME LoopInv, NEW in, LoopEdge(in)
  PROVE  LoopInv'
<1>1. LoopTyped' /\ Lineage' /\ Queued' /\ Permitted'
  BY TypedStep, LineageStep, QueuedStep, PermittedStep
<1>2. (\A b \in Banks : CountsOf(b))'
  BY CountsStep
<1>3. Committing' /\ IssueBank' /\ ParentBank'
  BY CommittingStep, IssueBankStep, ParentBankStep
<1>4. Returning' /\ LastReturning' /\ Releasing' /\ Accounted'
  BY ReturningStep, LastReturningStep, ReleasingStep, AccountedStep
<1>5. TokensExact' /\ NothingRefused'
  BY TokensStep, NothingRefusedStep
<1> QED
  BY <1>1, <1>2, <1>3, <1>4, <1>5 DEF LoopInv

\* LoopInv is inductive: it holds at the start, and every edge of the loop
\* preserves it.
THEOREM LoopCorrect == LoopSpec => []LoopInv
<1>1. LoopInit => LoopInv
  BY LoopStart
<1>2. ASSUME LoopInv, [LoopNext]_<<vars, loopVars>>
      PROVE  LoopInv'
  <2>1. CASE LoopNext
    <3> PICK in \in Inputs : LoopEdge(in)
      BY <2>1 DEF LoopNext
    <3> QED
      BY <1>2, LoopStep
  <2>2. CASE UNCHANGED <<vars, loopVars>>
    <3> USE <2>2 DEF vars, ownerVars, countVars, loopVars, issueVars, coreVars,
                     queueVars, readVars, collectVars
    <3>1. /\ LoopTyped' <=> LoopTyped
          /\ Lineage' <=> Lineage
          /\ Permitted' <=> Permitted
      BY DEF LoopTyped, Lineage, Permitted, Descriptor, Event, NoContext, Succ
    <3>2. Queued' <=> Queued
      <4>1. ParentWaits' <=> ParentWaits
        BY DEF ParentWaits
      <4>2. Sums(collecting, in_flight + collected + Rest)'
              <=> Sums(collecting, in_flight + collected + Rest)
        BY DEF Sums, Rest
      <4> QED
        BY <4>1, <4>2 DEF Queued, NoContext
    <3>3. (\A b \in Banks : CountsOf(b))' <=> (\A b \in Banks : CountsOf(b))
      BY DEF CountsOf
    <3>4. /\ Committing' <=> Committing
          /\ IssueBank' <=> IssueBank
          /\ ParentBank' <=> ParentBank
      BY DEF Committing, IssueBank, ParentBank, Owned, CompletedIn, CommittedBy,
             IssueWords, ParentWords, ParentWaits, NoContext
    <3>5. /\ Returning' <=> Returning
          /\ LastReturning' <=> LastReturning
          /\ Releasing' <=> Releasing
          /\ Accounted' <=> Accounted
      BY DEF Returning, LastReturning, Releasing, Accounted, Owned, CompletedIn,
             ParentWaits, NoContext, Succ
    <3>6. /\ TokensExact' <=> TokensExact
          /\ NothingRefused' <=> NothingRefused
      BY DEF TokensExact, NothingRefused
    <3> QED
      BY <1>2, <3>1, <3>2, <3>3, <3>4, <3>5, <3>6 DEF LoopInv
  <2> QED
    BY <1>2, <2>1, <2>2
<1> QED
  BY <1>1, <1>2, PTL DEF LoopSpec

\* FeedbackSafe: the permit register is exactly the owner state while pixels
\* are left, the read tokens are exactly the committed words not read, and
\* neither the scoreboard nor an event queue nor the lineage check ever refuses
\* what a chain of contexts asks for.
THEOREM FeedbackAlwaysSafe == LoopSpec => []FeedbackSafe
<1>1. ASSUME LoopInv PROVE PermitExact
  <2> SUFFICES ASSUME computing
               PROVE  issue_psum_owner_permit_q <=>
                        /\ issue.first \/ Owns(issue.rd_bank, issue.parent)
                        /\ issue.final \/ Owns(issue.wr_bank, issue.id)
    BY DEF PermitExact
  <2>1. issue_psum_owner_permit_q <=> alloc_events = <<>>
    BY <1>1 DEF LoopInv, Permitted
  <2>2. issue.first \/ Owns(issue.rd_bank, issue.parent)
    BY <1>1 DEF LoopInv, ParentBank, Owned, Owns
  <2>3. alloc_events = <<>> => issue.final \/ Owns(issue.wr_bank, issue.id)
    BY <1>1 DEF LoopInv, IssueBank, Owned, Owns
  <2>4. alloc_events # <<>> => ~issue.final /\ ~Owns(issue.wr_bank, issue.id)
    <3>1. issue.id \in Context
      BY <1>1, ComputingFacts DEF Descriptor
    <3>2. alloc_events # <<>> => ~issue.final
      BY <1>1 DEF LoopInv, Permitted
    <3> QED
      BY <1>1, <3>1, <3>2, IssueTypes, NotYetOwned
  <2> QED
    BY <2>1, <2>2, <2>3, <2>4
<1>2. LoopInv => FeedbackSafe
  BY <1>1 DEF LoopInv, FeedbackSafe
<1> QED
  BY <1>2, LoopCorrect, PTL
=============================================================================
