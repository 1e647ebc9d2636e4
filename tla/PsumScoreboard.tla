---------------------------- MODULE PsumScoreboard ----------------------------
(***************************************************************************)
(* systolic/psum_bank_owner_scoreboard.v together with the banks of        *)
(* systolic/psum_pingpong_buffer.v it guards (EXTERNAL_CREDIT_GUARD).      *)
(*                                                                         *)
(* One action is one rising clock edge.  The six channels may all fire on  *)
(* the same edge; every ready is computed from the registers before it.    *)
(* Requests is the traffic: a set of assignments to the six input ports.   *)
(* Nothing is assumed about it, so a request may carry any bank, identity, *)
(* address or last marker.                                                 *)
(*                                                                         *)
(* The word width is abstracted: stored[b] and taken[b] are the addresses  *)
(* of bank b that its present owner has written and read.  The 32-bit      *)
(* diagnostic counters are left out; the five sticky error flags, which    *)
(* gate every ready, are kept.                                             *)
(***************************************************************************)
EXTENDS Integers, FiniteSets

CONSTANTS
  DEPTH,            \* parameter DEPTH: the words of a bank
  MaxAddr,          \* the largest value of an AW-bit address
  MaxCount,         \* the largest value of an (AW+1)-bit count
  Epoch, Context,   \* the values of the two halves of an owner's identity
  Requests          \* the port assignments the environment may drive

Banks == {0, 1}
Address == 0 .. MaxAddr
Counts == 0 .. MaxCount

AllocPort == [valid : BOOLEAN, bank : Banks, epoch : Epoch,
              context : Context, expected : Counts]
WritePort == [valid : BOOLEAN, bank : Banks, epoch : Epoch,
              context : Context, addr : Address]
EventPort == [valid : BOOLEAN, bank : Banks, epoch : Epoch, context : Context]
ReadPort == [valid : BOOLEAN, bank : Banks, epoch : Epoch,
             context : Context, addr : Address, last : BOOLEAN]
ReturnPort == [valid : BOOLEAN, bank : Banks, epoch : Epoch,
               context : Context, last : BOOLEAN]
Ports == [alloc : AllocPort, wr : WritePort, commit : EventPort,
          rd : ReadPort, return : ReturnPort, release : EventPort]

ASSUME SizeAssumption ==
  /\ DEPTH \in Nat \ {0}
  /\ MaxAddr \in Nat /\ MaxAddr + 1 >= DEPTH
  /\ MaxCount \in Nat /\ MaxCount > DEPTH
ASSUME IdentityAssumption == 0 \in Epoch /\ 0 \in Context
ASSUME RequestsAssumption == \A req \in Requests : req \in Ports

ErrorKind == {"underflow", "overwrite", "epoch", "context", "same_address"}

VARIABLES
  allocated, writer_done, reader_done,    \* per bank
  epoch, context, expected,               \* the owner and its size
  written, rd_issue, rd_return,           \* high-watermarks
  error,                                  \* the sticky error flags that are set
  stored, taken                           \* what the owner did to the RAM

ownerVars == <<allocated, writer_done, reader_done, epoch, context, expected>>
countVars == <<written, rd_issue, rd_return>>
ramVars == <<stored, taken>>
vars == <<ownerVars, countVars, error, ramVars>>

fail_stop == error # {}

-----------------------------------------------------------------------------
(* The readys *)

EpochOk(p) == allocated[p.bank] /\ p.epoch = epoch[p.bank]
ContextOk(p) == allocated[p.bank] /\ p.context = context[p.bank]
IdentityOk(p) == EpochOk(p) /\ ContextOk(p)

Outstanding(b) == rd_issue[b] - rd_return[b]

AllocReady(p) ==
  ~fail_stop /\ ~allocated[p.bank] /\ p.expected # 0 /\ p.expected <= DEPTH

WriteReady(p) ==
  /\ ~fail_stop /\ IdentityOk(p)
  /\ p.addr < DEPTH /\ p.addr = written[p.bank]
  /\ written[p.bank] < expected[p.bank]
  /\ ~writer_done[p.bank]

\* Mutant: a commit is not stopped by a sticky error.
CommitReadyUnstopped(p) ==
  /\ IdentityOk(p)
  /\ ~writer_done[p.bank]
  /\ written[p.bank] = expected[p.bank]

CommitReady(p) ==
  /\ ~fail_stop /\ IdentityOk(p)
  /\ ~writer_done[p.bank]
  /\ written[p.bank] = expected[p.bank]

\* Mutant: a read may take the word that is being written.
ReadReadyUncommitted(p) ==
  /\ ~fail_stop /\ IdentityOk(p)
  /\ p.addr < DEPTH /\ p.addr = rd_issue[p.bank]
  /\ rd_issue[p.bank] <= written[p.bank]
  /\ rd_issue[p.bank] < expected[p.bank]

ReadReady(p) ==
  /\ ~fail_stop /\ IdentityOk(p)
  /\ p.addr < DEPTH /\ p.addr = rd_issue[p.bank]
  /\ rd_issue[p.bank] < written[p.bank]
  /\ rd_issue[p.bank] < expected[p.bank]

\* Mutant: a response is taken without an outstanding request.
ReturnReadyUnasked(p) ==
  /\ ~fail_stop /\ IdentityOk(p)
  /\ rd_return[p.bank] < expected[p.bank]

ReturnReady(p) ==
  /\ ~fail_stop /\ IdentityOk(p)
  /\ Outstanding(p.bank) # 0
  /\ rd_return[p.bank] < expected[p.bank]

\* Mutant: a bank is released when nothing is outstanding, read or not.
ReleaseReadyUnread(p) ==
  /\ ~fail_stop /\ IdentityOk(p)
  /\ writer_done[p.bank]
  /\ Outstanding(p.bank) = 0

ReleaseReady(p) ==
  /\ ~fail_stop /\ IdentityOk(p)
  /\ writer_done[p.bank] /\ reader_done[p.bank]
  /\ Outstanding(p.bank) = 0

ReadShouldBeLast(p) == rd_issue[p.bank] + 1 = expected[p.bank]
ReturnShouldBeLast(p) == rd_return[p.bank] + 1 = expected[p.bank]

-----------------------------------------------------------------------------
(* The faults, raised by requests whether they are accepted or not *)

SameAddressConflict(req) ==
  /\ req.wr.valid /\ req.rd.valid
  /\ IdentityOk(req.wr) /\ IdentityOk(req.rd)
  /\ req.wr.addr < DEPTH /\ req.rd.addr < DEPTH
  /\ req.wr.bank = req.rd.bank /\ req.wr.addr = req.rd.addr

EpochFault(req) ==
  \E p \in {req.wr, req.commit, req.rd, req.return, req.release} :
    p.valid /\ ~EpochOk(p)

ContextFault(req) ==
  \/ \E p \in {req.wr, req.commit, req.rd, req.return, req.release} :
       p.valid /\ ~ContextOk(p)
  \/ req.rd.valid /\ ReadReady(req.rd)
       /\ req.rd.last # ReadShouldBeLast(req.rd)
  \/ req.return.valid /\ ReturnReady(req.return)
       /\ req.return.last # ReturnShouldBeLast(req.return)

UnderflowFault(req) ==
  \/ /\ req.rd.valid /\ IdentityOk(req.rd) /\ ~SameAddressConflict(req)
     /\ \/ req.rd.addr >= DEPTH \/ req.rd.addr # rd_issue[req.rd.bank]
        \/ rd_issue[req.rd.bank] >= written[req.rd.bank]
        \/ rd_issue[req.rd.bank] >= expected[req.rd.bank]
  \/ /\ req.return.valid /\ IdentityOk(req.return)
     /\ \/ Outstanding(req.return.bank) = 0
        \/ rd_return[req.return.bank] >= expected[req.return.bank]

OverwriteFault(req) ==
  /\ req.wr.valid /\ IdentityOk(req.wr) /\ ~SameAddressConflict(req)
  /\ \/ req.wr.addr >= DEPTH \/ req.wr.addr # written[req.wr.bank]
     \/ written[req.wr.bank] >= expected[req.wr.bank]
     \/ writer_done[req.wr.bank]

ErrorsRaised(req) ==
  {k \in ErrorKind :
     \/ k = "epoch" /\ EpochFault(req)
     \/ k = "context" /\ ContextFault(req)
     \/ k = "underflow" /\ UnderflowFault(req)
     \/ k = "overwrite" /\ OverwriteFault(req)
     \/ k = "same_address" /\ SameAddressConflict(req)}

-----------------------------------------------------------------------------
(* The accepted transfers of an edge, per bank *)

Allocates(req, b) ==
  req.alloc.valid /\ req.alloc.bank = b /\ AllocReady(req.alloc)
Writes(req, b) == req.wr.valid /\ req.wr.bank = b /\ WriteReady(req.wr)
Commits(req, b) ==
  req.commit.valid /\ req.commit.bank = b /\ CommitReady(req.commit)
Reads(req, b) == req.rd.valid /\ req.rd.bank = b /\ ReadReady(req.rd)
Returns(req, b) ==
  req.return.valid /\ req.return.bank = b /\ ReturnReady(req.return)
Releases(req, b) ==
  req.release.valid /\ req.release.bank = b /\ ReleaseReady(req.release)

\* reader_done is set by a return that is the last one and says so.
ReturnsLast(req, b) ==
  Returns(req, b) /\ req.return.last /\ ReturnShouldBeLast(req.return)

-----------------------------------------------------------------------------
Init ==
  /\ allocated = [b \in Banks |-> FALSE]
  /\ writer_done = [b \in Banks |-> FALSE]
  /\ reader_done = [b \in Banks |-> FALSE]
  /\ epoch = [b \in Banks |-> 0] /\ context = [b \in Banks |-> 0]
  /\ expected = [b \in Banks |-> 0]
  /\ written = [b \in Banks |-> 0]
  /\ rd_issue = [b \in Banks |-> 0]
  /\ rd_return = [b \in Banks |-> 0]
  /\ error = {}
  /\ stored = [b \in Banks |-> {}] /\ taken = [b \in Banks |-> {}]

Reset ==
  /\ allocated' = [b \in Banks |-> FALSE]
  /\ writer_done' = [b \in Banks |-> FALSE]
  /\ reader_done' = [b \in Banks |-> FALSE]
  /\ epoch' = [b \in Banks |-> 0] /\ context' = [b \in Banks |-> 0]
  /\ expected' = [b \in Banks |-> 0]
  /\ written' = [b \in Banks |-> 0]
  /\ rd_issue' = [b \in Banks |-> 0]
  /\ rd_return' = [b \in Banks |-> 0]
  /\ error' = {}
  /\ stored' = [b \in Banks |-> {}] /\ taken' = [b \in Banks |-> {}]

\* One clock edge with rst low.  Where one register is assigned by several
\* handshakes the last assignment of the block wins.
Edge(req) ==
  /\ error' = error \cup ErrorsRaised(req)
  /\ allocated' = [b \in Banks |->
       (allocated[b] \/ Allocates(req, b)) /\ ~Releases(req, b)]
  /\ epoch' = [b \in Banks |->
       IF Allocates(req, b) THEN req.alloc.epoch ELSE epoch[b]]
  /\ context' = [b \in Banks |->
       IF Allocates(req, b) THEN req.alloc.context ELSE context[b]]
  /\ expected' = [b \in Banks |->
       IF Allocates(req, b) THEN req.alloc.expected ELSE expected[b]]
  /\ writer_done' = [b \in Banks |->
       /\ ~Releases(req, b)
       /\ Commits(req, b) \/ (writer_done[b] /\ ~Allocates(req, b))]
  /\ reader_done' = [b \in Banks |->
       /\ ~Releases(req, b)
       /\ ReturnsLast(req, b) \/ (reader_done[b] /\ ~Allocates(req, b))]
  /\ written' = [b \in Banks |->
       IF Releases(req, b) THEN 0
       ELSE IF Writes(req, b) THEN written[b] + 1
       ELSE IF Allocates(req, b) THEN 0 ELSE written[b]]
  /\ rd_issue' = [b \in Banks |->
       IF Releases(req, b) THEN 0
       ELSE IF Reads(req, b) THEN rd_issue[b] + 1
       ELSE IF Allocates(req, b) THEN 0 ELSE rd_issue[b]]
  /\ rd_return' = [b \in Banks |->
       IF Releases(req, b) THEN 0
       ELSE IF Returns(req, b) THEN rd_return[b] + 1
       ELSE IF Allocates(req, b) THEN 0 ELSE rd_return[b]]
  /\ stored' = [b \in Banks |->
       IF Allocates(req, b) THEN {}
       ELSE IF Writes(req, b) THEN stored[b] \cup {req.wr.addr} ELSE stored[b]]
  /\ taken' = [b \in Banks |->
       IF Allocates(req, b) THEN {}
       ELSE IF Reads(req, b) THEN taken[b] \cup {req.rd.addr} ELSE taken[b]]

Next == (\E req \in Requests : Edge(req)) \/ Reset

Spec == Init /\ [][Next]_vars

-----------------------------------------------------------------------------
TypeOK ==
  /\ allocated \in [Banks -> BOOLEAN]
  /\ writer_done \in [Banks -> BOOLEAN]
  /\ reader_done \in [Banks -> BOOLEAN]
  /\ epoch \in [Banks -> Epoch] /\ context \in [Banks -> Context]
  /\ expected \in [Banks -> 0 .. DEPTH]
  /\ written \in [Banks -> 0 .. DEPTH]
  /\ rd_issue \in [Banks -> 0 .. DEPTH]
  /\ rd_return \in [Banks -> 0 .. DEPTH]
  /\ error \in SUBSET ErrorKind
  /\ stored \in [Banks -> SUBSET Address] /\ taken \in [Banks -> SUBSET Address]

\* Credits are conserved: responses never outrun read requests, requests never
\* outrun committed words, words never outrun the allocation.  The unsigned
\* differences committed_count and outstanding therefore never wrap.
CreditOrder ==
  \A b \in Banks :
    /\ rd_return[b] <= rd_issue[b]
    /\ rd_issue[b] <= written[b]
    /\ allocated[b] => written[b] <= expected[b] /\ expected[b] # 0

\* The done flags mean what their readers take them to mean: a bank whose
\* writer is done holds every word, one whose reader is done has nothing
\* outstanding, and a free bank has neither flag and no credit left over.
DoneMeansDone ==
  \A b \in Banks :
    /\ writer_done[b] => allocated[b] /\ written[b] = expected[b]
    /\ reader_done[b] => allocated[b] /\ rd_return[b] = expected[b]
    /\ ~allocated[b] => written[b] = 0 /\ rd_issue[b] = 0 /\ rd_return[b] = 0

\* "stale RAM payload remains masked by its committed credits"
\* (psum_pingpong_buffer.v): the credits count exactly the words the present
\* owner has stored, so no read is granted a word of an earlier owner.
CreditsAreFresh ==
  \A b \in Banks :
    allocated[b] =>
      /\ stored[b] = {a \in Address : a < written[b]}
      /\ taken[b] = {a \in Address : a < rd_issue[b]}

IInv == TypeOK /\ CreditOrder /\ DoneMeansDone /\ CreditsAreFresh

\* "two legal simultaneous accesses satisfy rd_req_addr < wr_addr and cannot
\* collide": the readys do not compare the two ports, and still never grant
\* a read and a write of one word on the same edge.
LegalAccessesDiffer ==
  \A req \in Requests :
    req.wr.valid /\ req.rd.valid /\ req.wr.bank = req.rd.bank =>
      (WriteReady(req.wr) /\ ReadReady(req.rd) => req.rd.addr < req.wr.addr)

\* Once any error is sticky the scoreboard is frozen until reset: no channel
\* changes ownership, credits or memory however the requests are driven.
FailStopFreezes ==
  [][fail_stop /\ fail_stop' => UNCHANGED <<ownerVars, countVars, ramVars>>]_vars

Ownership == INSTANCE PsumOwnership WITH
  Owner <- Epoch \X Context, Addr <- 0 .. DEPTH - 1,
  owned <- allocated, owner <- [b \in Banks |-> <<epoch[b], context[b]>>],
  due <- [b \in Banks |-> 0 .. expected[b] - 1],
  awaited <- [b \in Banks |-> Outstanding(b)]

\* Every edge, with all six channels firing or none, is a step of the
\* ownership protocol: a bank is reused only when all of its words went
\* through its owner's writer and reader.
OwnershipSpec == Ownership!OwnershipSpec
=============================================================================
