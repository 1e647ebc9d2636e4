----------------------------- MODULE PsumFeedback -----------------------------
(***************************************************************************)
(* The loop in which partial sums go round: the contexts that              *)
(* conv_layer_top_stream.v admits, the controller that fires their pixels, *)
(* the feeder that reads the parent's sums (psum_stream_feeder.v), the     *)
(* packets that come back, the event queues, and the bank scoreboard that  *)
(* sees all of it on its six ports.  One action is one rising clock edge   *)
(* of all of them, with tagged contexts and continuous collection.         *)
(*                                                                         *)
(* Abstract: the event and descriptor queues are the bounded FIFOs they    *)
(* are shown to be in LifecycleQueue and ContextEventFifo, the collector   *)
(* is CollectOrder (packets in order, none on the edge of a done pulse),   *)
(* and what the scheduler, the input path, the array and the output path   *)
(* do is chosen on every edge: whether a prepared context is started, a    *)
(* vector is there, a packet has come, and a final packet is taken.        *)
(***************************************************************************)
EXTENDS PsumScoreboard, Sequences

CONSTANTS
  Chains,           \* records passes, pixels: what a tile may consist of
  QUEUE_DEPTH,      \* DEPTH of the event and descriptor queues
  OutputRoom,       \* pixels fired and not yet handed on: the column FIFOs
  FAST_HANDOFF      \* ENABLE_FAST_CONTEXT_HANDOFF

IdMod == Cardinality(Context)    \* context ids wrap, at 2^16 in the code

ASSUME ChainsAssumption ==
  \A c \in Chains : c.passes \in Nat \ {0} /\ c.pixels \in Nat \ {0}
ASSUME QueuesAssumption == QUEUE_DEPTH \in Nat \ {0}

\* Ids are numbers that wrap.  A bank is given back at most three ids after the
\* context that read it, so five tell an owner from its successors.
ASSUME IdAssumption ==
  /\ IdMod \in Nat /\ IdMod >= 5
  /\ Context = 0 .. IdMod - 1 /\ {0, 1} \subseteq Epoch

VARIABLES
  chain, pass,                              \* the next prepared descriptor
  next_context_id_q,
  issue, issue_context_active_q,            \* the context that is issued
  issue_handoff_done_guard_q, issue_psum_owner_permit_q,
  chain_parent_valid_q, chain_parent,       \* the writer the next pass reads
  context_lineage_error_q,
  computing, pixel_addr, compute_done,      \* controller and feeder
  context_descs,                            \* u_context_desc_queue
  alloc_events, commit_events, release_events, event_overflow,
  rd_credit_q, pp_rd_valid, return_q,       \* read tokens, return registers
  collecting, collected, in_flight,         \* the collector's contexts
  context_done                              \* the one completed on the last edge

issueVars == <<issue, issue_context_active_q, issue_handoff_done_guard_q,
               issue_psum_owner_permit_q, chain_parent_valid_q, chain_parent,
               context_lineage_error_q, next_context_id_q>>
coreVars == <<chain, pass, computing, pixel_addr, compute_done>>
queueVars == <<context_descs, alloc_events, commit_events, release_events,
               event_overflow>>
readVars == <<rd_credit_q, pp_rd_valid, return_q>>
collectVars == <<collecting, collected, in_flight, context_done>>
loopVars == <<issueVars, coreVars, queueVars, readVars, collectVars>>

\* The identity of a context is its id with the epoch of its input bank.
EpochOf(id) == id % 2
NoContext == [id |-> IdMod, first |-> TRUE, final |-> TRUE, rd_bank |-> 1,
              wr_bank |-> 0, pixels |-> 1, parent |-> 0]

\* What the surroundings may do on an edge, where it makes a difference.
Inputs ==
  [start : BOOLEAN,
   vector : IF computing THEN BOOLEAN ELSE {TRUE},
   packet : IF in_flight # 0 THEN BOOLEAN ELSE {TRUE}]

-----------------------------------------------------------------------------
(* The controller and the admission of contexts *)

\* What the prepared queue and the lineage registers show for an admission.
Prepared ==
  [id |-> next_context_id_q, first |-> pass = 0, final |-> pass = chain.passes - 1,
   rd_bank |-> 1 - (pass % 2), wr_bank |-> pass % 2, pixels |-> chain.pixels,
   parent |-> IF pass = 0 THEN 0 ELSE chain_parent.id]

Stopped == fail_stop \/ context_lineage_error_q \/ event_overflow # {}
HasRoom(queue) == Len(queue) < QUEUE_DEPTH

psum_score_ext_mode == issue_context_active_q /\ ~issue.first
psum_score_rd_last == pixel_addr = issue.pixels - 1

psum_stream_compute_ready ==
  psum_score_ext_mode =>
    rd_credit_q[issue.rd_bank] /\ (psum_score_rd_last => HasRoom(release_events))

tagged_context_admission_ready == ~Stopped /\ issue_psum_owner_permit_q

compute_fire(in) ==
  /\ computing /\ in.vector /\ in_flight < OutputRoom
  /\ tagged_context_admission_ready
  /\ psum_stream_compute_ready

\* The collector's own queue is never fuller than the descriptor queue.
tagged_context_start_ready ==
  /\ ~Stopped
  /\ HasRoom(context_descs) \/ context_done # NoContext
  /\ Prepared.final \/ HasRoom(alloc_events)

context_admit_fire(in, fire) ==
  /\ in.start /\ tagged_context_start_ready
  /\ ~computing \/ (FAST_HANDOFF /\ fire /\ psum_score_rd_last)

-----------------------------------------------------------------------------
(* The packet that the collector shows, and the six ports *)

packet_valid(in) == in.packet /\ in_flight # 0 /\ context_done = NoContext
PacketContext == Head(collecting)
packet_descriptor_match == context_descs # <<>> /\ Head(context_descs) = PacketContext
LastPacket == collected = PacketContext.pixels - 1

EventOf(queue) ==
  IF queue = <<>> THEN [valid |-> FALSE, bank |-> 0, epoch |-> 0, context |-> 0]
  ELSE [valid |-> TRUE, bank |-> Head(queue).bank,
        epoch |-> EpochOf(Head(queue).id), context |-> Head(queue).id]

AllocRequest ==
  LET shown == alloc_events # <<>>
      event == IF shown THEN Head(alloc_events) ELSE [bank |-> 0, id |-> 0, pixels |-> 0]
  IN [valid |-> shown, bank |-> event.bank, epoch |-> EpochOf(event.id),
      context |-> event.id, expected |-> event.pixels]

\* The last word of a context waits for room for its commit event.
WriteSideReady ==
  /\ packet_descriptor_match
  /\ LastPacket => HasRoom(commit_events)

WriteRequest(in) ==
  IF packet_valid(in) /\ ~PacketContext.final /\ WriteSideReady
  THEN [valid |-> TRUE, bank |-> PacketContext.wr_bank,
        epoch |-> EpochOf(PacketContext.id), context |-> PacketContext.id,
        addr |-> collected]
  ELSE [valid |-> FALSE, bank |-> 0, epoch |-> 0, context |-> 0, addr |-> 0]

ReadRequest(fire) ==
  [valid |-> /\ fire /\ ~issue.first
             /\ psum_score_rd_last => HasRoom(release_events),
   bank |-> issue.rd_bank, epoch |-> EpochOf(issue.parent),
   context |-> issue.parent, addr |-> pixel_addr, last |-> psum_score_rd_last]

ReturnRequest ==
  [valid |-> pp_rd_valid, bank |-> return_q.bank, epoch |-> EpochOf(return_q.id),
   context |-> return_q.id, last |-> return_q.last]

Traffic(in, fire) ==
  [alloc |-> AllocRequest, wr |-> WriteRequest(in), commit |-> EventOf(commit_events),
   rd |-> ReadRequest(fire), return |-> ReturnRequest, release |-> EventOf(release_events)]

packet_pop(in) ==
  /\ packet_valid(in) /\ packet_descriptor_match
  /\ ~PacketContext.final =>
       WriteSideReady /\ WriteReady(WriteRequest(in))

-----------------------------------------------------------------------------
(* The permit *)

Owns(bank, id) ==
  allocated[bank] /\ epoch[bank] = EpochOf(id) /\ context[bank] = id

AllocatesTo(bank, id) ==
  LET p == AllocRequest
  IN p.valid /\ AllocReady(p) /\ p.bank = bank /\ p.epoch = EpochOf(id) /\ p.context = id

\* Mutant: an allocation on this very edge is seen only on the next one.
OwnsNextRegistered(bank, id) == Owns(bank, id)

\* The owner state that this edge leaves behind, by an allocation that fires.
OwnsNext(bank, id) == Owns(bank, id) \/ AllocatesTo(bank, id)

BanksOwnedNext(c) ==
  /\ c.first \/ OwnsNext(c.rd_bank, c.parent)
  /\ c.final \/ OwnsNext(c.wr_bank, c.id)

\* Mutant: the done pulse of the context before, one edge late after a fast
\* handoff, is taken for the new one's.
RetiresIssueLate == compute_done

RetiresIssue == compute_done /\ ~issue_handoff_done_guard_q

\* Mutant: the owner state is looked at on admission only.
PermitNextOnce(admit) ==
  IF admit THEN BanksOwnedNext(Prepared)
  ELSE issue_psum_owner_permit_q /\ ~RetiresIssue

PermitNext(admit) ==
  IF admit THEN BanksOwnedNext(Prepared)
  ELSE IF RetiresIssue THEN FALSE
  ELSE IF issue_context_active_q /\ ~issue_psum_owner_permit_q
  THEN BanksOwnedNext(issue)
  ELSE issue_psum_owner_permit_q

-----------------------------------------------------------------------------
LoopInit ==
  /\ Init
  /\ chain \in Chains /\ pass = 0 /\ next_context_id_q = 1
  /\ issue = NoContext /\ issue_context_active_q = FALSE
  /\ issue_handoff_done_guard_q = FALSE /\ issue_psum_owner_permit_q = FALSE
  /\ chain_parent_valid_q = FALSE /\ chain_parent = NoContext
  /\ context_lineage_error_q = FALSE
  /\ computing = FALSE /\ pixel_addr = 0 /\ compute_done = FALSE
  /\ context_descs = <<>>
  /\ alloc_events = <<>> /\ commit_events = <<>> /\ release_events = <<>>
  /\ event_overflow = {}
  /\ rd_credit_q = [b \in Banks |-> FALSE] /\ pp_rd_valid = FALSE
  /\ return_q = [bank |-> 0, id |-> 0, last |-> FALSE]
  /\ collecting = <<>> /\ collected = 0 /\ in_flight = 0
  /\ context_done = NoContext

\* The lineage registers: who writes what the next pass of the chain reads.
IssueEdge(in, admit, fire) ==
  /\ issue' = IF admit THEN Prepared ELSE issue
  /\ issue_context_active_q' =
       (admit \/ (issue_context_active_q /\ ~RetiresIssue))
  /\ issue_handoff_done_guard_q' =
       (admit /\ issue_context_active_q /\ fire)
  /\ issue_psum_owner_permit_q' = PermitNext(admit)
  /\ next_context_id_q' =
       IF admit THEN (next_context_id_q + 1) % IdMod ELSE next_context_id_q
  /\ chain_parent_valid_q' =
       IF admit THEN ~Prepared.final ELSE chain_parent_valid_q
  /\ chain_parent' =
       IF admit /\ ~Prepared.final THEN Prepared ELSE chain_parent
  /\ context_lineage_error_q' =
       \/ context_lineage_error_q
       \/ /\ admit /\ ~Prepared.first
          /\ ~chain_parent_valid_q \/ Prepared.rd_bank # chain_parent.wr_bank
       \/ packet_valid(in) /\ ~packet_descriptor_match
       \/ /\ context_done # NoContext
          /\ context_descs = <<>> \/ Head(context_descs) # context_done

\* pixel_addr is also the controller's compute_count_q, which is cleared on
\* the last fire instead of the next start.
CoreEdge(admit, fire) ==
  /\ computing' = (admit \/ (computing /\ ~(fire /\ psum_score_rd_last)))
  /\ compute_done' = (fire /\ psum_score_rd_last)
  /\ pixel_addr' = IF admit THEN 0
                   ELSE IF fire THEN pixel_addr + 1 ELSE pixel_addr
  /\ IF ~admit THEN UNCHANGED <<chain, pass>>
     ELSE IF Prepared.final THEN pass' = 0 /\ chain' \in Chains
     ELSE pass' = pass + 1 /\ UNCHANGED chain

\* A queue after an edge that may take its head and may put an event.
QueueNext(queue, pops, put, event) ==
  (IF pops THEN Tail(queue) ELSE queue) \o
  (IF put /\ HasRoom(queue) THEN <<event>> ELSE <<>>)

QueueEdge(ports, admit) ==
  LET allocates == admit /\ ~Prepared.final
      commits == context_done # NoContext /\ ~context_done.final
      releases == ports.return.valid /\ ReturnReady(ports.return) /\ return_q.last
      pops == /\ context_done # NoContext
              /\ context_descs # <<>> /\ Head(context_descs) = context_done
  IN /\ context_descs' =
          (IF pops THEN Tail(context_descs) ELSE context_descs) \o
          (IF admit THEN <<Prepared>> ELSE <<>>)
     /\ alloc_events' =
          QueueNext(alloc_events, ports.alloc.valid /\ AllocReady(ports.alloc),
                    allocates,
                    [bank |-> Prepared.wr_bank, id |-> Prepared.id,
                     pixels |-> Prepared.pixels])
     /\ commit_events' =
          QueueNext(commit_events, ports.commit.valid /\ CommitReady(ports.commit),
                    commits, [bank |-> context_done.wr_bank, id |-> context_done.id])
     /\ release_events' =
          QueueNext(release_events, ports.release.valid /\ ReleaseReady(ports.release),
                    releases, [bank |-> return_q.bank, id |-> return_q.id])
     /\ event_overflow' = event_overflow
          \cup {q \in {"alloc", "commit", "release"} :
                  \/ q = "alloc" /\ allocates /\ ~HasRoom(alloc_events)
                  \/ q = "commit" /\ commits /\ ~HasRoom(commit_events)
                  \/ q = "release" /\ releases /\ ~HasRoom(release_events)}

\* A token is true while its bank holds a word that is committed and not read.
TokenNext(req, b) ==
  LET committed == written[b] - rd_issue[b]
  IN IF Allocates(req, b) \/ Releases(req, b) THEN FALSE
     ELSE IF Writes(req, b) /\ ~Reads(req, b) THEN TRUE
     ELSE IF Reads(req, b) /\ ~Writes(req, b) THEN committed > 1
     ELSE committed # 0

ReadEdge(req) ==
  LET fires == req.rd.valid /\ ReadReady(req.rd)
  IN /\ rd_credit_q' = [b \in Banks |-> TokenNext(req, b)]
     /\ pp_rd_valid' = fires
     /\ return_q' = IF fires
                    THEN [bank |-> issue.rd_bank, id |-> issue.parent,
                          last |-> psum_score_rd_last]
                    ELSE return_q

CollectEdge(admit, fire, pop) ==
  /\ in_flight' = in_flight + (IF fire THEN 1 ELSE 0)
                            - (IF pop THEN 1 ELSE 0)
  /\ collected' = IF (pop /\ LastPacket) THEN 0
                  ELSE IF pop THEN collected + 1 ELSE collected
  /\ collecting' =
       (IF (pop /\ LastPacket) THEN Tail(collecting) ELSE collecting) \o
       (IF admit THEN <<Prepared>> ELSE <<>>)
  /\ context_done' = IF (pop /\ LastPacket) THEN PacketContext ELSE NoContext

LoopEdge(in) ==
  LET fire == compute_fire(in)
      admit == context_admit_fire(in, fire)
      pop == packet_pop(in)
      req == Traffic(in, fire)
  IN /\ Edge(req)
     /\ IssueEdge(in, admit, fire) /\ CoreEdge(admit, fire)
     /\ QueueEdge(req, admit) /\ ReadEdge(req) /\ CollectEdge(admit, fire, pop)

LoopNext == \E in \in Inputs : LoopEdge(in)

LoopSpec == LoopInit /\ [][LoopNext]_<<vars, loopVars>>

\* What only waits for the scheduler, for a vector, and for a packet.
start_waits == ~computing /\ tagged_context_start_ready
fire_waits ==
  /\ computing /\ in_flight < OutputRoom
  /\ tagged_context_admission_ready /\ psum_stream_compute_ready
packet_waits == packet_pop([packet |-> TRUE])

-----------------------------------------------------------------------------
\* "Ownership is a monotonic permit for one resident issue descriptor:
\* allocation can make it true, while a legal release cannot revoke it before
\* that context's final input has issued": while pixels are left the register
\* is what the owner state says, neither early nor late.
PermitExact ==
  computing =>
    (issue_psum_owner_permit_q <=>
       /\ issue.first \/ Owns(issue.rd_bank, issue.parent)
       /\ issue.final \/ Owns(issue.wr_bank, issue.id))

\* "Mirror the exact next committed-credit nonzero state using only registered
\* tokens."
TokensExact == \A b \in Banks : rd_credit_q[b] <=> written[b] > rd_issue[b]

\* No context of any chain is refused or misread: the scoreboard raises none of
\* its errors, no event is lost at a full queue, and parents are who they are
\* said to be.
NothingRefused == error = {} /\ event_overflow = {} /\ ~context_lineage_error_q

FeedbackSafe == PermitExact /\ TokensExact /\ NothingRefused
=============================================================================
