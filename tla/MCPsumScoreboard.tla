--------------------------- MODULE MCPsumScoreboard ---------------------------
(***************************************************************************)
(* Traffic for PsumScoreboard: any single request, well formed or not, and *)
(* combinations of simultaneous requests for one identity per bank.        *)
(***************************************************************************)
EXTENDS PsumScoreboard

NoAlloc == [valid |-> FALSE, bank |-> 0, epoch |-> 0, context |-> 0, expected |-> 0]
NoWrite == [valid |-> FALSE, bank |-> 0, epoch |-> 0, context |-> 0, addr |-> 0]
NoEvent == [valid |-> FALSE, bank |-> 0, epoch |-> 0, context |-> 0]
NoRead == [valid |-> FALSE, bank |-> 0, epoch |-> 0, context |-> 0, addr |-> 0,
           last |-> FALSE]
NoReturn == [valid |-> FALSE, bank |-> 0, epoch |-> 0, context |-> 0, last |-> FALSE]
Quiet == [alloc |-> NoAlloc, wr |-> NoWrite, commit |-> NoEvent, rd |-> NoRead,
          return |-> NoReturn, release |-> NoEvent]

\* Bank 0 is asked for in two epochs and for any number of words, bank 1 in one
\* way, so that a bank changes hands between owners that differ.
Allocations ==
  {p \in AllocPort : /\ p.context = p.bank
                     /\ p.bank = 1 => p.epoch = 0 /\ p.expected = DEPTH}

\* An identity is right, or wrong in one of its halves.
Plausible(port) == {p \in port : p.context = p.bank \/ p.epoch = 0}

\* One channel valid, with any other payload.
SingleRequests ==
  {[Quiet EXCEPT !.alloc = p] : p \in Allocations}
    \cup {[Quiet EXCEPT !.wr = p] : p \in Plausible(WritePort)}
    \cup {[Quiet EXCEPT !.commit = p] : p \in Plausible(EventPort)}
    \cup {[Quiet EXCEPT !.rd = p] : p \in Plausible(ReadPort)}
    \cup {[Quiet EXCEPT !.return = p] : p \in Plausible(ReturnPort)}
    \cup {[Quiet EXCEPT !.release = p] : p \in Plausible(EventPort)}

\* Up to MaxChannels channels valid on the same edge, on either bank, with any
\* address; bank b is asked for in the name of context b.
CONSTANT MaxChannels
ChannelsValid(req) ==
  Cardinality({c \in DOMAIN req : req[c].valid})
Named(port) == {p \in port : p.valid /\ p.epoch = 0 /\ p.context = p.bank}
CombinedRequests ==
  {req \in [alloc : {NoAlloc} \cup {p \in Named(AllocPort) : p.expected = DEPTH},
            wr : {NoWrite} \cup {p \in Named(WritePort) : p.addr < DEPTH},
            commit : {NoEvent} \cup Named(EventPort),
            rd : {NoRead} \cup {p \in Named(ReadPort) :
                    p.addr < DEPTH /\ (p.last <=> p.addr = DEPTH - 1)},
            return : {NoReturn} \cup Named(ReturnPort),
            release : {NoEvent} \cup Named(EventPort)] :
     ChannelsValid(req) <= MaxChannels}

MCTraffic == SingleRequests \cup CombinedRequests

\* A sticky error is followed by single requests, which must all be refused, and
\* by a reset; a second kind of error only by a reset.
MCNext ==
  \/ error = {} /\ \E req \in Requests : Edge(req)
  \/ Cardinality(error) = 1 /\ \E req \in SingleRequests : Edge(req)
  \/ Reset
MCSpec == Init /\ [][MCNext]_vars
=============================================================================
