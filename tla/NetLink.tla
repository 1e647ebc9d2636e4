------------------------------- MODULE NetLink -------------------------------
(***************************************************************************)
(* What the two ends of the board's Ethernet protocol share: the framed    *)
(* messages of tools/coco80/net_protocol.py and the TCP connections that   *)
(* carry them.  A connection delivers what was sent, in order, until one   *)
(* end drops it; a message is a header and a body, the CRC of some bytes is *)
(* the bytes themselves, and a message hit by the link is not intact.      *)
(***************************************************************************)
EXTENDS Integers, Sequences

CONSTANTS Conns,         \* the TCP connections, 1 .. n, in the order they are made
          MaxChunk,      \* CHUNK_RECORDS, 128
          Bindings       \* artifact bindings two hosts may start with

ASSUME NetLinkAssumption == MaxChunk \in Nat \ {0} /\ 0 \notin Bindings

VARIABLE net             \* each connection: both ends, and what is under way

NoMsg   == [type |-> "none"]
Control == {"HELLO", "PARAMETERS", "STATUS", "ERROR", "END"}
Profiled == {"INPUT", "RUN", "RESULT", "TIMING"}

(* make_header: a header whose length and CRC are those of its body. *)
make_header(type, session, seq, binding, first, count, mode, body) ==
    [type |-> type, session |-> session, seq |-> seq, binding |-> binding,
     first |-> first, count |-> count, kind |-> mode.kind, profile |-> mode.profile,
     status |-> 0, body |-> body, intact |-> TRUE]

NoProfile == [kind |-> "none", profile |-> "none"]

(* NetHeader.pack, as unpack repeats it, with the CRCs that frame it. *)
HeaderValid(m) ==
    /\ m.intact
    /\ m.type \in Control \cup Profiled
    /\ m.session # 0
    /\ m.seq # 0
    /\ m.binding # 0
    /\ m.count \in 0 .. MaxChunk
    /\ IF m.type \in Profiled THEN m.kind # "none" /\ m.profile # "none"
                              ELSE m.kind = "none" /\ m.profile = "none"

(* EndSummary.pack and unpack. *)
EndValid(e) == e.completed <= e.received /\ e.sent <= e.completed

(* ChunkTiming.unpack: the counters, the input size and the temperatures.  *)
(* The size is given as its number of packages.                            *)
ChunkTimingValid(t, expected_records) ==
    /\ t.count = expected_records
    /\ t.packages = expected_records
    /\ t.temp \in -40 .. 84
    /\ t.max_temp \in t.temp .. 84
    /\ t.count \in 1 .. MaxChunk
    /\ t.incrc # <<>>

(* recv_message: a frame that is cut, damaged or malformed ends the session. *)
Received(m) == HeaderValid(m)

-----------------------------------------------------------------------------
Unused == [host |-> "none", board |-> "none", up |-> <<>>, down |-> <<>>]

NetInit == net = [k \in Conns |-> Unused]

(* send_message, from the host on connection k. *)
SentUp(k, m) == [net EXCEPT ![k].up = Append(@, m)]

(* Mutant: the board closes without telling the host. *)
AbortedSilently(n, k) == IF k = 0 THEN n ELSE [n EXCEPT ![k].up = <<>>]

(* What the board's stack still holds for an aborted connection is lost or *)
(* not: the host may have received it before the reset.                    *)
Aborted(n, k) ==
    IF k = 0 THEN n
    ELSE [n EXCEPT ![k].board = "gone", ![k].up = <<>>]

(* A cable or a stack drops connection k: both ends find out on their own. *)
Break(k) ==
    /\ net[k].host = "open"
    /\ net[k].board = "open"
    /\ net' = [net EXCEPT ![k].host = "lost"]

(* A frame is damaged on the way and its CRC no longer fits. *)
Damage(k) ==
    \/ \E i \in DOMAIN net[k].up   : net' = [net EXCEPT ![k].up[i].intact = FALSE]
    \/ \E i \in DOMAIN net[k].down : net' = [net EXCEPT ![k].down[i].intact = FALSE]
=============================================================================
