------------------------------ MODULE NetServer ------------------------------
(***************************************************************************)
(* The inference server on the board (main_coco80_net.c): a loop that      *)
(* polls lwIP and processes one command at a time, and the four callbacks  *)
(* lwIP may run at any poll, also at those in the middle of a command.     *)
(* srv.pc says at which poll the program stands; between two polls it runs *)
(* without interruption.  A connection number of 0 is a null pcb.          *)
(***************************************************************************)
EXTENDS NetLink

VARIABLE srv

NoFrame == [conn |-> 0, m |-> NoMsg]

Polls == {"loop", "infer", "sending", "resultack", "timingack", "endack"}

(* Mutant: the running CRC of the input is not started anew. *)
reset_but_crc(s) ==
    [s EXCEPT !.phase = "HELLO", !.expected = 1, !.first = 0, !.count = 0,
              !.received = 0, !.completed = 0, !.sent = 0,
              !.rescrc = <<>>, !.fatal = FALSE, !.released = FALSE,
              !.queued = FALSE, !.acked = FALSE, !.transport = FALSE,
              !.binding = 0, !.rx = NoMsg, !.ready = FALSE, !.active = NoMsg]

(* c8_reset_session, without the two fields c8_accept sets after it. *)
reset_session(s) ==
    [s EXCEPT !.phase = "HELLO", !.expected = 1, !.first = 0, !.count = 0,
              !.received = 0, !.completed = 0, !.sent = 0,
              !.incrc = <<>>, !.rescrc = <<>>, !.fatal = FALSE, !.released = FALSE,
              !.queued = FALSE, !.acked = FALSE, !.transport = FALSE,
              !.binding = 0, !.rx = NoMsg, !.ready = FALSE, !.active = NoMsg]

SrvInit ==
    srv = [pc |-> "loop", conn |-> 0, open |-> FALSE, phase |-> "HELLO", expected |-> 1,
           first |-> 0, count |-> 0, received |-> 0, completed |-> 0, sent |-> 0,
           incrc |-> <<>>, rescrc |-> <<>>, fatal |-> FALSE, released |-> FALSE,
           queued |-> FALSE, acked |-> FALSE, transport |-> FALSE, binding |-> 0,
           rx |-> NoMsg, ready |-> FALSE, active |-> NoMsg,
           inputs |-> <<>>, results |-> <<>>, i |-> 0, request |-> NoMsg, frame |-> NoFrame]

-----------------------------------------------------------------------------
(* The callbacks.  A poll handles one packet, and every poll is followed by  *)
(* the checks of the program, so a packet finds either the main loop with   *)
(* nothing pending, or a command in progress whose connection is open.      *)
AtPoll ==
    IF srv.pc = "loop" THEN ~srv.ready /\ ~srv.fatal
                       ELSE srv.pc \in Polls /\ srv.open

(* c8_accept: a second connection is refused while one is open.  What the   *)
(* host sent on the connection before, its FIN included, comes first.       *)
accept(k) ==
    /\ AtPoll
    /\ net[k].board = "pending"
    /\ srv.conn # 0 => net[srv.conn].host # "closed"
    /\ IF srv.open
       THEN net' = Aborted(net, k) /\ UNCHANGED srv
       ELSE /\ net' = [net EXCEPT ![k].board = "open"]
            /\ srv' = [reset_session(srv) EXCEPT !.conn = k, !.open = TRUE]

(* c8_sent: any segment of the host acknowledges what it has received. *)
Acknowledged(s) == [s EXCEPT !.acked = @ \/ s.queued]

(* c8_select_payload: how long the body of each command must be. *)
LengthOk(m) ==
    CASE m.type \in {"HELLO", "PARAMETERS", "END"} -> TRUE
      [] m.type = "INPUT" -> m.count # 0 /\ Len(m.body) = m.count
      [] m.type = "RUN"   -> m.body = <<>>
      [] OTHER            -> FALSE

(* c8_receive and c8_ingest: nothing is taken while a command is pending.  *)
receive ==
    /\ AtPoll
    /\ srv.conn # 0 /\ net[srv.conn].up # <<>>
    /\ ~srv.ready
    /\ LET m  == Head(net[srv.conn].up)
           ok == HeaderValid(m) /\ m.seq = srv.expected /\ LengthOk(m)
       IN  srv' = [Acknowledged(srv) EXCEPT !.rx = m, !.ready = ok, !.fatal = @ \/ ~ok]
    /\ net' = [net EXCEPT ![srv.conn].up = Tail(@)]

(* c8_receive with no packet: the host has closed its side. *)
peer_closed ==
    /\ AtPoll
    /\ srv.conn # 0 /\ net[srv.conn].host = "closed" /\ net[srv.conn].up = <<>>
    /\ net' = Aborted(net, srv.conn)
    /\ srv' = [Acknowledged(srv) EXCEPT !.open = FALSE, !.conn = 0]

sent ==
    /\ AtPoll
    /\ srv.queued /\ ~srv.acked
    /\ srv.conn # 0 /\ net[srv.conn].host = "open"
    /\ srv' = Acknowledged(srv)
    /\ UNCHANGED net

(* c8_connection_error: a reset, or data that is never acknowledged; outside *)
(* HELLO it fails the session.  A host that vanishes while nothing is under *)
(* way to it is never missed.                                              *)
GivenUp(k) == net[k].host = "lost" /\ srv.queued /\ ~srv.acked

Errored(s) == [s EXCEPT !.open = FALSE, !.conn = 0, !.fatal = @ \/ s.phase # "HELLO"]

connection_error ==
    /\ AtPoll
    /\ srv.conn # 0 /\ (net[srv.conn].host = "closed" \/ GivenUp(srv.conn))
    /\ net' = Aborted(net, srv.conn)
    /\ srv' = Errored(srv)

(* A timer of the stack gives up a dead connection, and the packet of the   *)
(* same poll opens the next: no check runs in between.                      *)
error_then_accept(k) ==
    /\ AtPoll
    /\ srv.conn # 0 /\ GivenUp(srv.conn)
    /\ net[k].board = "pending"
    /\ net' = [Aborted(net, srv.conn) EXCEPT ![k].board = "open"]
    /\ srv' = [reset_session(Errored(srv)) EXCEPT !.conn = k, !.open = TRUE]

Callback ==
    \/ receive \/ peer_closed \/ sent \/ connection_error
    \/ \E k \in Conns : accept(k) \/ error_then_accept(k)

-----------------------------------------------------------------------------
(* c8_fill_response_header: the header of the command being answered. *)
Answered(s) == IF s.released THEN s.active ELSE s.rx

(* c8_send_frame: nothing can be sealed under a binding no HELLO has set,  *)
(* nor under the empty header of a session that was reset.                 *)
CanSend(s) == s.conn # 0 /\ s.binding # 0 /\ Answered(s) # NoMsg

Frame(s, type, mode, status, body) ==
    [Answered(s) EXCEPT !.type = type, !.binding = s.binding, !.kind = mode.kind,
                        !.profile = mode.profile, !.status = status, !.body = body]

(* What is sent to a host that has left goes nowhere. *)
Queued(n, k, m) == IF n[k].host = "open" THEN [n EXCEPT ![k].down = Append(@, m)] ELSE n
Down(s, m)      == Queued(net, s.conn, m)

(* c8_release_command *)
CanRelease(s) == s.ready /\ ~s.released
release_command(s) == [s EXCEPT !.active = s.rx, !.expected = @ + 1, !.rx = NoMsg,
                                     !.ready = FALSE, !.released = TRUE]

(* c8_fail_close, with the end of the main loop: the connection that is     *)
(* open now is told and aborted, whichever command failed.                 *)
FailClose(s, n) ==
    LET told  == s.conn # 0 /\ s.open /\ s.rx # NoMsg /\ CanSend(s)
        after == IF told THEN Queued(n, s.conn, Frame(s, "ERROR", NoProfile, 1, <<>>)) ELSE n
    IN  /\ net' = Aborted(after, s.conn)
        /\ srv' = [reset_session(s) EXCEPT !.conn = 0, !.open = FALSE, !.pc = "loop",
                                           !.results = <<>>, !.request = NoMsg,
                                           !.frame = NoFrame, !.i = 0]

(* The command is over: back to the main loop. *)
Done(s) == [s EXCEPT !.pc = "loop", !.released = FALSE, !.results = <<>>,
                     !.request = NoMsg, !.i = 0]

(* A command whose whole answer is one STATUS frame. *)
Status(s) ==
    IF CanRelease(s) /\ CanSend(release_command(s))
    THEN /\ net' = Down(s, Frame(release_command(s), "STATUS", NoProfile, 0, <<>>))
         /\ srv' = [Done(release_command(s)) EXCEPT !.queued = TRUE, !.acked = FALSE]
    ELSE FailClose(release_command(s), net)

-----------------------------------------------------------------------------
(* The main loop. *)
LoopFatal == srv.pc = "loop" /\ srv.fatal /\ FailClose(srv, net)

Pending(type) == srv.pc = "loop" /\ ~srv.fatal /\ srv.ready /\ srv.rx.type = type

(* c8_process_command copies the header before anything else. *)
Begun == [srv EXCEPT !.active = srv.rx, !.released = FALSE]

(* c8_process_hello; the artifacts this board was built with. *)
process_hello(board) ==
    /\ Pending("HELLO")
    /\ IF srv.phase = "HELLO" /\ srv.rx.count = 0 /\ srv.rx.first = 0 /\ srv.rx.binding \in board
       THEN Status([Begun EXCEPT !.binding = srv.rx.binding, !.phase = "PARAMETERS",
                                 !.transport = srv.rx.body.transport])
       ELSE FailClose(Begun, net)

process_parameters ==
    /\ Pending("PARAMETERS")
    /\ IF srv.phase = "PARAMETERS" /\ srv.rx.count = 0 /\ srv.rx.binding = srv.binding
       THEN Status([Begun EXCEPT !.phase = "INPUT"])
       ELSE FailClose(Begun, net)

(* c8_process_input: chunks follow one another from the first. *)
process_input ==
    /\ Pending("INPUT")
    /\ LET expected_first == IF srv.received = 0 THEN srv.rx.first ELSE srv.first + srv.count
       IN  IF srv.phase = "INPUT" /\ srv.rx.binding = srv.binding /\ srv.rx.first = expected_first
           THEN Status([Begun EXCEPT !.first = srv.rx.first, !.count = srv.rx.count,
                            !.inputs = srv.rx.body, !.incrc = @ \o srv.rx.body,
                            !.received = @ + srv.rx.count,
                            !.completed = @ + (IF srv.transport THEN srv.rx.count ELSE 0),
                            !.phase = IF srv.transport THEN "INPUT" ELSE "RUN"])
           ELSE FailClose(Begun, net)

process_run ==
    /\ Pending("RUN")
    /\ IF /\ srv.phase = "RUN" /\ ~srv.transport /\ srv.rx.binding = srv.binding
          /\ srv.rx.first = srv.first /\ srv.rx.count = srv.count
       THEN /\ srv' = [Begun EXCEPT !.pc = "infer", !.request = srv.rx, !.i = 0, !.results = <<>>]
            /\ UNCHANGED net
       ELSE FailClose(Begun, net)

(* c8_process_end: the host's counters must be the board's. *)
process_end ==
    /\ Pending("END")
    /\ LET e == srv.rx.body
           s == [Begun EXCEPT !.phase = "HELLO"]
       IN  IF /\ srv.phase = "INPUT" /\ srv.rx.binding = srv.binding /\ EndValid(e)
              /\ e.received = srv.received /\ e.completed = srv.completed /\ e.sent = srv.sent
           THEN IF CanSend(release_command(s))
                THEN /\ net' = Down(s, Frame(release_command(s), "END", NoProfile, 0,
                              [received |-> s.received, completed |-> s.completed,
                               sent |-> s.sent, incrc |-> s.incrc, rescrc |-> s.rescrc]))
                     /\ srv' = [release_command(s) EXCEPT !.pc = "endack", !.queued = TRUE, !.acked = FALSE]
                ELSE FailClose(release_command(s), net)
           ELSE FailClose(Begun, net)

process_other ==
    /\ srv.pc = "loop" /\ ~srv.fatal /\ srv.ready
    /\ srv.rx.type \notin {"HELLO", "PARAMETERS", "INPUT", "RUN", "END"}
    /\ FailClose(Begun, net)

-----------------------------------------------------------------------------
(* c8_build_results and the rest of c8_process_run, poll by poll. *)

(* What the board makes of one image: the detection or raw-head package.   *)
PackageOf(image) == [image |-> image, pkg_image |-> image, input |-> image]

(* The per-image row of the timing frame; sound when ExtendedTiming.unpack *)
(* accepts its counters.                                                   *)
TimingRow(image, request) ==
    [image |-> image, kind |-> request.kind, profile |-> request.profile,
     outcrc |-> IF request.kind = "TIMING" THEN <<>> ELSE <<PackageOf(image)>>, sound |-> TRUE]

ChunkTimingOf(s) ==
    [first |-> s.first, count |-> s.count, kind |-> s.request.kind,
     profile |-> s.request.profile, incrc |-> s.inputs, packages |-> s.count,
     rescrc |-> s.results, temp |-> 50, max_temp |-> 60,
     rows |-> [n \in 1 .. s.count |-> TimingRow(s.inputs[n], s.request)]]

(* The poll after each image: the run stops if the session is not whole.   *)
(* The loop bound is read anew each time, and a reset session has none.    *)
infer ==
    /\ srv.pc = "infer"
    /\ IF ~srv.open \/ srv.fatal THEN FailClose(srv, net)
       ELSE /\ UNCHANGED net
            /\ IF srv.i < srv.count
               THEN srv' = [srv EXCEPT !.i = @ + 1, !.results =
                              IF srv.request.kind = "TIMING" THEN @
                              ELSE Append(@, PackageOf(srv.inputs[srv.i + 1]))]
               ELSE srv' = [srv EXCEPT !.pc = "built"]

(* The results of a chunk are complete: nothing to send in timing-only      *)
(* mode, else the large frame starts under the header of this moment.       *)
begin_result ==
    /\ srv.pc = "built"
    /\ IF srv.results = <<>>
       THEN srv' = [srv EXCEPT !.pc = "resultack", !.acked = TRUE] /\ UNCHANGED net
       ELSE IF CanSend(srv)
       THEN /\ srv' = [srv EXCEPT !.pc = "sending", !.queued = TRUE, !.acked = FALSE,
                          !.frame = [conn |-> srv.conn, m |-> Frame(srv, "RESULT", srv.request, 0, srv.results)]]
            /\ UNCHANGED net
       ELSE FailClose(srv, net)

(* c8_send_bytes polls while it waits for room, and the rest of the frame   *)
(* goes to whatever pcb the server has by then.                             *)
send_result ==
    /\ srv.pc = "sending"
    /\ IF srv.open
       THEN /\ net' = Down(srv, [srv.frame.m EXCEPT !.intact = srv.conn = srv.frame.conn])
            /\ srv' = [srv EXCEPT !.pc = "resultack", !.queued = TRUE, !.acked = FALSE,
                                  !.rescrc = @ \o srv.results, !.frame = NoFrame]
       ELSE FailClose(srv, net)

(* c8_send_bytes and c8_wait_for_acked fail when the connection is gone, and *)
(* after a time limit: a host that is lost acknowledges nothing, nor can    *)
(* anyone acknowledge what a session that was reset no longer has queued.   *)
wait_failed ==
    /\ srv.pc \in {"sending", "resultack", "timingack", "endack"}
    /\ ~srv.acked
    /\ srv.open => \/ net[srv.conn].host = "lost"
                   \/ srv.pc # "sending" /\ ~srv.queued
    /\ FailClose(srv, net)

send_timing ==
    /\ srv.pc = "resultack" /\ srv.acked
    /\ LET s == [srv EXCEPT !.completed = @ + srv.count, !.sent = @ + srv.count, !.phase = "INPUT"]
       IN  IF ChunkTimingValid(ChunkTimingOf(srv), srv.count)
              /\ CanRelease(s) /\ CanSend(release_command(s))
           THEN /\ net' = Down(s, Frame(release_command(s), "TIMING", srv.request, 0, ChunkTimingOf(srv)))
                /\ srv' = [release_command(s) EXCEPT !.pc = "timingack", !.queued = TRUE, !.acked = FALSE]
           ELSE FailClose(s, net)

command_done ==
    /\ srv.pc \in {"timingack", "endack"} /\ srv.acked
    /\ srv' = Done(srv)
    /\ UNCHANGED net

Board(board) ==
    \/ LoopFatal \/ process_hello(board) \/ process_parameters \/ process_input
    \/ process_run \/ process_end \/ process_other
    \/ infer \/ begin_result \/ send_result \/ send_timing \/ wait_failed \/ command_done
=============================================================================
