---------------------------- MODULE RtspConnection ----------------------------
(***************************************************************************)
(* One RTSP connection over TCP: the incremental state machine that turns    *)
(* the bytes of the client into requests (rtsp_state_machine.c), the checks  *)
(* before a method runs, and the output queue that replies and interleaved   *)
(* media packets share (rtsp_lowlevel.c).                                    *)
(*                                                                           *)
(* A message is a record, and it travels as pieces, between which TCP may    *)
(* cut: half a request line, the rest of it, the header lines, the blank     *)
(* line; an interleaved frame has its first bytes and the rest.  All of the  *)
(* server's steps run in the event loop of the client's thread, one callback *)
(* at a time; while handling is set RTSP_handler is in its loop.             *)
(*                                                                           *)
(* The generated parsers do not stop at the end of the buffer: a message     *)
(* that is not complete is read on into what lies behind it, so the result   *)
(* is a choice among "more is needed", "bad" and a false "complete" that     *)
(* ends beyond the buffer (then g_byte_array_remove_range removes nothing).  *)
(***************************************************************************)
EXTENDS Integers, Sequences, SequencesExt

CONSTANTS
    Messages,       \* what the client may send, see Message
    BufferSize,     \* RTSP_BUFFERSIZE, in pieces
    MaxMessages,    \* bound: messages the client sends
    MaxPackets      \* bound: media packets on the interleaved channel

\* What of a message decides how it is treated.  line is "frame" for an
\* interleaved packet; cseq is -1 when there is no CSeq.
Message ==
    [line    : {"good", "malformed", "bad_version", "bad_method", "frame"},
     headers : {"good", "malformed"},
     method  : {"OPTIONS", "DESCRIBE", "SETUP", "PLAY", "PAUSE", "TEARDOWN"},
     path    : BOOLEAN,                       \* the URI has one (not rtsp://host)
     cseq    : Int,
     session : {"absent", "ours", "other"},   \* Session header
     require : BOOLEAN,                       \* Require or Proxy-Require
     content_length : BOOLEAN]

ASSUME ConnectionAssumption ==
    /\ Messages \subseteq Message
    /\ BufferSize \in Nat \ {0}
    /\ MaxMessages \in Nat
    /\ MaxPackets \in Nat

VARIABLES
    sent,           \* the messages of the client so far
    wire,           \* their pieces that the server has not read yet
    input,          \* RTSP_Client::input
    status,         \* RTSP_Client::status
    pending,        \* RTSP_Client::pending_request: the message's index, 0 if NULL
    headers,        \* the message whose headers pending_request has
    last_cseq,      \* RTSP_Client::last_cseq
    session,        \* "none", or the RTSP session: "idle" or "playing"
    handling,       \* RTSP_handler is in its loop
    conn,           \* "open", "closed" (the event loop ended) or "crashed"
    queued,         \* every item ever queued: the index it answers, 0 for media
    out_queue,      \* RTSP_Client::out_queue: positions in queued
    writing,        \* ev_io_write is started
    delivered,      \* position in queued of the last item sent as a whole
    overread        \* a parser has read on behind the input

inVars == <<sent, wire>>
parseVars == <<input, status, pending, headers, last_cseq, session, overread>>
outVars == <<queued, out_queue, writing, delivered>>
vars == <<inVars, parseVars, handling, conn, outVars>>

Parts == {"start", "eol", "fields", "blank", "head", "tail"}

\* The pieces of message m, the i-th of the connection.  A request without
\* CSeq is one without headers.  Behind a line that is refused nothing is told
\* apart: the rest is left out.
Pieces(i, m) ==
    LET cut == IF m.line = "frame" THEN <<"head", "tail">>
               ELSE IF m.line # "good" THEN <<"start", "eol">>
               ELSE IF m.cseq < 0 THEN <<"start", "eol", "blank">>
               ELSE <<"start", "eol", "fields", "blank">>
    IN  [k \in 1..Len(cut) |-> [of |-> i, part |-> cut[k]]]

\* rtsp_client_new and rtsp_client_incoming_cb: everything is zero.
Init ==
    /\ sent = <<>> /\ wire = <<>>
    /\ input = <<>> /\ status = "Begin" /\ pending = 0 /\ headers = <<>>
    /\ last_cseq = 0 /\ session = "none" /\ overread = FALSE
    /\ handling = FALSE /\ conn = "open"
    /\ queued = <<>> /\ out_queue = <<>> /\ writing = FALSE /\ delivered = 0

-----------------------------------------------------------------------------
(* The client and the socket *)

\* The client writes a message; the network may deliver it in parts.  It may
\* as well write it before or after the loop of RTSP_handler, which does not
\* look at the socket.
ClientSends(m) ==
    /\ conn = "open" /\ ~handling /\ Len(sent) < MaxMessages
    /\ sent' = Append(sent, m)
    /\ wire' = wire \o Pieces(Len(sent) + 1, m)
    /\ UNCHANGED <<parseVars, handling, conn, outVars>>

\* The event loop of the client, or the whole server, ended: the client object
\* is gone, and the history of the connection ends with it.
rtsp_client_free(how) ==
    /\ conn' = how
    /\ sent' = <<>> /\ wire' = <<>>
    /\ input' = <<>> /\ status' = "Begin" /\ pending' = 0 /\ headers' = <<>>
    /\ last_cseq' = 0 /\ session' = "none" /\ overread' = FALSE
    /\ handling' = FALSE
    /\ queued' = <<>> /\ out_queue' = <<>> /\ writing' = FALSE /\ delivered' = 0

\* Mutant: the last byte of the local buffer is counted as room.
ReadOneTooMany(n) ==
    /\ conn = "open" /\ ~handling /\ n \in 1..Len(wire)
    /\ \/ Len(input) + n > BufferSize + 1 /\ rtsp_client_free("closed")
       \/ /\ Len(input) + n <= BufferSize + 1
          /\ wire' = SubSeq(wire, n + 1, Len(wire))
          /\ input' = input \o SubSeq(wire, 1, n)
          /\ handling' = TRUE
          /\ UNCHANGED <<sent, status, pending, headers, last_cseq, session,
                         overread, conn, outVars>>

\* recv returned n pieces; too many for the buffer end the connection.
rtsp_tcp_read_cb(n) ==
    /\ conn = "open" /\ ~handling /\ n \in 1..Len(wire)
    /\ \/ Len(input) + n > BufferSize /\ rtsp_client_free("closed")
       \/ /\ Len(input) + n <= BufferSize
          /\ wire' = SubSeq(wire, n + 1, Len(wire))
          /\ input' = input \o SubSeq(wire, 1, n)
          /\ handling' = TRUE
          /\ UNCHANGED <<sent, status, pending, headers, last_cseq, session,
                         overread, conn, outVars>>

\* recv returned 0 or failed.
ClientCloses ==
    /\ conn = "open" /\ ~handling
    /\ rtsp_client_free("closed")

-----------------------------------------------------------------------------
(* Output *)

\* Mutant: pushed at the end that is popped.
PushTail(item) ==
    /\ queued' = Append(queued, item)
    /\ out_queue' = Append(out_queue, Len(queued) + 1)
    /\ writing' = TRUE
    /\ UNCHANGED delivered

\* Mutant: the watcher is not started.
PushOnly(item) ==
    /\ queued' = Append(queued, item)
    /\ out_queue' = <<Len(queued) + 1>> \o out_queue
    /\ UNCHANGED <<writing, delivered>>

\* An item is pushed and the watcher started, whoever calls.
rtsp_write_data_queue(item) ==
    /\ queued' = Append(queued, item)
    /\ out_queue' = <<Len(queued) + 1>> \o out_queue
    /\ writing' = TRUE
    /\ UNCHANGED delivered

\* The socket can take data.  What is popped is gone, sent or not.
rtsp_tcp_write_cb ==
    /\ conn = "open" /\ ~handling /\ writing
    /\ \/ /\ out_queue = <<>>
          /\ writing' = FALSE
          /\ UNCHANGED <<queued, out_queue, delivered>>
       \/ /\ out_queue # <<>>
          /\ out_queue' = Front(out_queue)
          /\ \/ delivered' = Last(out_queue)
             \/ UNCHANGED delivered
          /\ UNCHANGED <<queued, writing>>
    /\ UNCHANGED <<inVars, parseVars, handling, conn>>

\* The RTP writer of a playing session sends a packet on its channel.
rtp_interleaved_send_pkt ==
    /\ conn = "open" /\ ~handling /\ session = "playing"
    /\ Len(SelectSeq(queued, LAMBDA x : x = 0)) < MaxPackets
    /\ rtsp_write_data_queue(0)
    /\ UNCHANGED <<inVars, parseVars, handling, conn>>

-----------------------------------------------------------------------------
(* The parsers *)

HeadIn(parts) == input # <<>> /\ Head(input).part \in parts

Consumed(n) == SubSeq(input, n + 1, Len(input))

Guess == {"more", "bad", "beyond"}

\* The results of ragel_parse_request_line; "complete" covers two pieces.
ragel_parse_request_line ==
    IF ~HeadIn({"start"}) THEN {"bad"}
    ELSE IF Len(input) = 1 THEN Guess
    ELSE IF sent[Head(input).of].line = "malformed" THEN {"bad"} ELSE {"complete"}

\* The results of ragel_read_rtsp_headers.
ragel_read_rtsp_headers ==
    IF input = <<>> THEN Guess
    ELSE IF ~HeadIn({"fields", "blank"}) THEN {"bad"}
    ELSE IF HeadIn({"blank"}) THEN {"complete"}
    ELSE IF sent[Head(input).of].headers = "malformed" THEN {"bad"}
    ELSE IF Len(input) = 1 THEN Guess ELSE {"complete"}

-----------------------------------------------------------------------------
(* RTSP_handler: one step for each handler it calls in its loop *)

InHandler(s) == conn = "open" /\ handling /\ status = s

\* The handler returned false: the loop ends.
Return == handling' = FALSE

Stays == UNCHANGED <<input, status, pending, headers, last_cseq, session>>

RTSP_handle_new_empty ==
    /\ InHandler("Begin") /\ input = <<>>
    /\ Return /\ Stays
    /\ UNCHANGED <<inVars, conn, outVars, overread>>

\* Mutant: an incomplete frame is tried again at once.
InterleavedRetries ==
    /\ InHandler("Interleaved") \/ (InHandler("Begin") /\ HeadIn({"head"}))
    /\ \/ /\ Len(input) < 2
          /\ status' = "Interleaved"
          /\ UNCHANGED <<input, handling>>
       \/ /\ Len(input) >= 2
          /\ input' = Consumed(2)
          /\ status' = "Begin"
          /\ UNCHANGED handling
    /\ UNCHANGED <<inVars, pending, headers, last_cseq, session, overread, conn,
                   outVars>>

\* '$' starts an interleaved frame: handled as in its own state.
RTSP_handle_interleaved ==
    /\ InHandler("Interleaved") \/ (InHandler("Begin") /\ HeadIn({"head"}))
    /\ \/ /\ Len(input) < 2
          /\ status' = "Interleaved"
          /\ Return
          /\ UNCHANGED input
       \/ /\ Len(input) >= 2
          /\ input' = Consumed(2)
          /\ status' = "Begin"
          /\ UNCHANGED handling
    /\ UNCHANGED <<inVars, pending, headers, last_cseq, session, overread, conn,
                   outVars>>

\* A reply before any request is pending: what was read stays in the input.
RefuseLine ==
    /\ rtsp_write_data_queue(Head(input).of)
    /\ Return
    /\ UNCHANGED <<input, pending, headers>>

\* A request line of the given kind, all of it in the input.
AcceptLine(line) ==
    \/ line = "bad_version" /\ RefuseLine /\ UNCHANGED status
    \/ line = "bad_method" /\ RefuseLine /\ status' = "Headers"
    \/ /\ line = "good"
       /\ status' = "Headers"
       /\ pending' = Head(input).of
       /\ headers' = <<>>
       /\ input' = Consumed(2)
       /\ UNCHANGED <<handling, outVars>>

RTSP_handle_new ==
    /\ InHandler("Begin") /\ input # <<>> /\ ~HeadIn({"head"})
    /\ \E res \in ragel_parse_request_line :
          /\ overread' = (overread \/ ragel_parse_request_line = Guess)
          /\ \/ res = "bad" /\ RefuseLine /\ UNCHANGED status
             \/ /\ res = "more" /\ Return
                /\ UNCHANGED <<input, status, pending, headers, outVars>>
             \/ res = "complete" /\ AcceptLine(sent[Head(input).of].line)
             \/ /\ res = "beyond"
                /\ status' = "Headers" /\ pending' = Head(input).of
                /\ headers' = <<>>
                /\ UNCHANGED <<input, handling, outVars>>
    /\ UNCHANGED <<inVars, last_cseq, session, conn>>

\* The headers are complete; rtsp_connection_limit lets every request pass.
HeadersDone(rest, m) ==
    /\ input' = rest
    /\ headers' = <<m>>
    /\ status' = "Content"
    /\ UNCHANGED <<handling, outVars>>

RTSP_handle_headers ==
    /\ InHandler("Headers") /\ pending # 0
    /\ \E res \in ragel_read_rtsp_headers :
          /\ overread' = (overread \/ ragel_read_rtsp_headers = Guess)
          /\ \/ /\ res = "bad"
                /\ rtsp_write_data_queue(pending) /\ Return
                /\ UNCHANGED <<input, status, headers>>
             \/ /\ res = "more"
                /\ input' = IF input = <<>> THEN <<>> ELSE Consumed(1)
                /\ Return
                /\ UNCHANGED <<status, headers, outVars>>
             \/ /\ res = "complete"
                /\ HeadersDone(Consumed(IF HeadIn({"fields"}) THEN 2 ELSE 1),
                               sent[pending])
             \/ /\ res = "beyond"
                /\ \E m \in Messages : m.line = "good" /\ HeadersDone(input, m)
    /\ UNCHANGED <<inVars, pending, last_cseq, session, conn>>

\* pending_request is NULL and is dereferenced.
RTSP_handle_headers_null ==
    /\ InHandler("Headers") /\ pending = 0
    /\ rtsp_client_free("crashed")

\* What the method may leave of the session, when it succeeds and when not.
MethodResults(m, s) ==
    {s} \cup CASE m = "SETUP" /\ s = "none"     -> {"idle"}
               [] m = "PLAY"  /\ s # "none"     -> {"playing"}
               [] m = "PAUSE" /\ s = "playing"  -> {"idle"}
               [] m = "TEARDOWN"                -> {"none"}
               [] OTHER                         -> {}

\* TRUE when the Session header is missing or names the session there is.
rtsp_check_session(m) ==
    m.session = "absent" \/ (m.session = "ours" /\ session # "none")

\* Methods that look at the path of the URI, where they come to it: PLAY refuses a
\* session that is not set up before, and PAUSE one that does not play.
ChecksPath(method) ==
    \/ method \in {"DESCRIBE", "SETUP", "TEARDOWN"}
    \/ method = "PLAY" /\ session # "none"
    \/ method = "PAUSE" /\ session = "playing"

\* check_forbidden_path gets a URI without a path: strstr(NULL).
NullPath(m) ==
    /\ m.cseq > last_cseq /\ rtsp_check_session(m) /\ ~m.require
    /\ ChecksPath(sent[pending].method) /\ ~sent[pending].path

\* Every method answers once, whatever comes of it.
rtsp_handle_request(m) ==
    \/ /\ m.cseq < 0
       /\ rtsp_write_data_queue(pending)
       /\ UNCHANGED <<last_cseq, session>>
    \/ /\ m.cseq \in 0..last_cseq
       /\ UNCHANGED <<last_cseq, session, outVars>>
    \/ /\ m.cseq > last_cseq
       /\ last_cseq' = m.cseq
       /\ rtsp_write_data_queue(pending)
       /\ IF rtsp_check_session(m) /\ ~m.require
          THEN session' \in MethodResults(sent[pending].method, session)
          ELSE UNCHANGED session

\* Mutant: the loop ends after a request.
ContentEndsLoop ==
    /\ InHandler("Content") /\ ~Head(headers).content_length
    /\ ~NullPath(Head(headers))
    /\ rtsp_handle_request(Head(headers))
    /\ pending' = 0
    /\ headers' = <<>>
    /\ status' = "Begin"
    /\ Return
    /\ UNCHANGED <<inVars, input, overread, conn>>

RTSP_handle_content ==
    /\ InHandler("Content") /\ ~Head(headers).content_length
    /\ ~NullPath(Head(headers))
    /\ rtsp_handle_request(Head(headers))
    /\ pending' = 0
    /\ headers' = <<>>
    /\ status' = "Begin"
    /\ UNCHANGED <<inVars, input, handling, overread, conn>>

\* g_assert_not_reached: a request with a body is not supported.
RTSP_handle_content_body ==
    /\ InHandler("Content") /\ Head(headers).content_length
    /\ rtsp_client_free("crashed")

RTSP_handle_content_null ==
    /\ InHandler("Content") /\ ~Head(headers).content_length
    /\ NullPath(Head(headers))
    /\ rtsp_client_free("crashed")

RTSP_handler ==
    \/ RTSP_handle_new_empty
    \/ RTSP_handle_interleaved
    \/ RTSP_handle_new
    \/ RTSP_handle_headers
    \/ RTSP_handle_headers_null
    \/ RTSP_handle_content
    \/ RTSP_handle_content_body
    \/ RTSP_handle_content_null

Next ==
    \/ \E m \in Messages : ClientSends(m)
    \/ \E n \in 1..BufferSize + 1 : rtsp_tcp_read_cb(n)
    \/ ClientCloses
    \/ rtsp_tcp_write_cb
    \/ rtp_interleaved_send_pkt
    \/ RTSP_handler

Spec == Init /\ [][Next]_vars

\* The loop of RTSP_handler goes on, and libev calls a started watcher when
\* the socket can take data, which it can as long as the client reads.
FairSpec == Spec /\ WF_vars(RTSP_handler) /\ WF_vars(rtsp_tcp_write_cb)

-----------------------------------------------------------------------------
(* Properties *)

\* The variables keep the types of RTSP_Client; a request past its headers
\* has them.
TypeOK ==
    /\ sent \in Seq(Messages) /\ Len(sent) <= MaxMessages
    /\ \A s \in {wire, input} : s \in Seq([of : 1..Len(sent), part : Parts])
    /\ Len(input) <= BufferSize
    /\ status \in {"Begin", "Headers", "Content", "Interleaved"}
    /\ pending \in 0..Len(sent)
    /\ status = "Content" => pending # 0 /\ Len(headers) = 1
    /\ last_cseq \in Nat
    /\ session \in {"none", "idle", "playing"}
    /\ conn \in {"open", "closed", "crashed"}
    /\ \A b \in {handling, writing, overread} : b \in BOOLEAN
    /\ queued \in Seq(0..Len(sent))
    /\ out_queue \in Seq(1..Len(queued))
    /\ delivered \in 0..Len(queued)

WellFormed(m) ==
    m.line \in {"good", "frame"} /\ m.headers = "good" /\ ~m.content_length

\* Message i of the connection was read to its end.
Received(i) == \A k \in 1..Len(wire) : wire[k].of > i

\* A request is due an answer unless its CSeq is not above all earlier ones.
Due(i) ==
    /\ sent[i].line # "frame"
    /\ \/ sent[i].cseq < 0
       \/ /\ sent[i].cseq > 0
          /\ \A j \in 1..i-1 : sent[j].line # "frame" => sent[j].cseq < sent[i].cseq

\* Message i was answered.
Answered(i) == \E k \in 1..Len(queued) : queued[k] = i

\* Exactly the requests received so far that are due an answer were answered, each
\* once and all in their order.
EachAnswered ==
    /\ \A i \in 1..Len(sent) : Answered(i) <=> Received(i) /\ Due(i)
    /\ \A j, k \in 1..Len(queued) :
          j < k /\ queued[j] # 0 /\ queued[k] # 0 => queued[j] < queued[k]

\* Whenever RTSP_handler has returned, exactly the requests received so far
\* that are due an answer were answered, in their order, however they were
\* pipelined and mixed with interleaved frames, and wherever a frame was cut -
\* as long as the client's messages are well formed and no parser was called
\* with half a message (rtsp_state_machine.c:135-376).
AnsweredAsSent ==
    conn = "open" /\ ~handling /\ ~overread
       /\ (\A i \in 1..Len(sent) : WellFormed(sent[i]))
    => EachAnswered

\* "Process an incremental RTSP request" (rtsp_state_machine.c:379): the same,
\* wherever TCP cuts the requests.
AnsweredIncrementally ==
    conn = "open" /\ ~handling /\ (\A i \in 1..Len(sent) : WellFormed(sent[i]))
    => EachAnswered

\* Replies and media packets go out in the order in which they were queued,
\* although items are lost when the socket is full (rtsp_lowlevel.c:282-357).
DeliveredInOrder == [][conn' = "open" => delivered' >= delivered]_vars

\* The loop of RTSP_handler ends for every input, the misread ones included.
HandlerReturns == handling ~> ~handling

\* What is queued leaves the queue as long as the connection lasts: the write
\* watcher is never stopped while an item waits.
QueueGoesOut == out_queue # <<>> ~> (out_queue = <<>> \/ conn # "open")
=============================================================================
