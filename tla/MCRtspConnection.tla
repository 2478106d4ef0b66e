-------------------------- MODULE MCRtspConnection --------------------------
(* Model checking of one connection: a few messages of each kind. *)
EXTENDS RtspConnection

Request(method, cseq) ==
    [line |-> "good", headers |-> "good", method |-> method, path |-> TRUE, cseq |-> cseq,
     session |-> "absent", require |-> FALSE, content_length |-> FALSE]

Frame == [Request("OPTIONS", 0) EXCEPT !.line = "frame"]

\* Well-formed conversations: new, repeated and missing CSeqs, frames between.
GoodMessages ==
    {Request("SETUP", 1), Request("PLAY", 2), Frame,
     [Request("TEARDOWN", 3) EXCEPT !.session = "ours"],
     Request("OPTIONS", -1)}

\* What RTSP_handler refuses at one point or another.
BadMessages ==
    {[Request("OPTIONS", 1) EXCEPT !.line = l] :
        l \in {"malformed", "bad_version", "bad_method"}}
    \cup {[Request("OPTIONS", 1) EXCEPT !.headers = "malformed"],
          [Request("OPTIONS", 1) EXCEPT !.content_length = TRUE],
          [Request("PAUSE", 3) EXCEPT !.require = TRUE],
          [Request("PLAY", 2) EXCEPT !.path = FALSE]}

AllMessages == GoodMessages \cup BadMessages
=============================================================================
