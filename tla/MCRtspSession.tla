---------------------------- MODULE MCRtspSession ----------------------------
(* Model checking of the RTSP session of one client. *)
EXTENDS RtspSession, TLC

\* Ranges from the start and from later, with an open end, an end within the resource, one
\* behind it, and one before the begin.
MCNptHeaders ==
    {[kind |-> "npt", begin |-> r[1], end |-> r[2]] :
        r \in {<<0, Unset>>, <<1, Unset>>, <<0, 1>>, <<1, Duration + 1>>, <<Duration, 1>>}}

\* The RTP sessions differ only in their names.
RtpSymmetry == Permutations(RtpSessions)
=============================================================================
