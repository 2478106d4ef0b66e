------------------------------ MODULE MCClients ------------------------------
EXTENDS Clients, TLC

Udp == [protocol |-> "UDP", rtp_channel |-> 7, rtcp_channel |-> 8]
Tcp(rtp, rtcp) == [protocol |-> "TCP", rtp_channel |-> rtp, rtcp_channel |-> rtcp]
Sctp == [protocol |-> "SCTP", rtp_channel |-> NoChannel, rtcp_channel |-> NoChannel]

MCOfferLists == {<<Udp>>, <<Tcp(NoChannel, NoChannel)>>, <<Tcp(2, 3)>>, <<Udp, Udp>>,
                 <<Sctp>>, <<Udp, Tcp(4, 5)>>}

Symmetry == Permutations(Conns)
=============================================================================
