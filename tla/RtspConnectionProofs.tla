------------------------ MODULE RtspConnectionProofs ------------------------
(***************************************************************************)
(* Theorems about RtspConnection, for any set of messages, any buffer size   *)
(* and any number of messages and packets.                                   *)
(***************************************************************************)
EXTENDS RtspConnection, SequenceTheorems, TLAPS

(***************************************************************************)
(* Types and the output queue                                                *)
(***************************************************************************)

PieceOf(n) == [of : 1..n, part : Parts]

InTypes ==
    /\ sent \in Seq(Messages) /\ Len(sent) <= MaxMessages
    /\ wire \in Seq(PieceOf(Len(sent))) /\ input \in Seq(PieceOf(Len(sent)))
    /\ Len(input) <= BufferSize

RequestTypes ==
    /\ status \in {"Begin", "Headers", "Content", "Interleaved"}
    /\ pending \in 0..Len(sent) /\ headers \in Seq(Messages)
    /\ status = "Content" => pending # 0 /\ Len(headers) = 1
    /\ last_cseq \in Nat
    /\ session \in {"none", "idle", "playing"}
    /\ conn \in {"open", "closed", "crashed"}
    /\ handling \in BOOLEAN /\ overread \in BOOLEAN

\* The queue holds the items that were queued last, newest first, and what has been
\* delivered is older than all of them.
OutputInv ==
    /\ queued \in Seq(0..Len(sent))
    /\ out_queue \in Seq(1..Len(queued))
    /\ delivered \in 0..Len(queued) /\ writing \in BOOLEAN
    /\ \A i \in 1..Len(out_queue) : out_queue[i] > delivered
    /\ \A i, j \in 1..Len(out_queue) : i < j => out_queue[i] > out_queue[j]

BasicInv == InTypes /\ RequestTypes /\ OutputInv

LEMMA BasicTypes == BasicInv => TypeOK
BY DEF BasicInv, InTypes, RequestTypes, OutputInv, TypeOK, PieceOf

LEMMA PieceTypes ==
    ASSUME NEW i \in Nat \ {0}, NEW m
    PROVE  Pieces(i, m) \in Seq(PieceOf(i))
<1>1. CASE m.line = "frame"
  <2>1. Pieces(i, m) = [k \in 1..2 |-> [of |-> i, part |-> <<"head", "tail">>[k]]]
    BY <1>1 DEF Pieces
  <2> QED BY <2>1 DEF PieceOf, Parts
<1>2. CASE m.line # "frame" /\ m.line # "good"
  <2>1. Pieces(i, m) = [k \in 1..2 |-> [of |-> i, part |-> <<"start", "eol">>[k]]]
    BY <1>2 DEF Pieces
  <2> QED BY <2>1 DEF PieceOf, Parts
<1>3. CASE m.line = "good" /\ m.cseq < 0
  <2>1. Pieces(i, m) = [k \in 1..3 |-> [of |-> i, part |-> <<"start", "eol", "blank">>[k]]]
    BY <1>3 DEF Pieces
  <2> QED BY <2>1 DEF PieceOf, Parts
<1>4. CASE m.line = "good" /\ ~(m.cseq < 0)
  <2>1. Pieces(i, m) =
            [k \in 1..4 |-> [of |-> i, part |-> <<"start", "eol", "fields", "blank">>[k]]]
    BY <1>4 DEF Pieces
  <2> QED BY <2>1 DEF PieceOf, Parts
<1> QED BY <1>1, <1>2, <1>3, <1>4

LEMMA ConsumedTypes ==
    ASSUME InTypes, NEW n \in Nat
    PROVE  /\ Consumed(n) \in Seq(PieceOf(Len(sent)))
           /\ Len(Consumed(n)) <= Len(input)
<1>1. input \in Seq(PieceOf(Len(sent))) /\ Len(input) \in Nat
  BY LenProperties DEF InTypes
<1>2. \A i \in n + 1 .. Len(input) : input[i] \in PieceOf(Len(sent))
  BY <1>1, ElementOfSeq
<1> QED BY <1>1, <1>2, SubSeqProperties DEF Consumed

LEMMA InputTypes ==
    ASSUME InTypes, UNCHANGED <<sent, wire>>, input' \in {input, Consumed(1), Consumed(2)}
    PROVE  InTypes'
<1>1. input' \in Seq(PieceOf(Len(sent))) /\ Len(input') <= Len(input)
  <2>1. Len(input) \in Nat
    BY LenProperties DEF InTypes
  <2>2. CASE input' = input
    BY <2>1, <2>2 DEF InTypes
  <2> QED BY <2>2, ConsumedTypes
<1>2. Len(input') \in Nat /\ Len(input) \in Nat
  BY <1>1, LenProperties DEF InTypes
<1>3. Len(input') <= BufferSize
  BY <1>1, <1>2, ConnectionAssumption DEF InTypes
<1> QED BY <1>1, <1>3 DEF InTypes

\* rtsp_write_data_queue keeps the order of the queue.
LEMMA QueueItem ==
    ASSUME OutputInv, NEW item \in 0..Len(sent), rtsp_write_data_queue(item), sent' = sent
    PROVE  OutputInv' /\ delivered' = delivered
<1>1. queued \in Seq(0..Len(sent)) /\ out_queue \in Seq(1..Len(queued))
      /\ Len(queued) \in Nat /\ Len(out_queue) \in Nat
  BY LenProperties DEF OutputInv
<1>2. queued' = Append(queued, item) /\ writing' = TRUE /\ delivered' = delivered
      /\ out_queue' = <<Len(queued) + 1>> \o out_queue
  BY DEF rtsp_write_data_queue
<1>3. queued' \in Seq(0..Len(sent)) /\ Len(queued') = Len(queued) + 1
  BY <1>1, <1>2, AppendProperties
<1>4. out_queue \in Seq(1..(Len(queued) + 1)) /\ <<Len(queued) + 1>> \in Seq(1..(Len(queued) + 1))
  BY <1>1, SeqMonotonic
<1>5. /\ out_queue' \in Seq(1..(Len(queued) + 1)) /\ Len(out_queue') = Len(out_queue) + 1
      /\ \A i \in 1..(Len(out_queue) + 1) :
            out_queue'[i] = IF i = 1 THEN Len(queued) + 1 ELSE out_queue[i - 1]
  BY <1>1, <1>2, <1>4, ConcatProperties
<1>6. \A i \in 1..Len(out_queue) : out_queue[i] \in 1..Len(queued)
  BY <1>1, ElementOfSeq
<1>7. delivered' \in 0..Len(queued') /\ \A i \in 1..Len(out_queue') : out_queue'[i] > delivered'
  BY <1>1, <1>2, <1>3, <1>5, <1>6 DEF OutputInv
<1>8. \A i, j \in 1..Len(out_queue') : i < j => out_queue'[i] > out_queue'[j]
  <2> SUFFICES ASSUME NEW i \in 1..(Len(out_queue) + 1), NEW j \in 1..(Len(out_queue) + 1), i < j
               PROVE  out_queue'[i] > out_queue'[j]
    BY <1>5
  <2>1. j - 1 \in 1..Len(out_queue) /\ out_queue'[j] = out_queue[j - 1]
    BY <1>1, <1>5
  <2>2. CASE i = 1
    <3>1. out_queue'[i] = Len(queued) + 1
      BY <1>5, <2>2
    <3>2. out_queue[j - 1] \in 1..Len(queued)
      BY <1>6, <2>1
    <3>3. Len(queued) \in Nat
      BY <1>1
    <3>4. Len(queued) + 1 > out_queue[j - 1]
      BY <3>2, <3>3
    <3> QED BY <2>1, <3>1, <3>4
  <2>3. CASE i # 1
    <3>1. i - 1 \in 1..Len(out_queue) /\ out_queue'[i] = out_queue[i - 1] /\ i - 1 < j - 1
      BY <1>1, <1>5, <2>3
    <3> QED BY <2>1, <3>1 DEF OutputInv
  <2> QED BY <2>2, <2>3
<1> QED BY <1>2, <1>3, <1>5, <1>7, <1>8 DEF OutputInv

\* rtsp_tcp_write_cb takes the oldest item, delivered or not.
LEMMA WriteItem ==
    ASSUME OutputInv, rtsp_tcp_write_cb
    PROVE  OutputInv' /\ delivered' >= delivered
<1>1. queued \in Seq(0..Len(sent)) /\ out_queue \in Seq(1..Len(queued))
  BY DEF OutputInv
<1>2. Len(queued) \in Nat /\ Len(out_queue) \in Nat /\ delivered \in 0..Len(queued)
  BY <1>1, LenProperties DEF OutputInv
<1>3. sent' = sent /\ queued' = queued
  BY DEF rtsp_tcp_write_cb, inVars
<1>4. CASE out_queue = <<>>
  <2>1. out_queue' = out_queue /\ delivered' = delivered /\ writing' = FALSE
    BY <1>4 DEF rtsp_tcp_write_cb
  <2>2. writing' \in BOOLEAN
    BY <2>1
  <2>3. delivered' >= delivered
    BY <1>2, <2>1
  <2> QED BY <1>3, <2>1, <2>2, <2>3 DEF OutputInv
<1>5. CASE out_queue # <<>>
  <2>1. /\ out_queue' = SubSeq(out_queue, 1, Len(out_queue) - 1) /\ writing' = writing
        /\ delivered' \in {delivered, out_queue[Len(out_queue)]}
    BY <1>5 DEF rtsp_tcp_write_cb, Front, Last
  <2>2. Len(out_queue) \in Nat \ {0}
    BY <1>1, <1>5, EmptySeq
  <2>3. PICK last \in Nat : last = Len(out_queue) - 1
    BY <2>2
  <2>4. \A i \in 1..Len(out_queue) : out_queue[i] \in 1..Len(queued)
    BY <1>1, ElementOfSeq
  <2>5. \A i \in 1..last : i \in 1..Len(out_queue) /\ i < Len(out_queue)
    BY <2>2, <2>3
  <2>6. /\ out_queue' \in Seq(1..Len(queued)) /\ Len(out_queue') = last
        /\ \A i \in 1..last : out_queue'[i] = out_queue[i]
    <3>1. \A i \in 1..last : out_queue[i] \in 1..Len(queued)
      BY <2>4, <2>5
    <3>2. out_queue' = SubSeq(out_queue, 1, last)
      BY <2>1, <2>3
    <3> QED BY <2>3, <3>1, <3>2, SubSeqProperties
  <2>7. \A i, j \in 1..Len(out_queue) : i < j => out_queue[i] > out_queue[j]
    BY DEF OutputInv
  <2>8. \A i \in 1..Len(out_queue) : out_queue[i] > delivered
    BY DEF OutputInv
  <2>9. Len(out_queue) \in 1..Len(out_queue)
    BY <2>2
  <2>10. /\ delivered' \in 0..Len(queued) /\ delivered' >= delivered
         /\ \A i \in 1..last : out_queue[i] > delivered'
    <3>1. CASE delivered' = delivered
      BY <1>2, <2>5, <2>8, <3>1
    <3>2. CASE delivered' = out_queue[Len(out_queue)]
      <4>1. delivered' \in 1..Len(queued) /\ delivered' > delivered
        BY <2>4, <2>8, <2>9, <3>2
      <4>2. \A i \in 1..last : out_queue[i] > delivered'
        BY <2>5, <2>7, <2>9, <3>2
      <4> QED BY <1>2, <4>1, <4>2
    <3> QED BY <2>1, <3>1, <3>2
  <2>11. \A i \in 1..Len(out_queue') : out_queue'[i] > delivered'
    BY <2>6, <2>10
  <2>12. \A i, j \in 1..Len(out_queue') : i < j => out_queue'[i] > out_queue'[j]
    BY <2>5, <2>6, <2>7
  <2>13. writing' \in BOOLEAN
    BY <2>1 DEF OutputInv
  <2> QED BY <1>3, <2>6, <2>10, <2>11, <2>12, <2>13 DEF OutputInv
<1> QED BY <1>4, <1>5

LEMMA FreedTypes ==
    ASSUME NEW how \in {"closed", "crashed"}, rtsp_client_free(how)
    PROVE  BasicInv' /\ conn' # "open"
<1>1. /\ sent' = <<>> /\ wire' = <<>> /\ input' = <<>> /\ headers' = <<>>
      /\ queued' = <<>> /\ out_queue' = <<>> /\ status' = "Begin" /\ pending' = 0
      /\ last_cseq' = 0 /\ session' = "none" /\ overread' = FALSE /\ handling' = FALSE
      /\ writing' = FALSE /\ delivered' = 0 /\ conn' = how
  BY DEF rtsp_client_free
<1>2. \A S : <<>> \in Seq(S) /\ Len(<<>>) = 0
  BY EmptySeq
<1>3. InTypes'
  BY <1>1, <1>2, ConnectionAssumption DEF InTypes
<1>4. RequestTypes'
  <2>1. pending' \in 0..Len(sent') /\ headers' \in Seq(Messages)
    BY <1>1, <1>2
  <2> QED BY <1>1, <2>1 DEF RequestTypes
<1>5. OutputInv'
  <2>1. Len(queued') = 0 /\ Len(out_queue') = 0
    BY <1>1, <1>2
  <2>2. queued' \in Seq(0..Len(sent')) /\ out_queue' \in Seq(1..Len(queued'))
    BY <1>1, <1>2
  <2>3. delivered' \in 0..Len(queued')
    BY <1>1, <2>1
  <2>4. writing' \in BOOLEAN
    BY <1>1
  <2> QED BY <2>1, <2>2, <2>3, <2>4 DEF OutputInv
<1> QED BY <1>1, <1>3, <1>4, <1>5 DEF BasicInv

LEMMA BasicInit == Init => BasicInv
<1> SUFFICES ASSUME Init PROVE BasicInv
  OBVIOUS
<1>1. \A S : <<>> \in Seq(S) /\ Len(<<>>) = 0
  BY EmptySeq
<1>2. InTypes
  BY <1>1, ConnectionAssumption DEF Init, InTypes
<1>3. RequestTypes
  <2>1. pending \in 0..Len(sent) /\ headers \in Seq(Messages)
    BY <1>1 DEF Init
  <2> QED BY <2>1 DEF Init, RequestTypes
<1>4. OutputInv
  <2>1. Len(queued) = 0 /\ Len(out_queue) = 0
    BY <1>1 DEF Init
  <2>2. queued \in Seq(0..Len(sent)) /\ out_queue \in Seq(1..Len(queued))
    BY <1>1 DEF Init
  <2>3. delivered \in 0..Len(queued)
    BY <2>1 DEF Init
  <2>4. writing \in BOOLEAN
    BY DEF Init
  <2> QED BY <2>1, <2>2, <2>3, <2>4 DEF OutputInv
<1> QED BY <1>2, <1>3, <1>4 DEF BasicInv

\* The client writes a message.
LEMMA SendBasic ==
    ASSUME BasicInv, NEW m \in Messages, ClientSends(m)
    PROVE  BasicInv' /\ delivered' = delivered
<1>1. /\ sent' = Append(sent, m) /\ wire' = wire \o Pieces(Len(sent) + 1, m)
      /\ Len(sent) < MaxMessages
      /\ UNCHANGED <<input, status, pending, headers, last_cseq, session, overread, handling, conn,
                     queued, out_queue, writing, delivered>>
  BY DEF ClientSends, parseVars, outVars
<1>2. sent \in Seq(Messages) /\ Len(sent) \in Nat
  BY LenProperties DEF BasicInv, InTypes
<1>3. sent' \in Seq(Messages) /\ Len(sent') = Len(sent) + 1 /\ Len(sent') <= MaxMessages
  BY <1>1, <1>2, AppendProperties, ConnectionAssumption
<1>4. PieceOf(Len(sent)) \subseteq PieceOf(Len(sent'))
  BY <1>2, <1>3 DEF PieceOf
<1>5. wire \in Seq(PieceOf(Len(sent'))) /\ input' \in Seq(PieceOf(Len(sent')))
  BY <1>1, <1>4, SeqMonotonic DEF BasicInv, InTypes
<1>6. Pieces(Len(sent) + 1, m) \in Seq(PieceOf(Len(sent')))
  BY <1>2, <1>3, PieceTypes
<1>7. InTypes'
  BY <1>1, <1>3, <1>5, <1>6, ConcatProperties DEF BasicInv, InTypes
<1>8. RequestTypes'
  <2>1. pending' \in 0..Len(sent')
    BY <1>1, <1>2, <1>3 DEF BasicInv, RequestTypes
  <2> QED BY <1>1, <2>1 DEF BasicInv, RequestTypes
<1>9. OutputInv'
  <2>1. 0..Len(sent) \subseteq 0..Len(sent')
    BY <1>2, <1>3
  <2>2. queued' \in Seq(0..Len(sent'))
    BY <1>1, <2>1, SeqMonotonic DEF BasicInv, OutputInv
  <2> QED BY <1>1, <2>2 DEF BasicInv, OutputInv
<1> QED BY <1>1, <1>7, <1>8, <1>9 DEF BasicInv

\* recv returned n pieces.
LEMMA ReadBasic ==
    ASSUME BasicInv, NEW n \in Nat, rtsp_tcp_read_cb(n)
    PROVE  BasicInv' /\ (conn' = "open" => delivered' = delivered)
<1>1. CASE rtsp_client_free("closed")
  BY <1>1, FreedTypes
<1>2. CASE ~rtsp_client_free("closed")
  <2>1. /\ n \in 1..Len(wire) /\ Len(input) + n <= BufferSize
        /\ wire' = SubSeq(wire, n + 1, Len(wire))
        /\ input' = input \o SubSeq(wire, 1, n) /\ handling' = TRUE
        /\ UNCHANGED <<sent, status, pending, headers, last_cseq, session, overread, conn,
                       queued, out_queue, writing, delivered>>
    BY <1>2 DEF rtsp_tcp_read_cb, outVars
  <2>2. /\ wire \in Seq(PieceOf(Len(sent))) /\ input \in Seq(PieceOf(Len(sent)))
        /\ Len(wire) \in Nat /\ Len(input) \in Nat
    BY LenProperties DEF BasicInv, InTypes
  <2>3. \A i \in 1..Len(wire) : wire[i] \in PieceOf(Len(sent))
    BY <2>2, ElementOfSeq
  <2>4. wire' \in Seq(PieceOf(Len(sent)))
    BY <2>1, <2>2, <2>3, SubSeqProperties
  <2>5. SubSeq(wire, 1, n) \in Seq(PieceOf(Len(sent))) /\ Len(SubSeq(wire, 1, n)) = n
    BY <2>1, <2>2, <2>3, SubSeqProperties
  <2>6. input' \in Seq(PieceOf(Len(sent))) /\ Len(input') = Len(input) + n
    BY <2>1, <2>2, <2>5, ConcatProperties
  <2>7. InTypes'
    BY <2>1, <2>4, <2>6 DEF BasicInv, InTypes
  <2>8. RequestTypes'
    BY <2>1 DEF BasicInv, RequestTypes
  <2>9. OutputInv'
    BY <2>1 DEF BasicInv, OutputInv
  <2> QED BY <2>1, <2>7, <2>8, <2>9 DEF BasicInv
<1> QED BY <1>1, <1>2

\* What the next piece of the input says.
LEMMA HeadPiece ==
    ASSUME InTypes, input # <<>>
    PROVE  Head(input).of \in 1..Len(sent) /\ Head(input) = input[1] /\ Len(input) \in Nat \ {0}
<1>1. input \in Seq(PieceOf(Len(sent)))
  BY DEF InTypes
<1>2. Len(input) \in Nat \ {0}
  BY <1>1, EmptySeq
<1>3. Head(input) = input[1]
  OBVIOUS
<1>4. input[1] \in PieceOf(Len(sent))
  BY <1>1, <1>2, ElementOfSeq
<1> QED BY <1>2, <1>3, <1>4 DEF PieceOf

\* An answer goes into the queue, or nothing does.
LEMMA OutputKept ==
    ASSUME OutputInv, sent' = sent, UNCHANGED outVars
    PROVE  OutputInv' /\ delivered' = delivered
BY DEF OutputInv, outVars

\* RTSP_handle_new.
LEMMA NewBasic ==
    ASSUME BasicInv, RTSP_handle_new
    PROVE  BasicInv' /\ delivered' = delivered
<1>1. /\ input # <<>> /\ InHandler("Begin")
      /\ UNCHANGED <<sent, wire, last_cseq, session, conn>>
  BY DEF RTSP_handle_new, inVars
<1>2. Head(input).of \in 1..Len(sent)
  BY <1>1, HeadPiece DEF BasicInv
<1>3. PICK res \in ragel_parse_request_line :
          /\ overread' = (overread \/ ragel_parse_request_line = Guess)
          /\ \/ res = "bad" /\ RefuseLine /\ UNCHANGED status
             \/ /\ res = "more" /\ Return
                /\ UNCHANGED <<input, status, pending, headers, outVars>>
             \/ res = "complete" /\ AcceptLine(sent[Head(input).of].line)
             \/ /\ res = "beyond"
                /\ status' = "Headers" /\ pending' = Head(input).of
                /\ headers' = <<>>
                /\ UNCHANGED <<input, handling, outVars>>
  BY DEF RTSP_handle_new
<1>4. overread' \in BOOLEAN
  BY <1>3
<1>5. /\ input' \in {input, Consumed(2)} /\ status' \in {"Begin", "Headers"}
      /\ pending' \in {pending, Head(input).of} /\ headers' \in {headers, <<>>}
      /\ handling' \in {handling, FALSE}
  BY <1>1, <1>3 DEF RefuseLine, AcceptLine, Return, InHandler
<1>6. InTypes'
  BY <1>1, <1>5, InputTypes DEF BasicInv
<1>7. RequestTypes'
  <2>1. headers' \in Seq(Messages)
    BY <1>5, EmptySeq DEF BasicInv, RequestTypes
  <2>2. pending' \in 0..Len(sent')
    BY <1>1, <1>2, <1>5 DEF BasicInv, RequestTypes
  <2> QED BY <1>1, <1>4, <1>5, <2>1, <2>2 DEF BasicInv, RequestTypes
<1>8. UNCHANGED outVars \/ rtsp_write_data_queue(Head(input).of)
  BY <1>3 DEF RefuseLine, AcceptLine
<1>9. OutputInv' /\ delivered' = delivered
  BY <1>1, <1>2, <1>8, QueueItem, OutputKept DEF BasicInv
<1> QED BY <1>6, <1>7, <1>9 DEF BasicInv

\* RTSP_handle_headers.
LEMMA HeadersBasic ==
    ASSUME BasicInv, RTSP_handle_headers
    PROVE  BasicInv' /\ delivered' = delivered
<1>1. /\ InHandler("Headers") /\ pending # 0
      /\ UNCHANGED <<sent, wire, pending, last_cseq, session, conn>>
  BY DEF RTSP_handle_headers, inVars
<1>2. pending \in 0..Len(sent) /\ sent \in Seq(Messages) /\ Len(sent) \in Nat
  BY LenProperties DEF BasicInv, InTypes, RequestTypes
<1>3. PICK res \in ragel_read_rtsp_headers :
          /\ overread' = (overread \/ ragel_read_rtsp_headers = Guess)
          /\ \/ /\ res = "bad"
                /\ rtsp_write_data_queue(pending) /\ Return
                /\ UNCHANGED <<input, status, headers>>
             \/ /\ res = "more"
                /\ input' = IF input = <<>> THEN <<>> ELSE Consumed(1)
                /\ Return
                /\ UNCHANGED <<status, headers, outVars>>
             \/ /\ res = "complete"
                /\ HeadersDone(Consumed(IF HeadIn({"fields"}) THEN 2 ELSE 1), sent[pending])
             \/ /\ res = "beyond"
                /\ \E m \in Messages : m.line = "good" /\ HeadersDone(input, m)
  BY DEF RTSP_handle_headers
<1>4. overread' \in BOOLEAN
  BY <1>3
<1>5. sent[pending] \in Messages
  BY <1>1, <1>2, ElementOfSeq
<1>6. /\ input' \in {input, Consumed(1), Consumed(2)} /\ handling' \in {handling, FALSE}
      /\ \/ status' = status /\ headers' = headers
         \/ status' = "Content" /\ \E m \in Messages : headers' = <<m>>
  BY <1>3, <1>5 DEF HeadersDone, Return
<1>7. InTypes'
  BY <1>1, <1>6, InputTypes DEF BasicInv
<1>8. RequestTypes'
  <2>1. headers' \in Seq(Messages) /\ (status' = "Content" => Len(headers') = 1)
    <3>1. CASE status' = status /\ headers' = headers
      BY <1>1, <3>1 DEF BasicInv, RequestTypes, InHandler
    <3>2. ASSUME NEW m \in Messages, headers' = <<m>> PROVE headers' \in Seq(Messages) /\ Len(headers') = 1
      BY <3>2
    <3> QED BY <1>6, <3>1, <3>2
  <2> QED BY <1>1, <1>4, <1>6, <2>1 DEF BasicInv, RequestTypes
<1>9. UNCHANGED outVars \/ rtsp_write_data_queue(pending)
  BY <1>3 DEF HeadersDone
<1>10. OutputInv' /\ delivered' = delivered
  BY <1>1, <1>2, <1>9, QueueItem, OutputKept DEF BasicInv
<1> QED BY <1>7, <1>8, <1>10 DEF BasicInv

\* RTSP_handle_content.
LEMMA ContentBasic ==
    ASSUME BasicInv, RTSP_handle_content
    PROVE  BasicInv' /\ delivered' = delivered
<1>1. /\ InHandler("Content") /\ rtsp_handle_request(Head(headers)) /\ pending' = 0
      /\ headers' = <<>> /\ status' = "Begin"
      /\ UNCHANGED <<sent, wire, input, handling, overread, conn>>
  BY DEF RTSP_handle_content, inVars
<1>2. Head(headers) \in Messages
  <2>1. headers \in Seq(Messages) /\ Len(headers) = 1
    BY <1>1 DEF BasicInv, RequestTypes, InHandler
  <2>2. headers # <<>>
    BY <2>1, EmptySeq
  <2> QED BY <2>1, <2>2, HeadTailProperties
<1>3. Head(headers).cseq \in Int
  BY <1>2, ConnectionAssumption DEF Message
<1>4. last_cseq' \in Nat
  BY <1>1, <1>3 DEF rtsp_handle_request, BasicInv, RequestTypes
<1>5. session' \in {"none", "idle", "playing"}
  BY <1>1 DEF rtsp_handle_request, MethodResults, BasicInv, RequestTypes
<1>6. UNCHANGED outVars \/ rtsp_write_data_queue(pending)
  BY <1>1 DEF rtsp_handle_request
<1>7. InTypes'
  BY <1>1 DEF BasicInv, InTypes
<1>8. RequestTypes'
  <2>1. headers' \in Seq(Messages) /\ pending' \in 0..Len(sent')
    BY <1>1, EmptySeq, LenProperties DEF BasicInv, InTypes
  <2> QED BY <1>1, <1>4, <1>5, <2>1 DEF BasicInv, RequestTypes
<1>9. OutputInv' /\ delivered' = delivered
  BY <1>1, <1>6, QueueItem, OutputKept DEF BasicInv, RequestTypes
<1> QED BY <1>7, <1>8, <1>9 DEF BasicInv

\* RTSP_handle_new with nothing to read, and RTSP_handle_interleaved.
LEMMA FrameBasic ==
    ASSUME BasicInv, RTSP_handle_new_empty \/ RTSP_handle_interleaved
    PROVE  BasicInv' /\ delivered' = delivered
<1>1. /\ UNCHANGED <<sent, wire, pending, headers, last_cseq, session, overread, conn, outVars>>
      /\ input' \in {input, Consumed(2)} /\ status' \in {status, "Begin", "Interleaved"}
      /\ handling' \in {handling, FALSE}
  BY DEF RTSP_handle_new_empty, RTSP_handle_interleaved, inVars, Return, Stays
<1>2. InTypes'
  BY <1>1, InputTypes DEF BasicInv
<1>3. RequestTypes'
  BY <1>1 DEF BasicInv, RequestTypes
<1>4. OutputInv' /\ delivered' = delivered
  BY <1>1, OutputKept DEF BasicInv
<1> QED BY <1>2, <1>3, <1>4 DEF BasicInv

\* Every step keeps the types and the order of the queue, and delivers nothing older
\* than what has been delivered.
LEMMA BasicStep ==
    ASSUME BasicInv, [Next]_vars
    PROVE  BasicInv' /\ (conn' = "open" => delivered' >= delivered)
<1>0. delivered >= delivered
  BY DEF BasicInv, OutputInv
<1>1. ASSUME NEW m \in Messages, ClientSends(m) PROVE BasicInv' /\ delivered' = delivered
  BY <1>1, SendBasic
<1>2. ASSUME NEW n \in 1..BufferSize + 1, rtsp_tcp_read_cb(n)
      PROVE  BasicInv' /\ (conn' = "open" => delivered' = delivered)
  <2>1. n \in Nat
    BY ConnectionAssumption
  <2> QED BY <1>2, <2>1, ReadBasic
<1>3. CASE \/ ClientCloses \/ RTSP_handle_headers_null \/ RTSP_handle_content_body
           \/ RTSP_handle_content_null
  BY <1>3, FreedTypes DEF ClientCloses, RTSP_handle_headers_null, RTSP_handle_content_body,
         RTSP_handle_content_null
<1>4. CASE rtsp_tcp_write_cb
  <2>1. OutputInv' /\ delivered' >= delivered
    BY <1>4, WriteItem DEF BasicInv
  <2>2. InTypes' /\ RequestTypes'
    BY <1>4 DEF rtsp_tcp_write_cb, BasicInv, InTypes, RequestTypes, inVars, parseVars
  <2> QED BY <2>1, <2>2 DEF BasicInv
<1>5. CASE rtp_interleaved_send_pkt
  <2>1. rtsp_write_data_queue(0) /\ UNCHANGED <<inVars, parseVars, handling, conn>>
    BY <1>5 DEF rtp_interleaved_send_pkt
  <2>2. 0 \in 0..Len(sent)
    BY LenProperties DEF BasicInv, InTypes
  <2>3. OutputInv' /\ delivered' = delivered
    BY <2>1, <2>2, QueueItem DEF BasicInv, inVars
  <2>4. InTypes' /\ RequestTypes'
    BY <2>1 DEF BasicInv, InTypes, RequestTypes, inVars, parseVars
  <2> QED BY <1>0, <2>3, <2>4 DEF BasicInv
<1>6. CASE RTSP_handler
  BY <1>0, <1>3, <1>6, FrameBasic, NewBasic, HeadersBasic, ContentBasic DEF RTSP_handler
<1>7. CASE UNCHANGED vars
  <2>1. OutputInv' /\ delivered' = delivered
    BY <1>7, OutputKept DEF vars, inVars, BasicInv
  <2>2. InTypes' /\ RequestTypes'
    BY <1>7 DEF vars, inVars, parseVars, BasicInv, InTypes, RequestTypes
  <2> QED BY <1>0, <2>1, <2>2 DEF BasicInv
<1> QED BY <1>0, <1>1, <1>2, <1>3, <1>4, <1>5, <1>6, <1>7 DEF Next

\* Types, and the order of the output queue.
THEOREM BasicSafe == Spec => []BasicInv
<1>1. BasicInv /\ [Next]_vars => BasicInv'
  BY BasicStep
<1> QED BY <1>1, BasicInit, PTL DEF Spec

\* The variables keep the types of RTSP_Client, whatever the client sends and wherever
\* its messages are cut; a request past its headers has them (rtsp_state_machine.c:135-376).
THEOREM ConnectionTypeCorrect == Spec => []TypeOK
<1> QED BY BasicSafe, BasicTypes, PTL

\* Replies and media packets leave in the order in which they were queued, although items
\* are lost when the socket is full (rtsp_lowlevel.c:282-357).
THEOREM DeliveredInOrderSafe == Spec => DeliveredInOrder
<1>1. BasicInv /\ [Next]_vars => [conn' = "open" => delivered' >= delivered]_vars
  BY BasicStep
<1> QED BY <1>1, BasicSafe, PTL DEF Spec, DeliveredInOrder

(***************************************************************************)
(* The conversation                                                          *)
(***************************************************************************)

\* The stream: what was read and not yet consumed, then what is still on the wire.
Left == Len(input) + Len(wire)
At(k) == IF k <= Len(input) THEN input[k] ELSE wire[k - Len(input)]

\* How the pieces of a well-formed message follow each other.
FirstPart(m) == IF m.line = "frame" THEN "head" ELSE "start"
AfterLine(m) == IF m.cseq < 0 THEN "blank" ELSE "fields"
EndParts == {"blank", "tail"}
Within(m, part) ==
    IF part = "start" THEN "eol" ELSE
    IF part = "eol" THEN AfterLine(m) ELSE
    IF part = "fields" THEN "blank" ELSE "tail"

Follows(p, q) ==
    IF p.part \in EndParts
    THEN q.of = p.of + 1 /\ q.part = FirstPart(sent[q.of])
    ELSE q.of = p.of /\ q.part = Within(sent[p.of], p.part)

\* The stream is a suffix of the messages sent.
StreamInv ==
    /\ \A k \in 1..(Left - 1) : Follows(At(k), At(k + 1))
    /\ \A k, l \in 1..Left : k <= l => At(k).of <= At(l).of
    /\ Left > 0 => At(Left).of = Len(sent) /\ At(Left).part \in EndParts

\* The stream begins after message n.
Boundary(n) ==
    IF Left = 0 THEN n = Len(sent)
    ELSE At(1).of = n + 1 /\ At(1).part = FirstPart(sent[n + 1])

\* Where RTSP_handler stands when it is done with n messages.
Progress(n) ==
    /\ status \in {"Begin", "Interleaved"} => Boundary(n)
    /\ status = "Interleaved" => input # <<>> /\ At(1).part = "head"
    /\ status = "Headers" =>
          /\ pending = n + 1 /\ Left > 0
          /\ At(1).of = pending /\ At(1).part = AfterLine(sent[pending])
    /\ status = "Content" =>
          /\ pending = n + 1 /\ Boundary(n + 1) /\ headers = <<sent[pending]>>
    /\ status \in {"Headers", "Content"} => sent[pending].line # "frame"
    /\ ~handling =>
          \/ status = "Begin" /\ input = <<>>
          \/ status = "Interleaved" /\ Len(input) = 1

\* The answers to the first n messages, and the CSeq the client is remembered by.
Replied(n) ==
    /\ \A i \in 1..n : Answered(i) <=> Due(i)
    /\ \A k \in 1..Len(queued) : queued[k] \in 0..n
    /\ \A j, k \in 1..Len(queued) :
          j < k /\ queued[j] # 0 /\ queued[k] # 0 => queued[j] < queued[k]
    /\ \A i \in 1..n : sent[i].line # "frame" => sent[i].cseq <= last_cseq
    /\ \/ last_cseq = 0
       \/ \E i \in 1..n : sent[i].line # "frame" /\ sent[i].cseq = last_cseq

\* The client keeps to the grammar and no parser was called with half a message.
Orderly ==
    /\ conn = "open" /\ ~overread
    /\ \A i \in 1..Len(sent) : WellFormed(sent[i])

ConversationInv ==
    Orderly => /\ StreamInv
               /\ \E n \in 0..Len(sent) : Progress(n) /\ Replied(n)

LEMMA StreamTypes ==
    ASSUME BasicInv
    PROVE  /\ Len(input) \in Nat /\ Len(wire) \in Nat /\ Left \in Nat /\ Len(sent) \in Nat
           /\ \A k \in 1..Len(input) : input[k] \in PieceOf(Len(sent))
           /\ \A k \in 1..Len(wire) : wire[k] \in PieceOf(Len(sent))
           /\ \A k \in 1..Left : At(k).of \in 1..Len(sent)
<1>1. /\ wire \in Seq(PieceOf(Len(sent))) /\ input \in Seq(PieceOf(Len(sent)))
      /\ sent \in Seq(Messages)
  BY DEF BasicInv, InTypes
<1>2. Len(input) \in Nat /\ Len(wire) \in Nat /\ Len(sent) \in Nat
  BY <1>1, LenProperties
<1>3. Left \in Nat
  BY <1>2 DEF Left
<1>4. \A k \in 1..Len(input) : input[k] \in PieceOf(Len(sent))
  BY <1>1, ElementOfSeq
<1>5. \A k \in 1..Len(wire) : wire[k] \in PieceOf(Len(sent))
  BY <1>1, ElementOfSeq
<1>6. ASSUME NEW k \in 1..Left PROVE At(k) \in PieceOf(Len(sent))
  <2>1. CASE k <= Len(input)
    BY <1>2, <1>4, <2>1 DEF At
  <2>2. CASE ~(k <= Len(input))
    <3>1. k - Len(input) \in 1..Len(wire)
      BY <1>2, <2>2 DEF Left
    <3> QED BY <1>5, <2>2, <3>1 DEF At
  <2> QED BY <2>1, <2>2
<1>7. \A k \in 1..Left : At(k).of \in 1..Len(sent)
  BY <1>6 DEF PieceOf
<1> QED BY <1>2, <1>3, <1>4, <1>5, <1>7

\* Whatever is taken from the front, the rest of the stream is the same suffix.
LEMMA StreamRest ==
    ASSUME BasicInv, StreamInv, NEW n \in Nat, n <= Left, sent' = sent, Left' = Left - n,
           \A k \in 1..(Left - n) : At(k)' = At(k + n)
    PROVE  StreamInv'
<1>1. Left \in Nat
  BY StreamTypes
<1>2. ASSUME NEW k \in 1..(Left' - 1) PROVE Follows(At(k), At(k + 1))'
  <2>1. k + n \in 1..(Left - 1) /\ k \in 1..(Left - n) /\ k + 1 \in 1..(Left - n)
        /\ (k + 1) + n = (k + n) + 1
    BY <1>1
  <2>2. Follows(At(k + n), At((k + n) + 1))
    BY <2>1 DEF StreamInv
  <2>3. At(k)' = At(k + n) /\ At(k + 1)' = At((k + n) + 1)
    BY <2>1
  <2> QED BY <2>2, <2>3 DEF Follows
<1>3. ASSUME NEW k \in 1..Left', NEW l \in 1..Left', k <= l PROVE At(k)'.of <= At(l)'.of
  <2>1. k + n \in 1..Left /\ l + n \in 1..Left /\ k + n <= l + n
        /\ k \in 1..(Left - n) /\ l \in 1..(Left - n)
    BY <1>1, <1>3
  <2>2. At(k)' = At(k + n) /\ At(l)' = At(l + n)
    BY <2>1
  <2> QED BY <2>1, <2>2 DEF StreamInv
<1>4. ASSUME Left' > 0 PROVE At(Left)'.of = Len(sent') /\ At(Left)'.part \in EndParts
  <2>1. Left' \in 1..(Left - n) /\ Left' + n = Left /\ Left > 0
    BY <1>1, <1>4
  <2>2. At(Left)' = At(Left)
    <3>1. PICK k \in 1..(Left - n) : k = Left'
      BY <2>1
    <3>2. At(Left)' = At(k)'
      BY <3>1 DEF At
    <3>3. At(k)' = At(Left)
      BY <2>1, <3>1
    <3> QED BY <3>2, <3>3
  <2> QED BY <2>1, <2>2 DEF StreamInv
<1> QED BY <1>2, <1>3, <1>4 DEF StreamInv

\* A handler takes n pieces from the input.
LEMMA TakePieces ==
    ASSUME BasicInv, NEW n \in Nat, n <= Len(input), input' = Consumed(n), wire' = wire
    PROVE  /\ n <= Left /\ Left' = Left - n /\ Len(input') = Len(input) - n
           /\ \A k \in 1..(Left - n) : At(k)' = At(k + n)
<1>1. Len(input) \in Nat /\ Len(wire) \in Nat
      /\ \A k \in 1..Len(input) : input[k] \in PieceOf(Len(sent))
  BY StreamTypes
<1>2. /\ Len(input') = Len(input) - n
      /\ \A k \in 1..(Len(input) - n) : input'[k] = input[k + n]
  <2>1. input' = SubSeq(input, n + 1, Len(input))
    BY DEF Consumed
  <2>2. \A i \in n + 1 .. Len(input) : input[i] \in PieceOf(Len(sent))
    BY <1>1
  <2> QED BY <1>1, <2>1, <2>2, SubSeqProperties
<1>3. n <= Left /\ Left' = Left - n
  BY <1>1, <1>2 DEF Left
<1>4. ASSUME NEW k \in 1..(Left - n) PROVE At(k)' = At(k + n)
  <2>1. k \in Nat /\ k >= 1 /\ Left = Len(input) + Len(wire)
    BY <1>1 DEF Left
  <2>2. CASE k <= Len(input) - n
    <3>1. k <= Len(input') /\ k + n <= Len(input) /\ k \in 1..(Len(input) - n)
      BY <1>1, <1>2, <2>1, <2>2
    <3> QED BY <1>2, <3>1 DEF At
  <2>3. CASE ~(k <= Len(input) - n)
    <3>1. ~(k <= Len(input')) /\ ~(k + n <= Len(input)) /\ k - Len(input') = (k + n) - Len(input)
      BY <1>1, <1>2, <2>1, <2>3
    <3> QED BY <3>1 DEF At
  <2> QED BY <2>2, <2>3
<1> QED BY <1>2, <1>3, <1>4

\* Reading moves pieces from the wire to the input, and the stream stays.
LEMMA ReadPieces ==
    ASSUME BasicInv, NEW n \in Nat, n \in 1..Len(wire),
           wire' = SubSeq(wire, n + 1, Len(wire)), input' = input \o SubSeq(wire, 1, n)
    PROVE  /\ Left' = Left /\ Len(input') = Len(input) + n
           /\ \A k \in 1..Left : At(k)' = At(k)
<1>1. /\ Len(input) \in Nat /\ Len(wire) \in Nat /\ input \in Seq(PieceOf(Len(sent)))
      /\ \A k \in 1..Len(wire) : wire[k] \in PieceOf(Len(sent))
  BY StreamTypes DEF BasicInv, InTypes
<1>2. /\ Len(wire') = Len(wire) - n
      /\ \A k \in 1..(Len(wire) - n) : wire'[k] = wire[k + n]
  <2>1. \A i \in n + 1 .. Len(wire) : wire[i] \in PieceOf(Len(sent))
    BY <1>1
  <2> QED BY <1>1, <2>1, SubSeqProperties
<1>3. /\ SubSeq(wire, 1, n) \in Seq(PieceOf(Len(sent))) /\ Len(SubSeq(wire, 1, n)) = n
      /\ \A k \in 1..n : SubSeq(wire, 1, n)[k] = wire[k]
  <2>1. \A i \in 1..n : wire[i] \in PieceOf(Len(sent))
    BY <1>1
  <2> QED BY <1>1, <2>1, SubSeqProperties
<1>4. /\ Len(input') = Len(input) + n
      /\ \A k \in 1..(Len(input) + n) :
            input'[k] = IF k <= Len(input) THEN input[k] ELSE SubSeq(wire, 1, n)[k - Len(input)]
  BY <1>1, <1>3, ConcatProperties
<1>5. Left' = Left
  <2>1. Len(input) \in Nat /\ Len(wire) \in Nat
    BY <1>1
  <2>2. Len(input') = Len(input) + n /\ Len(wire') = Len(wire) - n
    BY <1>2, <1>4
  <2>3. \A a, b \in Nat : (a + n) + (b - n) = a + b
    OBVIOUS
  <2>4. Left' = Len(input') + Len(wire')
    BY DEF Left
  <2> QED BY <2>1, <2>2, <2>3, <2>4 DEF Left
<1>6. ASSUME NEW k \in 1..Left PROVE At(k)' = At(k)
  <2>1. k \in Nat /\ k >= 1 /\ k <= Len(input) + Len(wire)
    BY <1>1 DEF Left
  <2>2. CASE k <= Len(input)
    <3>1. k <= Len(input') /\ k \in 1..(Len(input) + n)
      BY <1>1, <1>4, <2>1, <2>2
    <3> QED BY <1>4, <2>2, <3>1 DEF At
  <2>3. CASE ~(k <= Len(input)) /\ k <= Len(input) + n
    <3>1. k <= Len(input') /\ k \in 1..(Len(input) + n) /\ k - Len(input) \in 1..n
      BY <1>1, <1>4, <2>1, <2>3
    <3> QED BY <1>3, <1>4, <2>3, <3>1 DEF At
  <2>4. CASE ~(k <= Len(input) + n)
    <3>1. /\ ~(k <= Len(input')) /\ ~(k <= Len(input))
          /\ k - Len(input') \in 1..(Len(wire) - n)
          /\ (k - Len(input')) + n = k - Len(input)
      BY <1>1, <1>4, <2>1, <2>4
    <3> QED BY <1>2, <3>1 DEF At
  <2> QED BY <2>2, <2>3, <2>4
<1> QED BY <1>4, <1>5, <1>6

\* P is the pieces of message i, which is m: they follow each other as its grammar says.
MessageOf(P, i, m) ==
    /\ Len(P) \in 2..4 /\ P[1].part = FirstPart(m)
    /\ \A k \in 1..Len(P) : P[k].of = i
    /\ \A k \in 1..(Len(P) - 1) : /\ P[k].part \notin EndParts
                                  /\ P[k + 1].part = Within(m, P[k].part)
    /\ P[Len(P)].part \in EndParts

\* What a well-formed message is on the wire.
LEMMA MessagePieces ==
    ASSUME NEW i \in Nat \ {0}, NEW m, WellFormed(m)
    PROVE  MessageOf(Pieces(i, m), i, m)
<1> USE DEF MessageOf, EndParts, Within, FirstPart, AfterLine
<1>1. CASE m.line = "frame"
  <2>1. Pieces(i, m) = [k \in 1..2 |-> [of |-> i, part |-> <<"head", "tail">>[k]]]
    BY <1>1 DEF Pieces
  <2>2. Len(Pieces(i, m)) = 2
    BY <2>1
  <2> QED BY <1>1, <2>1, <2>2
<1>2. CASE m.line = "good" /\ m.cseq < 0
  <2>1. Pieces(i, m) = [k \in 1..3 |-> [of |-> i, part |-> <<"start", "eol", "blank">>[k]]]
    BY <1>2 DEF Pieces
  <2>2. Len(Pieces(i, m)) = 3
    BY <2>1
  <2> QED BY <1>2, <2>1, <2>2
<1>3. CASE m.line = "good" /\ ~(m.cseq < 0)
  <2>1. Pieces(i, m) =
            [k \in 1..4 |-> [of |-> i, part |-> <<"start", "eol", "fields", "blank">>[k]]]
    BY <1>3 DEF Pieces
  <2>2. Len(Pieces(i, m)) = 4
    BY <2>1
  <2> QED BY <1>3, <2>1, <2>2
<1> QED BY <1>1, <1>2, <1>3 DEF WellFormed

\* A well-formed message is added at the end of the stream.
LEMMA SendStream ==
    ASSUME BasicInv, StreamInv, NEW m \in Messages, WellFormed(m), ClientSends(m),
           NEW before \in Nat, before = Left, NEW last \in Nat, last = Len(sent)
    PROVE  /\ StreamInv' /\ Left' > before /\ input' = input
           /\ Len(sent') = last + 1
           /\ \A k \in 1..before : At(k)' = At(k)
           /\ At(before + 1)'.of = last + 1
           /\ At(before + 1)'.part = FirstPart(sent'[last + 1])
           /\ \A i \in 1..last : sent'[i] = sent[i]
<1>1. PICK P : P = Pieces(last + 1, m)
  OBVIOUS
<1>2. sent' = Append(sent, m) /\ wire' = wire \o P /\ input' = input
  BY <1>1 DEF ClientSends, parseVars
<1>3. Len(input) \in Nat /\ Len(wire) \in Nat /\ before = Len(input) + Len(wire)
  BY StreamTypes DEF Left
<1>4. Len(sent') = last + 1 /\ sent'[last + 1] = m
      /\ \A i \in 1..last : sent'[i] = sent[i]
  BY <1>2, AppendProperties DEF BasicInv, InTypes
<1>5. /\ Len(P) \in 2..4 /\ P[1].part = FirstPart(m)
      /\ \A k \in 1..Len(P) : P[k].of = last + 1
      /\ \A k \in 1..(Len(P) - 1) : /\ P[k].part \notin EndParts
                                    /\ P[k + 1].part = Within(m, P[k].part)
      /\ P[Len(P)].part \in EndParts
  <2>1. last + 1 \in Nat \ {0}
    OBVIOUS
  <2>2. WellFormed(m)
    OBVIOUS
  <2>3. MessageOf(P, last + 1, m)
    BY <1>1, <2>1, <2>2, MessagePieces
  <2> QED BY <2>3 DEF MessageOf
<1>6. Len(P) \in 2..4
  BY <1>5
<1>7. /\ Len(wire') = Len(wire) + Len(P)
      /\ \A k \in 1..Len(wire) : wire'[k] = wire[k]
      /\ \A k \in 1..Len(P) : wire'[Len(wire) + k] = P[k]
  <2>1. wire \in Seq(PieceOf(last + 1))
    <3>1. PieceOf(last) \subseteq PieceOf(last + 1)
      BY DEF PieceOf
    <3> QED BY <3>1, SeqMonotonic DEF BasicInv, InTypes
  <2>2. P \in Seq(PieceOf(last + 1))
    BY <1>1, PieceTypes
  <2>3. /\ Len(wire') = Len(wire) + Len(P)
        /\ \A k \in 1..(Len(wire) + Len(P)) :
              wire'[k] = IF k <= Len(wire) THEN wire[k] ELSE P[k - Len(wire)]
    BY <1>2, <2>1, <2>2, ConcatProperties
  <2>4. ASSUME NEW k \in 1..Len(P)
        PROVE  Len(wire) + k \in 1..(Len(wire) + Len(P)) /\ ~(Len(wire) + k <= Len(wire))
               /\ (Len(wire) + k) - Len(wire) = k
    BY <1>3, <1>6
  <2>5. \A k \in 1..Len(wire) : k \in 1..(Len(wire) + Len(P)) /\ k <= Len(wire)
    BY <1>3, <1>6
  <2> QED BY <2>3, <2>4, <2>5
<1>8. Left' = before + Len(P)
  <2>1. Left' = Len(input') + Len(wire')
    BY DEF Left
  <2>2. Len(input') = Len(input) /\ Len(wire') = Len(wire) + Len(P)
    BY <1>2, <1>7
  <2> QED BY <1>3, <1>6, <2>1, <2>2
<1>9. PICK after \in Nat : after = Left' /\ after = before + Len(P)
  BY <1>6, <1>8
<1>10. ASSUME NEW k \in 1..before PROVE At(k)' = At(k)
  <2>1. k <= Len(input) \/ k - Len(input) \in 1..Len(wire)
    BY <1>3
  <2> QED BY <1>2, <1>7, <2>1 DEF At
<1>11. ASSUME NEW k \in 1..Len(P) PROVE At(before + k)' = P[k]
  <2>1. ~(before + k <= Len(input)) /\ (before + k) - Len(input) = Len(wire) + k
    BY <1>3, <1>6
  <2>2. At(before + k)' = wire'[(before + k) - Len(input)]
    BY <1>2, <2>1 DEF At
  <2>3. At(before + k)' = wire'[Len(wire) + k]
    BY <2>1, <2>2
  <2> QED BY <1>7, <2>3
<1>12. At(before + 1)' = P[1] /\ P[1].of = last + 1 /\ P[1].part = FirstPart(m)
  BY <1>5, <1>6, <1>11
<1>13. ASSUME NEW k \in 1..after, k > before PROVE k - before \in 1..Len(P) /\ At(k)' = P[k - before]
  <2>1. k - before \in 1..Len(P) /\ before + (k - before) = k
    BY <1>6, <1>9, <1>13
  <2>2. At(before + (k - before))' = P[k - before]
    BY <1>11, <2>1
  <2> QED BY <2>1, <2>2
<1>14. ASSUME NEW k \in 1..(after - 1) PROVE Follows(At(k), At(k + 1))'
  <2>1. CASE k < before
    <3>1. k \in 1..(before - 1) /\ k \in 1..before /\ k + 1 \in 1..before
      BY <2>1
    <3>2. Follows(At(k), At(k + 1)) /\ At(k)' = At(k) /\ At(k + 1)' = At(k + 1)
      BY <1>10, <3>1 DEF StreamInv
    <3>3. At(k).of \in 1..last /\ At(k + 1).of \in 1..last
      BY <3>1, StreamTypes
    <3>4. sent'[At(k).of] = sent[At(k).of] /\ sent'[At(k + 1).of] = sent[At(k + 1).of]
      BY <1>4, <3>3
    <3> QED BY <3>2, <3>4 DEF Follows
  <2>2. CASE k = before
    <3>1. At(k)' = At(k)
      BY <1>10, <2>2
    <3>2. At(k).of = last /\ At(k).part \in EndParts
      BY <2>2 DEF StreamInv
    <3>3. At(k + 1)'.of = last + 1 /\ At(k + 1)'.part = FirstPart(m)
      BY <1>12, <2>2
    <3>4. FirstPart(sent'[At(k + 1)'.of]) = FirstPart(m)
      BY <1>4, <3>3
    <3> QED BY <3>1, <3>2, <3>3, <3>4 DEF Follows, FirstPart
  <2>3. CASE k > before
    <3>1. k \in 1..after /\ k + 1 \in 1..after /\ k + 1 > before /\ (k + 1) - before = (k - before) + 1
      BY <1>9, <2>3
    <3>2. /\ At(k)' = P[k - before] /\ At(k + 1)' = P[(k - before) + 1]
          /\ k - before \in 1..Len(P) /\ (k - before) + 1 \in 1..Len(P)
      BY <1>13, <2>3, <3>1
    <3>3. PICK i \in 1..(Len(P) - 1) : i = k - before
      BY <1>6, <3>2
    <3>4. P[i].of = last + 1 /\ P[i + 1].of = last + 1 /\ P[i].part \notin EndParts
          /\ P[i + 1].part = Within(m, P[i].part)
      BY <1>5, <3>2, <3>3
    <3>5. At(k)' = P[i] /\ At(k + 1)' = P[i + 1]
      BY <3>2, <3>3
    <3>6. sent'[At(k)'.of] = m
      BY <1>4, <3>4, <3>5
    <3> QED BY <3>4, <3>5, <3>6 DEF Follows, Within, AfterLine
  <2> QED BY <2>1, <2>2, <2>3
<1>15. ASSUME NEW k \in 1..after, NEW l \in 1..after, k <= l PROVE At(k)'.of <= At(l)'.of
  <2>1. CASE l <= before
    <3>1. k \in 1..before /\ l \in 1..before
      BY <1>15, <2>1
    <3>2. At(k)' = At(k) /\ At(l)' = At(l)
      BY <1>10, <3>1
    <3> QED BY <1>15, <3>1, <3>2 DEF StreamInv
  <2>2. CASE l > before
    <3>1. At(l)'.of = last + 1
      BY <1>5, <1>13, <2>2
    <3>2. CASE k <= before
      <4>1. k \in 1..before
        BY <3>2
      <4>2. At(k)' = At(k) /\ At(k).of \in 1..last
        BY <1>10, <4>1, StreamTypes
      <4> QED BY <3>1, <4>2
    <3>3. CASE k > before
      <4>1. At(k)'.of = last + 1
        BY <1>5, <1>13, <3>3
      <4> QED BY <3>1, <4>1
    <3> QED BY <3>2, <3>3
  <2> QED BY <2>1, <2>2
<1>16. At(Left)'.of = Len(sent') /\ At(Left)'.part \in EndParts
  <2>1. At(Left)' = At(before + Len(P))'
    BY <1>8 DEF At
  <2>2. At(before + Len(P))' = P[Len(P)] /\ P[Len(P)].of = last + 1
    BY <1>5, <1>6, <1>11
  <2> QED BY <1>4, <1>5, <2>1, <2>2
<1>17. StreamInv'
  BY <1>9, <1>14, <1>15, <1>16 DEF StreamInv
<1>18. Left' > before
  <2>1. \A l \in 2..4 : before + l > before
    OBVIOUS
  <2> QED BY <1>6, <1>8, <2>1
<1> QED BY <1>2, <1>4, <1>10, <1>12, <1>17, <1>18

\* An orderly connection was orderly before.
LEMMA OrderlyBefore ==
    ASSUME BasicInv, Orderly', [Next]_vars
    PROVE  Orderly
<1>1. overread \in BOOLEAN /\ sent \in Seq(Messages) /\ Len(sent) \in Nat
  BY LenProperties DEF BasicInv, InTypes, RequestTypes
<1>2. conn' = "open" /\ overread' = FALSE /\ \A i \in 1..Len(sent') : WellFormed(sent'[i])
  BY BasicStep DEF Orderly, BasicInv, RequestTypes
<1>3. ASSUME sent' = sent, conn' = conn, overread' = FALSE => overread = FALSE PROVE Orderly
  BY <1>2, <1>3 DEF Orderly
<1>4. \A how \in {"closed", "crashed"} : ~rtsp_client_free(how)
  BY <1>2, FreedTypes
<1>5. ASSUME NEW m \in Messages, ClientSends(m) PROVE Orderly
  <2>1. sent' = Append(sent, m) /\ conn = "open" /\ overread' = overread
    BY <1>5 DEF ClientSends, parseVars
  <2>2. Len(sent') = Len(sent) + 1 /\ \A i \in 1..Len(sent) : sent'[i] = sent[i]
    BY <1>1, <2>1, AppendProperties
  <2>3. \A i \in 1..Len(sent) : i \in 1..Len(sent')
    BY <1>1, <2>2
  <2> QED BY <1>2, <2>1, <2>2, <2>3 DEF Orderly
<1>6. ASSUME NEW n \in 1..BufferSize + 1, rtsp_tcp_read_cb(n) PROVE Orderly
  BY <1>3, <1>4, <1>6 DEF rtsp_tcp_read_cb
<1>7. CASE \/ ClientCloses \/ RTSP_handle_headers_null \/ RTSP_handle_content_body
           \/ RTSP_handle_content_null
  BY <1>4, <1>7 DEF ClientCloses, RTSP_handle_headers_null, RTSP_handle_content_body,
         RTSP_handle_content_null
<1>8. CASE rtsp_tcp_write_cb \/ rtp_interleaved_send_pkt
  BY <1>3, <1>8 DEF rtsp_tcp_write_cb, rtp_interleaved_send_pkt, inVars, parseVars
<1>9. CASE RTSP_handle_new_empty \/ RTSP_handle_interleaved \/ RTSP_handle_content
  BY <1>3, <1>9 DEF RTSP_handle_new_empty, RTSP_handle_interleaved, RTSP_handle_content, inVars
<1>10. CASE RTSP_handle_new
  <2>1. overread' = (overread \/ ragel_parse_request_line = Guess) /\ sent' = sent /\ conn' = conn
    BY <1>10 DEF RTSP_handle_new, inVars
  <2>2. overread' = FALSE => overread = FALSE
    BY <1>1, <2>1
  <2> QED BY <1>3, <2>1, <2>2
<1>11. CASE RTSP_handle_headers
  <2>1. overread' = (overread \/ ragel_read_rtsp_headers = Guess) /\ sent' = sent /\ conn' = conn
    BY <1>11 DEF RTSP_handle_headers, inVars
  <2>2. overread' = FALSE => overread = FALSE
    BY <1>1, <2>1
  <2> QED BY <1>3, <2>1, <2>2
<1>12. CASE UNCHANGED vars
  BY <1>3, <1>12 DEF vars, inVars, parseVars
<1> QED BY <1>5, <1>6, <1>7, <1>8, <1>9, <1>10, <1>11, <1>12 DEF Next, RTSP_handler

\* Which messages are answered does not depend on later ones.
LEMMA RepliedKept ==
    ASSUME NEW n \in Nat, Replied(n), UNCHANGED <<queued, last_cseq>>,
           \A i \in 1..n : sent'[i] = sent[i]
    PROVE  Replied(n)'
<1>1. ASSUME NEW i \in 1..n PROVE Due(i)' <=> Due(i)
  <2>1. \A j \in 1..(i - 1) : j \in 1..n
    OBVIOUS
  <2> QED BY <2>1 DEF Due
<1>2. \A i \in 1..n : Answered(i)' <=> Answered(i)
  BY DEF Answered
<1> QED BY <1>1, <1>2 DEF Replied

\* A media packet answers nothing.
LEMMA RepliedMedia ==
    ASSUME BasicInv, NEW n \in Nat, Replied(n), queued' = Append(queued, 0),
           UNCHANGED <<sent, last_cseq>>
    PROVE  Replied(n)'
<1>1. /\ Len(queued) \in Nat /\ Len(queued') = Len(queued) + 1
      /\ \A k \in 1..Len(queued) : queued'[k] = queued[k]
      /\ queued'[Len(queued) + 1] = 0
  <2>1. queued \in Seq(0..Len(sent)) /\ 0 \in 0..Len(sent)
    BY StreamTypes DEF BasicInv, OutputInv
  <2> QED BY <2>1, LenProperties, AppendProperties
<1>2. \A k \in 1..Len(queued') : k \in 1..Len(queued) \/ k = Len(queued) + 1
  BY <1>1
<1>3. \A k \in 1..Len(queued) : k \in 1..Len(queued')
  BY <1>1
<1>4. \A i \in 1..n : Answered(i)' <=> Answered(i)
  BY <1>1, <1>2, <1>3 DEF Answered
<1>5. \A i : Due(i)' <=> Due(i)
  BY DEF Due
<1>6. \A k \in 1..Len(queued') : queued'[k] \in 0..n
  BY <1>1, <1>2 DEF Replied
<1>7. \A j, k \in 1..Len(queued') :
          j < k /\ queued'[j] # 0 /\ queued'[k] # 0 => queued'[j] < queued'[k]
  BY <1>1, <1>2 DEF Replied
<1> QED BY <1>4, <1>5, <1>6, <1>7 DEF Replied

\* A request that is refused for its CSeq, or an interleaved frame: nothing is answered.
LEMMA RepliedNothing ==
    ASSUME NEW n \in Nat, Replied(n), UNCHANGED <<queued, sent, last_cseq>>, ~Due(n + 1),
           sent[n + 1].line # "frame" => sent[n + 1].cseq <= last_cseq
    PROVE  Replied(n + 1)'
<1>1. \A i \in 1..(n + 1) : i \in 1..n \/ i = n + 1
  OBVIOUS
<1>2. \A i \in 1..n : i \in 1..(n + 1)
  OBVIOUS
<1>3. \A x \in 0..n : x \in 0..(n + 1) /\ x # n + 1
  OBVIOUS
<1>4. ~Answered(n + 1)
  BY <1>3 DEF Replied, Answered
<1>5. \A i \in 1..(n + 1) : Answered(i)' <=> Due(i)'
  BY <1>1, <1>4 DEF Replied, Answered, Due
<1>6. \A k \in 1..Len(queued) : queued[k] \in 0..(n + 1)
  BY <1>3 DEF Replied
<1>7. \A i \in 1..(n + 1) : sent[i].line # "frame" => sent[i].cseq <= last_cseq
  BY <1>1 DEF Replied
<1>8. \/ last_cseq = 0
      \/ \E i \in 1..(n + 1) : sent[i].line # "frame" /\ sent[i].cseq = last_cseq
  BY <1>2 DEF Replied
<1> QED BY <1>5, <1>6, <1>7, <1>8 DEF Replied

\* A request that is answered.
LEMMA RepliedAnswer ==
    ASSUME BasicInv, NEW n \in Nat, Replied(n), n + 1 \in 0..Len(sent),
           queued' = Append(queued, n + 1), sent' = sent, Due(n + 1),
           \A i \in 1..(n + 1) : sent[i].line # "frame" => sent[i].cseq <= last_cseq',
           last_cseq' \in {last_cseq, sent[n + 1].cseq}
    PROVE  Replied(n + 1)'
<1>1. /\ Len(queued) \in Nat /\ Len(queued') = Len(queued) + 1
      /\ \A k \in 1..Len(queued) : queued'[k] = queued[k]
      /\ queued'[Len(queued) + 1] = n + 1
  <2>1. queued \in Seq(0..Len(sent))
    BY DEF BasicInv, OutputInv
  <2> QED BY <2>1, LenProperties, AppendProperties
<1>2. \A k \in 1..Len(queued') : k \in 1..Len(queued) \/ k = Len(queued) + 1
  BY <1>1
<1>3. Len(queued) + 1 \in 1..Len(queued') /\ \A k \in 1..Len(queued) : k \in 1..Len(queued')
  BY <1>1
<1>4. \A i \in 1..(n + 1) : i \in 1..n \/ i = n + 1
  OBVIOUS
<1>5. \A k \in 1..Len(queued) : queued[k] \in 0..n
  BY DEF Replied
<1>6. \A i \in 1..n : Answered(i)' <=> Answered(i)
  <2>1. \A i \in 1..n : i # n + 1
    OBVIOUS
  <2> QED BY <1>1, <1>2, <1>3, <2>1 DEF Answered
<1>7. Answered(n + 1)'
  BY <1>1, <1>3 DEF Answered
<1>8. \A i : Due(i)' <=> Due(i)
  BY DEF Due
<1>9. \A i \in 1..(n + 1) : Answered(i)' <=> Due(i)'
  BY <1>4, <1>6, <1>7, <1>8 DEF Replied
<1>10. \A k \in 1..Len(queued') : queued'[k] \in 0..(n + 1)
  BY <1>1, <1>2, <1>5
<1>11. ASSUME NEW j \in 1..Len(queued'), NEW k \in 1..Len(queued'), j < k, queued'[j] # 0,
              queued'[k] # 0
       PROVE  queued'[j] < queued'[k]
  <2>1. j \in 1..Len(queued)
    BY <1>1, <1>2, <1>11
  <2>2. CASE k \in 1..Len(queued)
    BY <1>1, <1>11, <2>1, <2>2 DEF Replied
  <2>3. CASE k = Len(queued) + 1
    <3>1. queued'[k] = n + 1 /\ queued'[j] = queued[j] /\ queued[j] \in 0..n
      BY <1>1, <1>5, <2>1, <2>3
    <3> QED BY <3>1
  <2> QED BY <1>2, <2>2, <2>3
<1>12. \/ last_cseq' = 0
       \/ \E i \in 1..(n + 1) : sent[i].line # "frame" /\ sent[i].cseq = last_cseq'
  <2>1. sent[n + 1].line # "frame" /\ n + 1 \in 1..(n + 1) /\ \A i \in 1..n : i \in 1..(n + 1)
    BY DEF Due
  <2>2. CASE last_cseq' = sent[n + 1].cseq
    BY <2>1, <2>2
  <2>3. CASE last_cseq' = last_cseq
    BY <2>1, <2>3 DEF Replied
  <2> QED BY <2>2, <2>3
<1> QED BY <1>9, <1>10, <1>11, <1>12 DEF Replied

\* rtsp_handle_request answers exactly the requests that are due an answer.
LEMMA RepliedRequest ==
    ASSUME BasicInv, NEW n \in Nat, Replied(n), pending = n + 1, n + 1 \in 1..Len(sent),
           sent[n + 1].line # "frame", rtsp_handle_request(sent[n + 1]), sent' = sent
    PROVE  Replied(n + 1)'
<1>1. PICK cseq \in Int : cseq = sent[n + 1].cseq
  <2>1. sent[n + 1] \in Messages
    BY ElementOfSeq DEF BasicInv, InTypes
  <2> QED BY <2>1, ConnectionAssumption DEF Message
<1>2. last_cseq \in Nat
  BY DEF BasicInv, RequestTypes
<1>3. \A i \in 1..n : sent[i].line # "frame" => sent[i].cseq \in Int /\ sent[i].cseq <= last_cseq
  <2>1. \A i \in 1..n : i \in 1..Len(sent)
    BY StreamTypes
  <2>2. \A i \in 1..n : sent[i] \in Messages
    BY <2>1, ElementOfSeq DEF BasicInv, InTypes
  <2> QED BY <2>2, ConnectionAssumption DEF Message, Replied
<1>4. \A i \in 1..(n + 1) : i \in 1..n \/ i = n + 1
  OBVIOUS
<1>5. (n + 1) - 1 = n
  OBVIOUS
<1>6. CASE cseq < 0
  <2>1. queued' = Append(queued, n + 1) /\ last_cseq' = last_cseq
    BY <1>1, <1>2, <1>6 DEF rtsp_handle_request, rtsp_write_data_queue
  <2>2. Due(n + 1)
    BY <1>1, <1>6 DEF Due
  <2>3. \A i \in 1..(n + 1) : sent[i].line # "frame" => sent[i].cseq <= last_cseq'
    BY <1>1, <1>2, <1>3, <1>4, <1>6, <2>1
  <2> QED BY <2>1, <2>2, <2>3, RepliedAnswer, StreamTypes
<1>7. CASE cseq \in 0..last_cseq
  <2>1. queued' = queued /\ last_cseq' = last_cseq
    BY <1>1, <1>2, <1>7 DEF rtsp_handle_request, rtsp_write_data_queue, outVars
  <2>2. ~Due(n + 1)
    <3>1. CASE cseq = 0
      BY <1>1, <3>1 DEF Due
    <3>2. CASE cseq > 0
      <4>1. last_cseq # 0
        BY <1>2, <1>7, <3>2
      <4>2. PICK i \in 1..n : sent[i].line # "frame" /\ sent[i].cseq = last_cseq
        BY <4>1 DEF Replied
      <4>3. ~(sent[i].cseq < sent[n + 1].cseq)
        BY <1>1, <1>2, <1>7, <4>2
      <4> QED BY <1>1, <1>5, <1>7, <4>2, <4>3 DEF Due
    <3> QED BY <1>7, <3>1, <3>2
  <2>3. sent[n + 1].cseq <= last_cseq
    BY <1>1, <1>2, <1>7
  <2> QED BY <2>1, <2>2, <2>3, RepliedNothing
<1>8. CASE cseq > last_cseq
  <2>1. queued' = Append(queued, n + 1) /\ last_cseq' = cseq
    BY <1>1, <1>2, <1>8 DEF rtsp_handle_request, rtsp_write_data_queue
  <2>2. Due(n + 1)
    <3>1. \A i \in 1..n : sent[i].line # "frame" => sent[i].cseq < cseq
      BY <1>1, <1>2, <1>3, <1>8
    <3> QED BY <1>1, <1>2, <1>5, <1>8, <3>1 DEF Due
  <2>3. \A i \in 1..(n + 1) : sent[i].line # "frame" => sent[i].cseq <= last_cseq'
    BY <1>1, <1>2, <1>3, <1>4, <1>8, <2>1
  <2> QED BY <1>1, <2>1, <2>2, <2>3, RepliedAnswer, StreamTypes
<1> QED BY <1>1, <1>2, <1>6, <1>7, <1>8

\* What follows the first piece of the stream.
LEMMA SecondPiece ==
    ASSUME BasicInv, StreamInv, NEW k \in 1..Left
    PROVE  /\ At(k).part \notin EndParts =>
                 /\ k + 1 \in 1..Left /\ At(k + 1).of = At(k).of
                 /\ At(k + 1).part = Within(sent[At(k).of], At(k).part)
           /\ At(k).part \in EndParts =>
                 IF k = Left THEN At(k).of = Len(sent)
                 ELSE /\ k + 1 \in 1..Left /\ At(k + 1).of = At(k).of + 1
                      /\ At(k + 1).part = FirstPart(sent[At(k).of + 1])
<1>1. Left \in Nat
  BY StreamTypes
<1>2. CASE k = Left
  BY <1>1, <1>2 DEF StreamInv
<1>3. CASE k # Left
  <2>1. k \in 1..(Left - 1) /\ k + 1 \in 1..Left
    BY <1>1, <1>3
  <2>2. Follows(At(k), At(k + 1))
    BY <2>1 DEF StreamInv
  <2> QED BY <1>3, <2>1, <2>2 DEF Follows
<1> QED BY <1>2, <1>3

\* The first piece of a stream with something in the input.
LEMMA FirstPiece ==
    ASSUME BasicInv, input # <<>>
    PROVE  /\ Len(input) \in Nat \ {0} /\ Left > 0 /\ 1 \in 1..Left
           /\ At(1) = Head(input) /\ At(1).of \in 1..Len(sent)
<1>1. Len(input) \in Nat \ {0} /\ Head(input) = input[1] /\ Head(input).of \in 1..Len(sent)
  BY HeadPiece DEF BasicInv
<1>2. Left > 0 /\ 1 \in 1..Left
  BY <1>1, StreamTypes DEF Left
<1>3. At(1) = Head(input)
  BY <1>1 DEF At
<1> QED BY <1>1, <1>2, <1>3

\* What is left begins after message n, when the last piece of n was taken.
LEMMA BoundaryAfter ==
    ASSUME BasicInv, StreamInv, NEW k \in 1..Left, NEW n \in Nat, At(k).of = n,
           At(k).part \in EndParts, sent' = sent, Left' = Left - k,
           \A l \in 1..(Left - k) : At(l)' = At(l + k)
    PROVE  Boundary(n)'
<1>1. Left \in Nat
  BY StreamTypes
<1>2. CASE k = Left
  <2>1. Left' = 0 /\ n = Len(sent')
    BY <1>1, <1>2, SecondPiece
  <2> QED BY <2>1 DEF Boundary
<1>3. CASE k # Left
  <2>1. At(k + 1).of = n + 1 /\ At(k + 1).part = FirstPart(sent[n + 1])
    BY <1>3, SecondPiece
  <2>2. 1 \in 1..(Left - k) /\ Left' # 0 /\ 1 + k = k + 1
    BY <1>1, <1>3
  <2>3. At(1)' = At(k + 1)
    BY <2>2
  <2> QED BY <2>1, <2>2, <2>3 DEF Boundary, FirstPart
<1> QED BY <1>2, <1>3

LEMMA SmallLengths ==
    ASSUME NEW l \in Nat \ {0}
    PROVE  (l # 1 => 2 <= l) /\ (l < 2 => l = 1) /\ 2 \in Nat
OBVIOUS

\* RTSP_handler is done with n messages, and they are answered.
ConversationOf(n) == StreamInv /\ Progress(n) /\ Replied(n)

LEMMA ConversationSend ==
    ASSUME BasicInv, Orderly, NEW n \in 0..Len(sent), ConversationOf(n),
           NEW m \in Messages, WellFormed(m), ClientSends(m)
    PROVE  ConversationOf(n)' /\ n \in 0..Len(sent')
<1>1. Len(input) \in Nat /\ Len(wire) \in Nat /\ Left \in Nat /\ Len(sent) \in Nat
  BY StreamTypes
<1>2. PICK before \in Nat, last \in Nat : before = Left /\ last = Len(sent)
  BY <1>1
<1>3. /\ StreamInv' /\ Left' > before /\ input' = input
      /\ Len(sent') = last + 1
      /\ \A k \in 1..before : At(k)' = At(k)
      /\ At(before + 1)'.of = last + 1
      /\ At(before + 1)'.part = FirstPart(sent'[last + 1])
      /\ \A i \in 1..last : sent'[i] = sent[i]
  BY <1>2, SendStream DEF ConversationOf
<1>4. ~handling /\ UNCHANGED <<status, pending, headers, handling, queued, last_cseq>>
  BY DEF ClientSends, parseVars, outVars
<1>5. Replied(n)'
  <2>1. \A i \in 1..n : i \in 1..last
    BY <1>2
  <2> QED BY <1>3, <1>4, <2>1, RepliedKept DEF ConversationOf
<1>6. Boundary(n) /\ status \in {"Begin", "Interleaved"}
  BY <1>4 DEF ConversationOf, Progress
<1>7. Left' # 0
  BY <1>2, <1>3
<1>8. Boundary(n)'
  <2>1. CASE before = 0
    <3>1. n = last
      BY <1>2, <1>6, <2>1 DEF Boundary
    <3>2. At(1)' = At(before + 1)'
      BY <2>1 DEF At
    <3> QED BY <1>3, <1>7, <3>1, <3>2 DEF Boundary, FirstPart
  <2>2. CASE before # 0
    <3>1. At(1)' = At(1) /\ At(1).of \in 1..last
      BY <1>2, <1>3, <2>2, StreamTypes
    <3>2. At(1).of = n + 1 /\ At(1).part = FirstPart(sent[n + 1])
      BY <1>2, <1>6, <2>2 DEF Boundary
    <3>3. sent'[n + 1] = sent[n + 1]
      BY <1>3, <3>1, <3>2
    <3> QED BY <1>7, <3>1, <3>2, <3>3 DEF Boundary, FirstPart
  <2> QED BY <2>1, <2>2
<1>9. status = "Interleaved" => input # <<>> /\ At(1)'.part = "head"
  <2> SUFFICES ASSUME status = "Interleaved" PROVE input # <<>> /\ At(1)'.part = "head"
    OBVIOUS
  <2>1. input # <<>> /\ At(1).part = "head"
    BY DEF ConversationOf, Progress
  <2>2. 1 \in 1..before
    BY <1>2, <2>1, FirstPiece
  <2> QED BY <1>3, <2>1, <2>2
<1>10. Progress(n)'
  BY <1>3, <1>4, <1>6, <1>8, <1>9 DEF ConversationOf, Progress
<1>11. n \in 0..Len(sent')
  BY <1>2, <1>3
<1> QED BY <1>3, <1>5, <1>10, <1>11 DEF ConversationOf

LEMMA ConversationRead ==
    ASSUME BasicInv, Orderly, NEW n \in 0..Len(sent), ConversationOf(n),
           NEW l \in Nat, rtsp_tcp_read_cb(l), conn' = "open"
    PROVE  ConversationOf(n)'
<1>1. ~rtsp_client_free("closed")
  BY FreedTypes
<1>2. /\ l \in 1..Len(wire) /\ ~handling
      /\ wire' = SubSeq(wire, l + 1, Len(wire))
      /\ input' = input \o SubSeq(wire, 1, l) /\ handling' = TRUE
      /\ UNCHANGED <<sent, status, pending, headers, last_cseq, queued>>
  BY <1>1 DEF rtsp_tcp_read_cb, outVars
<1>3. /\ Left' = Left /\ Len(input') = Len(input) + l
      /\ \A k \in 1..Left : At(k)' = At(k)
  BY <1>2, ReadPieces
<1>4. Len(input) \in Nat /\ Left \in Nat
  BY StreamTypes
<1>5. StreamInv'
  <2>1. 0 <= Left /\ Left - 0 = Left /\ \A k \in 1..Left : k + 0 = k
    BY <1>4
  <2> QED BY <1>2, <1>3, <2>1, StreamRest DEF ConversationOf
<1>6. Replied(n)'
  BY <1>2, RepliedKept, StreamTypes DEF ConversationOf
<1>7. Boundary(n) /\ status \in {"Begin", "Interleaved"}
  BY <1>2 DEF ConversationOf, Progress
<1>8. Left # 0 => At(1)' = At(1)
  BY <1>3, <1>4
<1>9. Boundary(n)'
  BY <1>2, <1>3, <1>7, <1>8 DEF Boundary
<1>10. status = "Interleaved" => input' # <<>> /\ At(1)'.part = "head"
  <2> SUFFICES ASSUME status = "Interleaved" PROVE input' # <<>> /\ At(1)'.part = "head"
    OBVIOUS
  <2>1. input # <<>> /\ At(1).part = "head"
    BY DEF ConversationOf, Progress
  <2>2. 1 \in 1..Left
    BY <2>1, FirstPiece
  <2>3. Len(input') # 0
    BY <1>2, <1>3, <1>4
  <2> QED BY <1>3, <2>1, <2>2, <2>3, EmptySeq
<1>11. Progress(n)'
  BY <1>2, <1>7, <1>9, <1>10 DEF Progress
<1> QED BY <1>5, <1>6, <1>11 DEF ConversationOf

\* A request line: it is complete, or the parser has read on behind the input.
LEMMA ConversationNew ==
    ASSUME BasicInv, Orderly, NEW n \in 0..Len(sent), ConversationOf(n), RTSP_handle_new,
           overread' = FALSE
    PROVE  ConversationOf(n)'
<1>1. /\ InHandler("Begin") /\ input # <<>> /\ ~HeadIn({"head"})
      /\ UNCHANGED <<sent, wire, last_cseq, session, conn>>
  BY DEF RTSP_handle_new, inVars
<1>2. /\ Len(input) \in Nat \ {0} /\ Left > 0 /\ 1 \in 1..Left
      /\ At(1) = Head(input) /\ At(1).of \in 1..Len(sent)
  BY <1>1, FirstPiece
<1>3. At(1).of = n + 1 /\ At(1).part = FirstPart(sent[n + 1])
  BY <1>1, <1>2 DEF ConversationOf, Progress, Boundary, InHandler
<1>4. At(1).part = "start" /\ sent[n + 1].line = "good"
  <2>1. At(1).part # "head"
    BY <1>1, <1>2 DEF HeadIn
  <2>2. WellFormed(sent[n + 1])
    BY <1>2, <1>3 DEF Orderly
  <2> QED BY <1>3, <2>1, <2>2 DEF FirstPart, WellFormed
<1>5. PICK res \in ragel_parse_request_line :
          /\ overread' = (overread \/ ragel_parse_request_line = Guess)
          /\ res = "bad" => RefuseLine
          /\ res = "complete" => AcceptLine(sent[Head(input).of].line)
  BY DEF RTSP_handle_new
<1>6. ragel_parse_request_line # Guess
  BY <1>5
<1>7. Len(input) # 1 /\ ragel_parse_request_line = {"complete"}
  BY <1>1, <1>2, <1>3, <1>4, <1>6 DEF ragel_parse_request_line, HeadIn
<1>8. AcceptLine("good")
  BY <1>2, <1>3, <1>4, <1>5, <1>7
<1>9. /\ status' = "Headers" /\ pending' = n + 1 /\ headers' = <<>>
      /\ input' = Consumed(2) /\ UNCHANGED <<handling, queued>>
  BY <1>2, <1>3, <1>8 DEF AcceptLine, outVars
<1>10. 2 <= Len(input) /\ 2 \in Nat
  <2>1. Len(input) \in Nat \ {0} /\ Len(input) # 1
    BY <1>2, <1>7
  <2> QED BY <2>1, SmallLengths
<1>11. /\ 2 <= Left /\ Left' = Left - 2
       /\ \A k \in 1..(Left - 2) : At(k)' = At(k + 2)
  BY <1>1, <1>9, <1>10, TakePieces
<1>12. StreamInv'
  BY <1>1, <1>10, <1>11, StreamRest DEF ConversationOf
<1>13. 2 \in 1..Left /\ At(2).of = n + 1 /\ At(2).part = "eol"
  <2>1. 1 + 1 \in 1..Left /\ At(1 + 1).of = n + 1 /\ At(1 + 1).part = "eol"
    BY <1>2, <1>3, <1>4, SecondPiece DEF ConversationOf, EndParts, Within
  <2> QED BY <2>1
<1>14. 3 \in 1..Left /\ At(3).of = n + 1 /\ At(3).part = AfterLine(sent[n + 1])
  <2>1. 2 + 1 \in 1..Left /\ At(2 + 1).of = n + 1 /\ At(2 + 1).part = AfterLine(sent[n + 1])
    BY <1>13, SecondPiece DEF ConversationOf, EndParts, Within
  <2> QED BY <2>1
<1>15. Left' > 0 /\ At(1)' = At(3)
  <2>1. Left \in Nat
    BY StreamTypes
  <2>2. 1 \in 1..(Left - 2) /\ 1 + 2 = 3
    BY <1>14, <2>1
  <2>3. At(1)' = At(1 + 2)
    BY <1>11, <2>2
  <2> QED BY <1>11, <2>1, <2>2, <2>3
<1>16. Progress(n)'
  BY <1>1, <1>4, <1>9, <1>14, <1>15 DEF Progress, InHandler, AfterLine
<1>17. Replied(n)'
  BY <1>1, <1>9, RepliedKept, StreamTypes DEF ConversationOf
<1> QED BY <1>12, <1>16, <1>17 DEF ConversationOf

\* The headers: they are complete, or the parser has read on behind the input.
LEMMA ConversationHeaders ==
    ASSUME BasicInv, Orderly, NEW n \in 0..Len(sent), ConversationOf(n), RTSP_handle_headers,
           overread' = FALSE
    PROVE  ConversationOf(n)'
<1>1. /\ InHandler("Headers") /\ UNCHANGED <<sent, wire, pending, last_cseq, session, conn>>
  BY DEF RTSP_handle_headers, inVars
<1>2. /\ pending = n + 1 /\ Left > 0 /\ sent[n + 1].line # "frame"
      /\ At(1).of = n + 1 /\ At(1).part = AfterLine(sent[n + 1])
  BY <1>1 DEF ConversationOf, Progress, InHandler
<1>3. PICK res \in ragel_read_rtsp_headers :
          /\ overread' = (overread \/ ragel_read_rtsp_headers = Guess)
          /\ res = "complete" =>
                HeadersDone(Consumed(IF HeadIn({"fields"}) THEN 2 ELSE 1), sent[pending])
  BY DEF RTSP_handle_headers
<1>4. ragel_read_rtsp_headers # Guess
  BY <1>3
<1>5. input # <<>>
  BY <1>4 DEF ragel_read_rtsp_headers
<1>6. /\ Len(input) \in Nat \ {0} /\ 1 \in 1..Left
      /\ At(1) = Head(input) /\ At(1).of \in 1..Len(sent)
  BY <1>5, FirstPiece
<1>7. WellFormed(sent[n + 1])
  BY <1>2, <1>6 DEF Orderly
<1>8. PICK k \in {1, 2} :
          /\ HeadersDone(Consumed(k), sent[n + 1]) /\ k <= Len(input) /\ k \in 1..Left
          /\ At(k).of = n + 1 /\ At(k).part \in EndParts
  <2>1. CASE At(1).part = "blank"
    <3>1. ragel_read_rtsp_headers = {"complete"} /\ ~HeadIn({"fields"})
      BY <1>5, <1>6, <2>1 DEF ragel_read_rtsp_headers, HeadIn
    <3>2. HeadersDone(Consumed(1), sent[n + 1])
      BY <1>2, <1>3, <3>1
    <3>3. 1 <= Len(input)
      BY <1>6
    <3> QED BY <1>2, <1>6, <2>1, <3>2, <3>3 DEF EndParts
  <2>2. CASE At(1).part = "fields"
    <3>1. Len(input) # 1 /\ ragel_read_rtsp_headers = {"complete"} /\ HeadIn({"fields"})
      BY <1>2, <1>4, <1>5, <1>6, <1>7, <2>2 DEF ragel_read_rtsp_headers, HeadIn, WellFormed
    <3>2. HeadersDone(Consumed(2), sent[n + 1])
      BY <1>2, <1>3, <3>1
    <3>3. 2 <= Len(input)
      <4>1. Len(input) \in Nat \ {0} /\ Len(input) # 1
        BY <1>6, <3>1
      <4> QED BY <4>1, SmallLengths
    <3>4. 1 + 1 \in 1..Left /\ At(1 + 1).of = n + 1 /\ At(1 + 1).part = "blank"
      BY <1>2, <1>6, <2>2, SecondPiece DEF ConversationOf, EndParts, Within
    <3>5. 2 \in 1..Left /\ At(2).of = n + 1 /\ At(2).part \in EndParts
      BY <3>4 DEF EndParts
    <3> QED BY <3>2, <3>3, <3>5
  <2> QED BY <1>2, <2>1, <2>2 DEF AfterLine
<1>9. /\ input' = Consumed(k) /\ headers' = <<sent[n + 1]>> /\ status' = "Content"
      /\ UNCHANGED <<handling, queued>>
  BY <1>8 DEF HeadersDone, outVars
<1>10. /\ k \in Nat /\ k <= Left /\ Left' = Left - k
       /\ \A l \in 1..(Left - k) : At(l)' = At(l + k)
  BY <1>1, <1>8, <1>9, TakePieces
<1>11. StreamInv'
  BY <1>1, <1>10, StreamRest DEF ConversationOf
<1>12. Boundary(n + 1)'
  <2>1. n + 1 \in Nat
    BY StreamTypes
  <2> QED BY <1>1, <1>8, <1>10, <2>1, BoundaryAfter DEF ConversationOf
<1>13. Progress(n)'
  BY <1>1, <1>2, <1>9, <1>12 DEF Progress, InHandler
<1>14. Replied(n)'
  BY <1>1, <1>9, RepliedKept, StreamTypes DEF ConversationOf
<1> QED BY <1>11, <1>13, <1>14 DEF ConversationOf

\* The request is handled, and answered when an answer is due.
LEMMA ConversationContent ==
    ASSUME BasicInv, Orderly, NEW n \in 0..Len(sent), ConversationOf(n), RTSP_handle_content
    PROVE  n + 1 \in 0..Len(sent) /\ ConversationOf(n + 1)'
<1>1. /\ InHandler("Content") /\ rtsp_handle_request(Head(headers)) /\ status' = "Begin"
      /\ UNCHANGED <<sent, wire, input, handling, conn>>
  BY DEF RTSP_handle_content, inVars
<1>2. /\ pending = n + 1 /\ Boundary(n + 1) /\ headers = <<sent[n + 1]>>
      /\ sent[n + 1].line # "frame"
  BY <1>1 DEF ConversationOf, Progress, InHandler
<1>3. Head(headers) = sent[n + 1]
  BY <1>2
<1>4. n + 1 \in 1..Len(sent) /\ n \in Nat
  BY <1>2, StreamTypes DEF BasicInv, RequestTypes
<1>5. Replied(n + 1)'
  BY <1>1, <1>2, <1>3, <1>4, RepliedRequest DEF ConversationOf
<1>6. StreamInv' /\ Boundary(n + 1)'
  BY <1>1, <1>2 DEF ConversationOf, StreamInv, Boundary, Follows, Left, At
<1>7. Progress(n + 1)'
  BY <1>1, <1>6 DEF Progress, InHandler
<1>8. n + 1 \in 0..Len(sent)
  BY <1>4
<1> QED BY <1>5, <1>6, <1>7, <1>8 DEF ConversationOf

\* An interleaved frame is taken as a whole or waited for.
LEMMA ConversationFrame ==
    ASSUME BasicInv, Orderly, NEW n \in 0..Len(sent), ConversationOf(n), RTSP_handle_interleaved
    PROVE  \/ ConversationOf(n)'
           \/ n + 1 \in 0..Len(sent) /\ ConversationOf(n + 1)'
<1>1. /\ InHandler("Interleaved") \/ (InHandler("Begin") /\ HeadIn({"head"}))
      /\ UNCHANGED <<sent, wire, queued, last_cseq>>
  BY DEF RTSP_handle_interleaved, inVars, outVars
<1>2. input # <<>>
  BY <1>1 DEF HeadIn, ConversationOf, Progress, InHandler
<1>3. /\ Len(input) \in Nat \ {0} /\ Left > 0 /\ 1 \in 1..Left
      /\ At(1) = Head(input) /\ At(1).of \in 1..Len(sent)
  BY <1>2, FirstPiece
<1>4. Boundary(n) /\ At(1).part = "head"
  BY <1>1, <1>3 DEF HeadIn, ConversationOf, Progress, InHandler
<1>5. At(1).of = n + 1 /\ sent[n + 1].line = "frame"
  BY <1>3, <1>4 DEF Boundary, FirstPart
<1>6. CASE Len(input) < 2
  <2>1. status' = "Interleaved" /\ handling' = FALSE /\ input' = input
    BY <1>6 DEF RTSP_handle_interleaved, Return
  <2>2. Len(input) = 1
    <3>1. Len(input) \in Nat \ {0} /\ Len(input) < 2
      BY <1>3, <1>6
    <3> QED BY <3>1, SmallLengths
  <2>3. /\ StreamInv' /\ Boundary(n)' /\ At(1)' = At(1)
    BY <1>1, <1>4, <2>1 DEF ConversationOf, StreamInv, Boundary, Follows, Left, At
  <2>4. Progress(n)'
    BY <1>2, <1>4, <2>1, <2>2, <2>3 DEF Progress
  <2>5. Replied(n)'
    BY <1>1, RepliedKept, StreamTypes DEF ConversationOf
  <2> QED BY <2>3, <2>4, <2>5 DEF ConversationOf
<1>7. CASE Len(input) >= 2
  <2>1. status' = "Begin" /\ handling' = handling /\ input' = Consumed(2)
    BY <1>3, <1>7 DEF RTSP_handle_interleaved
  <2>2. 2 \in Nat /\ 2 <= Len(input)
    BY <1>3, <1>7
  <2>3. /\ 2 <= Left /\ Left' = Left - 2
        /\ \A k \in 1..(Left - 2) : At(k)' = At(k + 2)
    BY <1>1, <2>1, <2>2, TakePieces
  <2>4. StreamInv'
    BY <1>1, <2>2, <2>3, StreamRest DEF ConversationOf
  <2>5. 2 \in 1..Left /\ At(2).of = n + 1 /\ At(2).part \in EndParts
    <3>1. 1 + 1 \in 1..Left /\ At(1 + 1).of = n + 1 /\ At(1 + 1).part = "tail"
      BY <1>3, <1>4, <1>5, SecondPiece DEF ConversationOf, EndParts, Within
    <3> QED BY <3>1 DEF EndParts
  <2>6. n + 1 \in Nat /\ n \in Nat /\ n + 1 \in 0..Len(sent)
    BY <1>3, <1>5, StreamTypes
  <2>7. Boundary(n + 1)'
    BY <1>1, <2>3, <2>5, <2>6, BoundaryAfter DEF ConversationOf
  <2>8. handling = TRUE
    BY <1>1 DEF InHandler, BasicInv, RequestTypes
  <2>9. Progress(n + 1)'
    BY <2>1, <2>7, <2>8 DEF Progress
  <2>10. Replied(n + 1)'
    BY <1>1, <1>5, <2>6, RepliedNothing DEF ConversationOf, Due
  <2> QED BY <2>4, <2>6, <2>9, <2>10 DEF ConversationOf
<1> QED BY <1>3, <1>6, <1>7

\* What does not touch the stream, the parser or the answers.
LEMMA ConversationKept ==
    ASSUME NEW n \in Nat, ConversationOf(n),
           UNCHANGED <<sent, wire, input, status, pending, headers, handling, queued, last_cseq>>
    PROVE  ConversationOf(n)'
<1>1. StreamInv' /\ Boundary(n)' = Boundary(n) /\ Boundary(n + 1)' = Boundary(n + 1)
  BY DEF ConversationOf, StreamInv, Boundary, Follows, Left, At
<1>2. Progress(n)'
  BY <1>1 DEF ConversationOf, Progress, Left, At
<1>3. Replied(n)'
  BY RepliedKept DEF ConversationOf
<1> QED BY <1>1, <1>2, <1>3 DEF ConversationOf

\* The loop of RTSP_handler ends with nothing left to read.
LEMMA ConversationEmpty ==
    ASSUME NEW n \in Nat, ConversationOf(n), RTSP_handle_new_empty
    PROVE  ConversationOf(n)'
<1>1. /\ status = "Begin" /\ input = <<>> /\ handling' = FALSE
      /\ UNCHANGED <<sent, wire, input, status, pending, headers, queued, last_cseq>>
  BY DEF RTSP_handle_new_empty, InHandler, Return, Stays, inVars, outVars
<1>2. StreamInv' /\ Boundary(n)' = Boundary(n)
  BY <1>1 DEF ConversationOf, StreamInv, Boundary, Follows, Left, At
<1>3. Progress(n)'
  BY <1>1, <1>2 DEF ConversationOf, Progress
<1>4. Replied(n)'
  BY <1>1, RepliedKept DEF ConversationOf
<1> QED BY <1>2, <1>3, <1>4 DEF ConversationOf

\* A media packet is queued between two answers.
LEMMA ConversationMedia ==
    ASSUME BasicInv, NEW n \in Nat, ConversationOf(n), rtp_interleaved_send_pkt
    PROVE  ConversationOf(n)'
<1>1. /\ queued' = Append(queued, 0)
      /\ UNCHANGED <<sent, wire, input, status, pending, headers, handling, last_cseq>>
  BY DEF rtp_interleaved_send_pkt, rtsp_write_data_queue, inVars, parseVars
<1>2. StreamInv' /\ Boundary(n)' = Boundary(n) /\ Boundary(n + 1)' = Boundary(n + 1)
  <2>1. Left' = Left
    BY <1>1 DEF Left
  <2>2. \A k : At(k)' = At(k)
    BY <1>1 DEF At
  <2>3. StreamInv'
    BY <1>1, <2>1, <2>2, Zenon DEF ConversationOf, StreamInv, Follows
  <2>4. Boundary(n)' = Boundary(n)
    BY <1>1, <2>1, <2>2, Zenon DEF Boundary
  <2>5. Boundary(n + 1)' = Boundary(n + 1)
    BY <1>1, <2>1, <2>2, Zenon DEF Boundary
  <2> QED BY <2>3, <2>4, <2>5
<1>3. Progress(n)'
  BY <1>1, <1>2 DEF ConversationOf, Progress, Left, At
<1>4. Replied(n)'
  BY <1>1, RepliedMedia DEF ConversationOf
<1> QED BY <1>2, <1>3, <1>4 DEF ConversationOf

LEMMA ConversationStep ==
    ASSUME BasicInv, ConversationInv, [Next]_vars, Orderly'
    PROVE  \E n \in 0..Len(sent') : ConversationOf(n)'
<1>1. Orderly
  BY OrderlyBefore
<1>2. PICK n \in 0..Len(sent) : ConversationOf(n)
  BY <1>1 DEF ConversationInv, ConversationOf
<1>3. n \in Nat
  BY StreamTypes
<1>4. conn' = "open" /\ \A i \in 1..Len(sent') : WellFormed(sent'[i])
  BY DEF Orderly
<1>5. overread' = FALSE
  <2>1. overread' \in BOOLEAN
    BY BasicStep DEF BasicInv, RequestTypes
  <2> QED BY <2>1 DEF Orderly
<1>6. \A how \in {"closed", "crashed"} : ~rtsp_client_free(how)
  BY <1>4, FreedTypes
<1>7. ASSUME NEW m \in Messages, ClientSends(m) PROVE \E k \in 0..Len(sent') : ConversationOf(k)'
  <2>1. sent \in Seq(Messages) /\ Len(sent) \in Nat
    BY StreamTypes DEF BasicInv, InTypes
  <2>2. sent'[Len(sent) + 1] = m /\ Len(sent') = Len(sent) + 1
    BY <1>7, <2>1, AppendProperties DEF ClientSends
  <2>3. Len(sent) + 1 \in 1..Len(sent')
    BY <2>1, <2>2
  <2>4. WellFormed(m)
    BY <1>4, <2>2, <2>3
  <2> QED BY <1>1, <1>2, <1>7, <2>4, ConversationSend
<1>8. ASSUME NEW l \in 1..BufferSize + 1, rtsp_tcp_read_cb(l)
      PROVE  \E k \in 0..Len(sent') : ConversationOf(k)'
  <2>1. l \in Nat
    BY ConnectionAssumption
  <2>2. sent' = sent
    BY <1>6, <1>8 DEF rtsp_tcp_read_cb
  <2> QED BY <1>1, <1>2, <1>4, <1>8, <2>1, <2>2, ConversationRead
<1>9. CASE \/ ClientCloses \/ RTSP_handle_headers_null \/ RTSP_handle_content_body
           \/ RTSP_handle_content_null
  BY <1>6, <1>9 DEF ClientCloses, RTSP_handle_headers_null, RTSP_handle_content_body,
         RTSP_handle_content_null
<1>10. CASE rtsp_tcp_write_cb
  <2>1. UNCHANGED <<sent, wire, input, status, pending, headers, handling, queued, last_cseq>>
    BY <1>10 DEF rtsp_tcp_write_cb, inVars, parseVars
  <2> QED BY <1>2, <1>3, <2>1, ConversationKept
<1>11. CASE rtp_interleaved_send_pkt
  <2>1. sent' = sent
    BY <1>11 DEF rtp_interleaved_send_pkt, inVars
  <2> QED BY <1>2, <1>3, <1>11, <2>1, ConversationMedia
<1>12. CASE RTSP_handle_new_empty
  <2>1. sent' = sent
    BY <1>12 DEF RTSP_handle_new_empty, inVars
  <2> QED BY <1>2, <1>3, <1>12, <2>1, ConversationEmpty
<1>13. CASE RTSP_handle_interleaved
  <2>1. sent' = sent
    BY <1>13 DEF RTSP_handle_interleaved, inVars
  <2>2. ConversationOf(n)' \/ (n + 1 \in 0..Len(sent) /\ ConversationOf(n + 1)')
    BY <1>1, <1>2, <1>13, ConversationFrame
  <2> QED BY <1>2, <2>1, <2>2
<1>14. CASE RTSP_handle_new
  <2>1. sent' = sent
    BY <1>14 DEF RTSP_handle_new, inVars
  <2> QED BY <1>1, <1>2, <1>5, <1>14, <2>1, ConversationNew
<1>15. CASE RTSP_handle_headers
  <2>1. sent' = sent
    BY <1>15 DEF RTSP_handle_headers, inVars
  <2> QED BY <1>1, <1>2, <1>5, <1>15, <2>1, ConversationHeaders
<1>16. CASE RTSP_handle_content
  <2>1. sent' = sent
    BY <1>16 DEF RTSP_handle_content, inVars
  <2>2. n + 1 \in 0..Len(sent) /\ ConversationOf(n + 1)'
    BY <1>1, <1>2, <1>16, ConversationContent
  <2> QED BY <2>1, <2>2
<1>17. CASE UNCHANGED vars
  <2>1. UNCHANGED <<sent, wire, input, status, pending, headers, handling, queued, last_cseq>>
    BY <1>17 DEF vars, inVars, parseVars, outVars
  <2> QED BY <1>2, <1>3, <2>1, ConversationKept
<1> QED BY <1>7, <1>8, <1>9, <1>10, <1>11, <1>12, <1>13, <1>14, <1>15, <1>16, <1>17
        DEF Next, RTSP_handler

LEMMA ConversationInit == Init => ConversationInv
<1> SUFFICES ASSUME Init PROVE ConversationInv
  OBVIOUS
<1>1. Len(sent) = 0 /\ Len(input) = 0 /\ Len(wire) = 0 /\ Len(queued) = 0
  BY EmptySeq DEF Init
<1>2. Left = 0
  BY <1>1 DEF Left
<1>3. StreamInv
  BY <1>2 DEF StreamInv
<1>4. Progress(0)
  BY <1>1, <1>2 DEF Init, Progress, Boundary
<1>5. Replied(0)
  BY <1>1 DEF Init, Replied
<1>6. 0 \in 0..Len(sent)
  BY <1>1
<1> QED BY <1>3, <1>4, <1>5, <1>6 DEF ConversationInv

\* The stream is a suffix of what the client sent, and RTSP_handler stands behind the
\* messages it has answered.
THEOREM ConversationSafe == Spec => []ConversationInv
<1>1. BasicInv /\ ConversationInv /\ [Next]_vars => ConversationInv'
  BY ConversationStep DEF ConversationInv, ConversationOf
<1> QED BY <1>1, BasicSafe, ConversationInit, PTL DEF Spec

\* When RTSP_handler has returned, it stands behind all it has received.
LEMMA AnsweredReceived ==
    ASSUME BasicInv, StreamInv, NEW n \in 0..Len(sent), Progress(n), ~handling,
           NEW i \in 1..Len(sent)
    PROVE  Received(i) <=> i <= n
<1>1. Len(input) \in Nat /\ Len(wire) \in Nat /\ Len(sent) \in Nat /\ n \in Nat
  BY StreamTypes
<1>2. Boundary(n)
  BY DEF Progress
<1>3. CASE Len(wire) = 0
  <2>1. n = Len(sent)
    <3>1. CASE input = <<>>
      <4>1. Left = 0
        BY <1>3, <3>1, EmptySeq DEF Left
      <4> QED BY <1>2, <4>1 DEF Boundary
    <3>2. CASE input # <<>>
      <4>1. status = "Interleaved" /\ Len(input) = 1
        BY <3>2 DEF Progress
      <4>2. Left = 1
        BY <1>3, <4>1 DEF Left
      <4>3. At(1).part = "head" /\ At(Left).part \in EndParts
        BY <4>1, <4>2 DEF Progress, StreamInv
      <4> QED BY <4>2, <4>3 DEF EndParts
    <3> QED BY <3>1, <3>2
  <2>2. Received(i)
    BY <1>3 DEF Received
  <2> QED BY <1>1, <2>1, <2>2
<1>4. CASE Len(wire) # 0
  <2>1. PICK l \in {0, 1} : l = Len(input) /\ At(l + 1).of = n + 1
    <3>1. CASE input = <<>>
      <4>1. Len(input) = 0
        BY <3>1, EmptySeq
      <4>2. Left # 0
        BY <1>1, <1>4, <4>1 DEF Left
      <4>3. At(1).of = n + 1 /\ 0 + 1 = 1
        BY <1>2, <4>2 DEF Boundary
      <4> QED BY <4>1, <4>3
    <3>2. CASE input # <<>>
      <4>1. status = "Interleaved" /\ Len(input) = 1 /\ At(1).part = "head"
        BY <3>2 DEF Progress
      <4>2. Left # 0 /\ Left # 1 /\ 1 \in 1..Left /\ 1 + 1 = 2
        BY <1>1, <1>4, <4>1 DEF Left
      <4>3. At(1).of = n + 1
        BY <1>2, <4>2 DEF Boundary
      <4>4. At(1 + 1).of = At(1).of
        BY <4>1, <4>2, SecondPiece DEF EndParts
      <4> QED BY <4>1, <4>3, <4>4
    <3> QED BY <3>1, <3>2
  <2>2. ASSUME NEW k \in 1..Len(wire)
        PROVE  At(l + k) = wire[k] /\ l + 1 \in 1..Left /\ l + k \in 1..Left /\ l + 1 <= l + k
    <3>1. ~(l + k <= Len(input)) /\ (l + k) - Len(input) = k
      BY <1>1, <2>1
    <3>2. At(l + k) = wire[k]
      BY <3>1 DEF At
    <3>3. l + 1 \in 1..Left /\ l + k \in 1..Left /\ l + 1 <= l + k
      BY <1>1, <2>1 DEF Left
    <3> QED BY <3>2, <3>3
  <2>3. ASSUME NEW k \in 1..Len(wire) PROVE wire[k].of \in Nat /\ n + 1 <= wire[k].of
    <3>1. wire[k].of \in Nat
      BY StreamTypes DEF PieceOf
    <3>2. At(l + 1).of <= At(l + k).of
      BY <2>2 DEF StreamInv
    <3> QED BY <2>1, <2>2, <3>1, <3>2
  <2>4. 1 \in 1..Len(wire) /\ wire[1].of = n + 1
    <3>1. 1 \in 1..Len(wire)
      BY <1>1, <1>4
    <3> QED BY <2>1, <2>2, <3>1
  <2>5. CASE i <= n
    <3>1. \A k \in 1..Len(wire) : wire[k].of > i
      BY <1>1, <2>3, <2>5
    <3> QED BY <2>5, <3>1 DEF Received
  <2>6. CASE ~(i <= n)
    <3>1. ~(wire[1].of > i)
      BY <1>1, <2>4, <2>6
    <3> QED BY <2>4, <2>6, <3>1 DEF Received
  <2> QED BY <2>5, <2>6
<1> QED BY <1>3, <1>4

LEMMA ConversationAnswers ==
    ASSUME BasicInv, ConversationInv
    PROVE  AnsweredAsSent
<1> SUFFICES ASSUME Orderly, ~handling PROVE EachAnswered
  BY DEF AnsweredAsSent, Orderly
<1>1. PICK n \in 0..Len(sent) : StreamInv /\ Progress(n) /\ Replied(n)
  BY DEF ConversationInv
<1>2. ASSUME NEW i \in 1..Len(sent) PROVE Answered(i) <=> Received(i) /\ Due(i)
  <2>1. Received(i) <=> i <= n
    BY <1>1, AnsweredReceived
  <2>2. CASE i <= n
    <3>1. i \in 1..n
      BY <2>2, StreamTypes
    <3> QED BY <1>1, <2>1, <2>2, <3>1 DEF Replied
  <2>3. CASE ~(i <= n)
    <3>1. i \notin 0..n
      BY <2>3
    <3>2. ~Answered(i)
      BY <1>1, <3>1 DEF Replied, Answered
    <3> QED BY <2>1, <2>3, <3>2
  <2> QED BY <2>2, <2>3
<1> QED BY <1>1, <1>2 DEF EachAnswered, Replied

\* Whenever RTSP_handler has returned, exactly the requests received so far that are due an
\* answer were answered, each once and in their order, however they were pipelined and mixed
\* with interleaved frames, as long as the messages are well formed and no parser was called
\* with half a message (rtsp_state_machine.c:135-376).
THEOREM AnsweredAsSentSafe == Spec => []AnsweredAsSent
<1>1. BasicInv /\ ConversationInv => AnsweredAsSent
  BY ConversationAnswers
<1> QED BY <1>1, BasicSafe, ConversationSafe, PTL
=============================================================================
