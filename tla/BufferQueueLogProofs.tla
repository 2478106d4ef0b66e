------------------------ MODULE BufferQueueLogProofs ------------------------
(***************************************************************************)
(* The buffer queue implements the broadcast log, for any number of          *)
(* consumers: a queue with serials, seen counts and pointers never makes a   *)
(* consumer skip a buffer or meet one twice, and keeps exactly the buffers   *)
(* some registered consumer still has to take.                               *)
(*                                                                           *)
(* The mapping names the first buffer a consumer has not passed.  It is well *)
(* defined because the buffers a consumer has passed are a prefix of the     *)
(* queue, which needs the consecutive serials of BookkeepingInv.             *)
(***************************************************************************)
EXTENDS BufferQueueProofs

\* Consecutive serials order the buffers.
LEMMA SerialOrder ==
    ASSUME NEW next \in Nat, NEW n \in Nat, NEW p \in Nat, NEW q \in Nat
    PROVE  next - (n + 1 - q) < next - (n + 1 - p) <=> q < p
OBVIOUS

\* The least element of an interval, the way Cursor picks it.
LEMMA LeastOfInterval ==
    ASSUME NEW k \in Nat, NEW n \in Nat, k <= n + 1, NEW U,
           \A x : x \in U <=> x \in k..n
    PROVE  (IF U = {} THEN n + 1 ELSE CHOOSE p \in U : \A q \in U : p <= q) = k
<1>1. CASE k = n + 1
  <2>1. U = {}
    BY <1>1
  <2> QED BY <1>1, <2>1
<1>2. CASE k <= n
  <2>1. k \in U /\ \A q \in U : k <= q
    BY <1>2
  <2>2. \A p \in U : (\A q \in U : p <= q) => p = k
    BY <2>1
  <2>3. (CHOOSE p \in U : \A q \in U : p <= q) = k
    BY <2>1, <2>2
  <2> QED BY <2>1, <2>3
<1> QED BY <1>1, <1>2

\* A consumer that has passed exactly the buffers before k has its cursor at k.
LEMMA CursorIs ==
    ASSUME NEW c \in attached, NEW k \in Nat, first \in Nat, puts \in Nat,
           first <= k, k <= puts + 1, DOMAIN elem = first..puts,
           \A q \in first..puts : Passed(c, q) <=> q < k
    PROVE  Cursor(c) = k
<1> DEFINE U == {p \in DOMAIN elem : ~Passed(c, p)}
<1>1. \A x : x \in U <=> x \in k..puts
  OBVIOUS
<1> HIDE DEF U
<1>2. (IF U = {} THEN puts + 1 ELSE CHOOSE p \in U : \A q \in U : p <= q) = k
  BY <1>1, LeastOfInterval
<1> QED BY <1>2 DEF Cursor, U

\* The same of the state after a step.
LEMMA CursorBecomes ==
    ASSUME NEW c \in attached', NEW k \in Nat, first' \in Nat, puts' \in Nat,
           first' <= k, k <= puts' + 1, DOMAIN elem' = first'..puts',
           \A q \in first'..puts' : Passed(c, q)' <=> q < k
    PROVE  Cursor(c)' = k
<1>1. PICK n \in Nat : n = puts'
  OBVIOUS
<1>2. PICK U : U = {p \in DOMAIN elem' : ~Passed(c, p)'}
  OBVIOUS
<1>3. \A x : x \in U <=> x \in k..n
  BY <1>1, <1>2
<1>4. k <= n + 1
  BY <1>1
<1>5. (IF U = {} THEN n + 1 ELSE CHOOSE p \in U : \A q \in U : p <= q) = k
  BY <1>3, <1>4, LeastOfInterval
<1>6. Cursor(c)' = IF U = {} THEN n + 1 ELSE CHOOSE p \in U : \A q \in U : p <= q
  BY <1>1, <1>2 DEF Cursor
<1> QED BY <1>5, <1>6

\* The buffers an attached consumer has passed are those before its cursor.
LEMMA CursorPrefix ==
    ASSUME BookkeepingInv, fault = "none", NEW c \in attached
    PROVE  /\ Cursor(c) \in Nat /\ first <= Cursor(c) /\ Cursor(c) <= puts + 1
           /\ \A q \in first..puts : Passed(c, q) <=> q < Cursor(c)
<1>1. /\ DOMAIN elem = first..puts /\ puts \in Nat /\ first \in Nat /\ first <= puts + 1
      /\ NextSeq \in Nat
      /\ \A q \in first..puts : elem[q].seq_no = NextSeq - (puts + 1 - q)
  BY QueueFacts
<1>2. SUFFICES \E k \in Nat : /\ first <= k /\ k <= puts + 1
                              /\ \A q \in first..puts : Passed(c, q) <=> q < k
  BY <1>1, CursorIs
<1>3. CASE c_queue_serial[c] # queue_serial
  <2>1. \A q \in first..puts : Passed(c, q) <=> q < first
    BY <1>1, <1>3 DEF Passed
  <2> QED BY <1>1, <2>1
<1>4. CASE c_queue_serial[c] = queue_serial
  <2>1. last_serial[c] \in Nat /\ last_serial[c] < NextSeq /\ current[c] \in Nat
        /\ (current[c] # NULL => current[c] \in first..puts
                                 /\ elem[current[c]].seq_no = last_serial[c])
    BY <1>4, CursorFacts
  <2> DEFINE j == last_serial[c] + puts + 1 - NextSeq
             m == IF current[c] = NULL THEN j + 1 ELSE j
             k == IF m < first THEN first ELSE m
  <2>2. j \in Int /\ j <= puts /\ m \in Int /\ k \in Nat /\ first <= k /\ k <= puts + 1
    <3>1. j \in Int /\ j <= puts
      BY <1>1, <2>1
    <3>2. m \in Int /\ m <= puts + 1
      BY <1>1, <3>1
    <3> QED BY <1>1, <3>1, <3>2
  <2>3. ASSUME NEW q \in first..puts PROVE Passed(c, q) <=> q < k
    <3>1. elem[q].seq_no = NextSeq - (puts + 1 - q) /\ q \in Nat /\ first <= q
      BY <1>1
    <3>2. Passed(c, q) <=> \/ elem[q].seq_no < last_serial[c]
                           \/ elem[q].seq_no = last_serial[c] /\ current[c] = NULL
      BY <1>4 DEF Passed
    <3>3. (elem[q].seq_no < last_serial[c] <=> q < j)
          /\ (elem[q].seq_no = last_serial[c] <=> q = j)
      BY <1>1, <2>1, <3>1
    <3> HIDE DEF j
    <3>4. Passed(c, q) <=> q < m
      BY <2>2, <3>1, <3>2, <3>3
    <3> HIDE DEF m
    <3> QED BY <1>1, <2>2, <3>1, <3>4
  <2> QED BY <2>2, <2>3
<1> QED BY <1>3, <1>4

\* A consumer that passes nothing and loses nothing keeps its cursor.
LEMMA CursorKept ==
    ASSUME BookkeepingInv, fault = "none", NEW c \in attached, c \in attached',
           first' = first, puts' = puts, DOMAIN elem' = first..puts,
           \A q \in first..puts : Passed(c, q)' <=> Passed(c, q)
    PROVE  Cursor(c)' = Cursor(c)
<1>1. /\ Cursor(c) \in Nat /\ first <= Cursor(c) /\ Cursor(c) <= puts + 1
      /\ \A q \in first..puts : Passed(c, q) <=> q < Cursor(c)
  BY CursorPrefix
<1>2. puts \in Nat /\ first \in Nat
  BY QueueFacts
<1>3. PICK k \in Nat : k = Cursor(c)
  BY <1>1
<1> QED BY <1>1, <1>2, <1>3, CursorBecomes

(***************************************************************************)
(* The steps.  cursors abbreviates the function the mapping gives the log.   *)
(***************************************************************************)

cursors == [c \in Consumers |-> Cursor(c)]

\* bq_producer_new makes an empty log.
LEMMA LogInit == Init => Log!Init
<1> SUFFICES ASSUME Init PROVE Log!Init
  OBVIOUS
<1>1. \A c \in Consumers : Cursor(c) = 0
  BY DEF Init, Cursor
<1> QED BY <1>1 DEF Init, Log!Init

\* bq_producer_put appends: the number of the new buffer is above every number a
\* cursor remembers, so that nobody has passed it, even when the serial runs out.
LEMMA PutLog ==
    ASSUME NoWrap, BookkeepingInv, bq_producer_put
    PROVE  Log!Append
<1>1. /\ fault = "none" /\ puts' = puts + 1 /\ puts < MaxPuts
      /\ UNCHANGED <<first, queue_serial, c_queue_serial, current, last_serial, attached>>
  BY UnlockedFree DEF bq_producer_put, cursorVars
<1>2. /\ DOMAIN elem = first..puts /\ puts \in Nat /\ first \in Nat /\ first <= puts + 1
      /\ NextSeq \in Nat /\ attached \subseteq Consumers
  BY <1>1, QueueFacts
<1>3. elem' = [p \in first..(puts + 1) |->
                  IF p = puts + 1 THEN [seq_no |-> NextSeq, seen |-> 0] ELSE elem[p]]
  <2>1. /\ SerialModulus \in Nat /\ FirstLiveSeq \in Nat /\ MaxPuts \in Nat
        /\ Live \in BOOLEAN
    BY ConstantsAssumption
  <2>2. CASE Live
    <3>1. OfferedSeqNo = FirstLiveSeq + puts /\ OfferedSeqNo # 0
      BY <1>1, <1>2, <2>1, <2>2 DEF OfferedSeqNo, NoWrap
    <3> QED BY <2>2, <3>1 DEF bq_producer_put, NextSeq
  <2>3. CASE ~Live
    <3>1. OfferedSeqNo = 0
      BY <2>3 DEF OfferedSeqNo
    <3> QED BY <2>3, <3>1 DEF bq_producer_put, NextSeq
  <2> QED BY <2>2, <2>3
<1>4. /\ DOMAIN elem' = first..(puts + 1)
      /\ \A q \in first..puts : elem'[q] = elem[q]
      /\ elem'[puts + 1].seq_no = NextSeq
  BY <1>2, <1>3
<1>5. ASSUME NEW c \in attached PROVE Cursor(c)' = Cursor(c)
  <2>1. /\ Cursor(c) \in Nat /\ first <= Cursor(c) /\ Cursor(c) <= puts + 1
        /\ \A q \in first..puts : Passed(c, q) <=> q < Cursor(c)
    BY <1>1, CursorPrefix
  <2>2. PICK k \in Nat : k = Cursor(c)
    BY <2>1
  <2>3. \A q \in first..puts : Passed(c, q)' <=> q < k
    BY <1>1, <1>4, <2>1, <2>2 DEF Passed
  <2>4. PICK n \in Nat : n = puts + 1
    BY <1>2
  <2>5. ~Passed(c, n)'
    <3>1. c_queue_serial[c] = queue_serial =>
             last_serial[c] \in Nat /\ last_serial[c] < NextSeq
      BY <1>1, CursorFacts
    <3> QED BY <1>1, <1>2, <1>4, <2>4, <3>1 DEF Passed
  <2>6. \A q \in first'..puts' : Passed(c, q)' <=> q < k
    BY <1>1, <1>2, <2>1, <2>2, <2>3, <2>4, <2>5
  <2> QED BY <1>1, <1>2, <1>4, <2>1, <2>2, <2>6, CursorBecomes
<1>6. \A c \in Consumers : Cursor(c)' = Cursor(c)
  BY <1>1, <1>5 DEF Cursor
<1> QED BY <1>1, <1>6 DEF Log!Append

\* A queue that is replaced or freed is a discarded log (bufferqueue.c:278-318).
LEMMA EmptyLog ==
    ASSUME BookkeepingInv, fault = "none", elem' = [p \in (puts + 1)..puts |-> elem[p]],
           first' = puts + 1, UNCHANGED <<puts, attached>>
    PROVE  Log!Discard
<1>1. puts \in Nat /\ DOMAIN elem' = {}
  BY QueueFacts
<1>2. \A c \in Consumers : Cursor(c)' = IF c \in attached THEN puts + 1 ELSE 0
  BY <1>1 DEF Cursor
<1> QED BY <1>2 DEF Log!Discard

\* A new consumer starts at the head of the queue, whatever was there before it.
LEMMA NewLog ==
    ASSUME BookkeepingInv, NEW c \in Consumers, bq_consumer_new(c)
    PROVE  Log!Join(c)
<1>1. fault = "none"
  BY UnlockedFree DEF bq_consumer_new
<1>2. /\ c \notin attached /\ attached' = attached \cup {c}
      /\ UNCHANGED <<elem, first, puts, queue_serial>>
      /\ c_queue_serial' = [c_queue_serial EXCEPT ![c] = 0]
      /\ current' = [current EXCEPT ![c] = NULL]
      /\ last_serial' = [last_serial EXCEPT ![c] = 0]
  BY DEF bq_consumer_new
<1>3. /\ c_queue_serial \in [Consumers -> Nat] /\ current \in [Consumers -> 0..MaxPuts]
      /\ last_serial \in [Consumers -> Serial] /\ attached \subseteq Consumers
  BY DEF BookkeepingInv, TypeOK
<1>4. /\ DOMAIN elem = first..puts /\ puts \in Nat /\ first \in Nat /\ first <= puts + 1
      /\ queue_serial >= 1 /\ queue_serial \in Nat
  BY <1>1, QueueFacts
<1>5. Cursor(c)' = first
  <2>1. \A q \in first..puts : Passed(c, q)' <=> q < first
    BY <1>2, <1>3, <1>4 DEF Passed
  <2>2. PICK k \in Nat : k = first
    BY <1>4
  <2> QED BY <1>2, <1>4, <2>1, <2>2, CursorBecomes
<1>6. ASSUME NEW d \in attached PROVE Cursor(d)' = Cursor(d)
  <2>1. \A q \in first..puts : Passed(d, q)' <=> Passed(d, q)
    BY <1>2, <1>3 DEF Passed
  <2> QED BY <1>1, <1>2, <1>4, <2>1, CursorKept
<1>7. \A d \in Consumers : d # c => Cursor(d)' = Cursor(d)
  BY <1>2, <1>6 DEF Cursor
<1>8. cursors' = [cursors EXCEPT ![c] = first]
  BY <1>5, <1>7 DEF cursors
<1> QED BY <1>2, <1>8 DEF Log!Join, cursors

\* A consumer that leaves has moved past everything, and the others do not notice.
LEMMA LeaveLog ==
    ASSUME BookkeepingInv, NEW c \in Consumers, bq_decrement_seen_on_free(c)
    PROVE  Log!Leave(c)
<1>1. /\ fault = "none" /\ freeing[c] = "leaving" /\ attached' = attached \ {c}
      /\ elem' = [p \in DOMAIN elem |-> [elem[p] EXCEPT !.seen = @ - 1]]
      /\ UNCHANGED <<first, puts, queue_serial, c_queue_serial, current, last_serial>>
  BY DEF bq_decrement_seen_on_free, cursorVars
<1>2. c \in attached /\ \A q \in DOMAIN elem : Passed(c, q)
  BY <1>1 DEF BookkeepingInv, FreeExclusive
<1>3. DOMAIN elem = first..puts /\ puts \in Nat /\ first \in Nat /\ first <= puts + 1
  BY <1>1, QueueFacts
<1>4. DOMAIN elem' = first..puts /\ \A q \in first..puts : elem'[q].seq_no = elem[q].seq_no
  <2>1. elem \in [first..puts -> [seq_no : Serial, seen : Int]]
    BY DEF BookkeepingInv, TypeOK
  <2> QED BY <1>1, <2>1
<1>5. Cursor(c) = puts + 1 /\ Cursor(c)' = 0
  BY <1>1, <1>2 DEF Cursor
<1>6. ASSUME NEW d \in attached, d # c PROVE Cursor(d)' = Cursor(d)
  <2>1. \A q \in first..puts : Passed(d, q)' <=> Passed(d, q)
    BY <1>1, <1>4 DEF Passed
  <2> QED BY <1>1, <1>4, <1>6, <2>1, CursorKept
<1>7. \A d \in Consumers : d # c => Cursor(d)' = Cursor(d)
  BY <1>1, <1>6 DEF Cursor
<1>8. cursors' = [cursors EXCEPT ![c] = 0] /\ cursors[c] = puts + 1
  BY <1>5, <1>7 DEF cursors
<1> QED BY <1>1, <1>2, <1>8 DEF Log!Leave, cursors

\* Moving past the pointer takes the buffer; a buffer goes when the consumer was the
\* last to pass it, and then the head is where the slowest consumer is.
LEMMA AdvanceLog ==
    ASSUME BookkeepingInv, fault = "none", NEW c \in attached,
           bq_consumer_confirm_pointer(c) # NULL, bq_consumer_move_internal(c),
           UNCHANGED <<puts, consumers, attached>>, TypeOK'
    PROVE  Log!Take(c)
<1>1. /\ fault' = "none" /\ NothingLeaks'
      /\ \A d \in attached : d # c =>
            \A q \in DOMAIN elem' : Passed(d, q)' <=> Passed(d, q)
      /\ \A q \in DOMAIN elem' : Passed(c, q)' <=> Passed(c, q) \/ q = current[c]
      /\ \/ first' = first
         \/ /\ current[c] = first /\ first' = first + 1
            /\ \A d \in attached : d # c => Passed(d, first)
  BY AdvanceStep
<1>2. /\ DOMAIN elem = first..puts /\ puts \in Nat /\ first \in Nat /\ first <= puts + 1
      /\ attached \subseteq Consumers
      /\ \A q \in first..puts : elem[q].seq_no = NextSeq - (puts + 1 - q)
      /\ NextSeq \in Nat
  BY QueueFacts
<1>3. DOMAIN elem' = first'..puts /\ first' \in Nat /\ first' <= puts + 1
  BY <1>1, <1>2 DEF TypeOK
<1>4. PICK p \in Nat : p = current[c] /\ p \in first..puts /\ ~Passed(c, p)
                       /\ c_queue_serial[c] = queue_serial
                       /\ elem[p].seq_no = last_serial[c] /\ p # NULL
  BY <1>2, ConfirmedPointer
<1>5. Cursor(c) = p
  <2>1. \A q \in first..puts : Passed(c, q) <=> q < p
    <3> TAKE q \in first..puts
    <3>1. elem[q].seq_no = NextSeq - (puts + 1 - q) /\ q \in Nat
          /\ elem[p].seq_no = NextSeq - (puts + 1 - p)
      <4>1. p \in first..puts /\ q \in Nat
        BY <1>2, <1>4
      <4> QED BY <1>2, <4>1
    <3>2. Passed(c, q) <=> elem[q].seq_no < elem[p].seq_no
      BY <1>4 DEF Passed
    <3>3. NextSeq - (puts + 1 - q) < NextSeq - (puts + 1 - p) <=> q < p
      BY <1>2, <3>1, SerialOrder
    <3> QED BY <3>1, <3>2, <3>3
  <2>2. first <= p /\ p <= puts + 1
    BY <1>2, <1>4
  <2> QED BY <1>2, <2>1, <2>2, CursorIs
<1>6. \A q \in first..puts : Passed(c, q) <=> q < p
  BY <1>5, CursorPrefix
<1>7. Cursor(c)' = p + 1
  <2>1. PICK k \in Nat : k = p + 1
    OBVIOUS
  <2>2. \A q \in first'..puts' : Passed(c, q)' <=> q < k
    <3> TAKE q \in first'..puts'
    <3>1. q \in DOMAIN elem' /\ q \in first..puts /\ q \in Nat
      BY <1>1, <1>2, <1>3
    <3>2. Passed(c, q)' <=> Passed(c, q) \/ q = p
      BY <1>1, <1>4, <3>1
    <3>3. Passed(c, q) <=> q < p
      BY <1>6, <3>1
    <3> QED BY <2>1, <3>1, <3>2, <3>3
  <2>3. first' <= k /\ k <= puts' + 1
    BY <1>1, <1>2, <1>4, <2>1
  <2> QED BY <1>2, <1>3, <2>1, <2>2, <2>3, CursorBecomes
<1>8. ASSUME NEW d \in attached, d # c PROVE Cursor(d)' = Cursor(d)
  <2>1. /\ Cursor(d) \in Nat /\ first <= Cursor(d) /\ Cursor(d) <= puts + 1
        /\ \A q \in first..puts : Passed(d, q) <=> q < Cursor(d)
    BY CursorPrefix
  <2>2. PICK k \in Nat : k = Cursor(d)
    BY <2>1
  <2>3. first' <= k
    BY <1>1, <1>2, <1>4, <1>8, <2>1, <2>2
  <2>4. ASSUME NEW q \in first'..puts' PROVE Passed(d, q)' <=> q < k
    <3>1. q \in DOMAIN elem' /\ q \in first..puts
      BY <1>1, <1>2, <1>3
    <3>2. Passed(d, q)' <=> Passed(d, q)
      BY <1>1, <1>8, <3>1
    <3> QED BY <2>1, <2>2, <3>1, <3>2
  <2> QED BY <1>2, <1>3, <2>1, <2>2, <2>3, <2>4, CursorBecomes
<1>9. \A d \in Consumers : d # c => Cursor(d)' = Cursor(d)
  BY <1>8 DEF Cursor
<1>10. \A d \in attached : Cursor(d)' \in Nat /\ first' <= Cursor(d)'
  <2> TAKE d \in attached
  <2>1. CASE d = c
    BY <1>1, <1>2, <1>4, <1>7, <2>1
  <2>2. CASE d # c
    <3>1. /\ Cursor(d) \in Nat /\ first <= Cursor(d)
          /\ \A q \in first..puts : Passed(d, q) <=> q < Cursor(d)
      BY CursorPrefix
    <3>2. PICK k \in Nat : k = Cursor(d)
      BY <3>1
    <3>3. first' <= k
      BY <1>1, <1>2, <1>4, <2>2, <3>1, <3>2
    <3> QED BY <1>8, <2>2, <3>2, <3>3
  <2> QED BY <2>1, <2>2
<1>11. \E d \in attached : Cursor(d)' = first'
  <2>1. CASE first' = puts + 1
    BY <1>1, <1>2, <1>4, <1>7, <2>1
  <2>2. CASE first' <= puts
    <3>1. first' \in DOMAIN elem'
      BY <1>3, <2>2, <1>2
    <3>2. PICK h \in Nat : h = first'
      BY <1>3
    <3>3. PICK d \in attached : ~Passed(d, h)'
      BY <1>1, <3>1, <3>2 DEF NothingLeaks
    <3>4. CASE d = c
      <4>1. ~Passed(c, h) /\ h # p /\ h \in first..puts
        BY <1>1, <1>2, <1>3, <1>4, <3>1, <3>2, <3>3, <3>4
      <4>2. ~(h < p)
        BY <1>6, <4>1
      <4>3. h <= p + 1
        BY <1>1, <1>2, <1>4, <3>2
      <4>4. h = p + 1
        BY <4>1, <4>2, <4>3
      <4> QED BY <1>7, <3>2, <4>4
    <3>5. CASE d # c
      <4>1. /\ Cursor(d) \in Nat
            /\ \A q \in first..puts : Passed(d, q) <=> q < Cursor(d)
        BY CursorPrefix
      <4>2. ~Passed(d, h) /\ h \in first..puts
        BY <1>1, <1>2, <2>2, <3>1, <3>2, <3>3, <3>5
      <4>3. PICK k \in Nat : k = Cursor(d)
        BY <4>1
      <4>4. k <= h
        BY <4>1, <4>2, <4>3
      <4>5. h <= k
        BY <1>8, <1>10, <3>2, <3>5, <4>3
      <4> QED BY <1>8, <3>2, <3>5, <4>3, <4>4, <4>5
    <3> QED BY <3>4, <3>5
  <2> QED BY <1>2, <1>3, <2>1, <2>2
<1>12. /\ cursors' = [cursors EXCEPT ![c] = @ + 1] /\ cursors[c] = p
       /\ \A d \in attached : cursors'[d] = Cursor(d)'
  BY <1>2, <1>5, <1>7, <1>9 DEF cursors
<1>13. first' \in {cursors'[d] : d \in attached} /\ \A d \in attached : first' <= cursors'[d]
  BY <1>10, <1>11, <1>12
<1>14. cursors[c] <= puts
  BY <1>2, <1>4, <1>12
<1>15. UNCHANGED <<puts, attached>> /\ c \in attached
  OBVIOUS
<1> QED BY <1>12, <1>13, <1>14, <1>15 DEF Log!Take, cursors

\* Selecting a buffer is invisible in the log.
LEMMA SelectLog ==
    ASSUME BookkeepingInv, fault = "none", NEW c \in attached,
           bq_consumer_confirm_pointer(c) = NULL, bq_consumer_move_internal(c),
           UNCHANGED <<puts, attached>>
    PROVE  UNCHANGED Log!vars
<1>1. /\ UNCHANGED <<elem, first>>
      /\ \A d \in attached : \A q \in first..puts : Passed(d, q)' <=> Passed(d, q)
  BY SelectStep
<1>2. DOMAIN elem' = first..puts
  BY <1>1, QueueFacts
<1>3. \A d \in attached : Cursor(d)' = Cursor(d)
  BY <1>1, <1>2, CursorKept
<1>4. \A d \in Consumers : Cursor(d)' = Cursor(d)
  BY <1>3 DEF Cursor
<1> QED BY <1>1, <1>4 DEF Log!vars

\* So is a step that touches neither the queue nor a cursor.
LEMMA QuietLog ==
    ASSUME UNCHANGED <<elem, first, puts, queue_serial, attached, c_queue_serial,
                       current, last_serial>>
    PROVE  UNCHANGED Log!vars
<1>1. \A d \in Consumers : Cursor(d)' = Cursor(d)
  BY DEF Cursor, Passed
<1> QED BY <1>1 DEF Log!vars

\* Every operation of the queue is one operation of the log, or none.
LEMMA LogStep ==
    ASSUME NoWrap, BookkeepingInv, [Next]_vars
    PROVE  [Log!Next]_(Log!vars)
<1>0. TypeOK /\ TypeOK' /\ attached \subseteq Consumers
  BY TypeStep DEF BookkeepingInv, TypeOK
<1>1. CASE bq_producer_reset_queue
  <2>1. Log!Discard
    BY <1>1, EmptyLog, UnlockedFree DEF bq_producer_reset_queue,
       bq_producer_reset_queue_internal
  <2> QED BY <2>1 DEF Log!Next
<1>2. CASE bq_producer_put
  BY <1>2, PutLog DEF Log!Next
<1>3. CASE bq_producer_unref
  <2>1. Log!Discard
    BY <1>3, EmptyLog, UnlockedFree DEF bq_producer_unref
  <2> QED BY <2>1 DEF Log!Next
<1>4. ASSUME NEW c \in Consumers, bq_consumer_new(c) PROVE Log!Next
  BY <1>4, NewLog DEF Log!Next
<1>5. ASSUME NEW c \in Consumers, c \in attached, fault = "none",
             bq_consumer_move_internal(c), UNCHANGED <<puts, consumers, attached>>
      PROVE  [Log!Next]_(Log!vars)
  <2>1. CASE bq_consumer_confirm_pointer(c) = NULL
    BY <1>5, <2>1, SelectLog
  <2>2. CASE bq_consumer_confirm_pointer(c) # NULL
    <3>1. Log!Take(c)
      BY <1>0, <1>5, <2>2, AdvanceLog
    <3> QED BY <3>1 DEF Log!Next
  <2> QED BY <2>1, <2>2
<1>6. ASSUME NEW c \in Consumers, bq_consumer_move(c) PROVE [Log!Next]_(Log!vars)
  BY <1>5, <1>6, UnlockedFree DEF bq_consumer_move
<1>7. ASSUME NEW c \in Consumers, bq_consumer_get(c) PROVE [Log!Next]_(Log!vars)
  <2>1. CASE bq_consumer_confirm_pointer(c) = NULL
    BY <1>5, <1>7, <2>1, UnlockedFree DEF bq_consumer_get
  <2>2. CASE bq_consumer_confirm_pointer(c) # NULL
    BY <1>7, <2>2, QuietLog DEF bq_consumer_get, cursorVars
  <2> QED BY <2>1, <2>2
<1>8. ASSUME NEW c \in Consumers, bq_consumer_free(c) PROVE UNCHANGED Log!vars
  BY <1>8, QuietLog DEF bq_consumer_free, producerVars, cursorVars
<1>9. ASSUME NEW c \in Consumers, FreeMoveAll(c) PROVE [Log!Next]_(Log!vars)
  <2>1. fault = "none" /\ freeing[c] = "moving" /\ bq_consumer_move_internal(c)
        /\ UNCHANGED <<puts, consumers, attached>>
    BY <1>9 DEF FreeMoveAll
  <2>2. c \in attached
    BY <2>1 DEF BookkeepingInv, FreeExclusive
  <2> QED BY <1>5, <2>1, <2>2
<1>10. ASSUME NEW c \in Consumers, bq_decrement_seen_on_free(c) PROVE Log!Next
  BY <1>10, LeaveLog DEF Log!Next
<1>11. CASE UNCHANGED vars
  BY <1>11, QuietLog DEF vars, producerVars, cursorVars
<1> QED BY <1>1, <1>2, <1>3, <1>4, <1>6, <1>7, <1>8, <1>9, <1>10, <1>11 DEF Next

\* The buffer queue implements the broadcast log, for any number of clients, any
\* number of buffers of a stored source and any order of the calls of bufferqueue.c;
\* for a live source as long as its numbers have not wrapped.
THEOREM QueueImplementsLog == ASSUME NoWrap PROVE Spec => ImplementsLog
<1>1. Init => Log!Init
  BY LogInit
<1>2. BookkeepingInv /\ [Next]_vars => [Log!Next]_(Log!vars)
  BY LogStep
<1> QED BY <1>1, <1>2, BookkeepingSafe, PTL DEF Spec, ImplementsLog, Log!Spec

(***************************************************************************)
(* What the user of a queue may rely on, call by call.                       *)
(***************************************************************************)

\* What waits for a consumer is what its cursor has not reached.
LEMMA WaitingIs ==
    ASSUME BookkeepingInv, fault = "none", NEW c \in attached
    PROVE  Waiting(c) = puts + 1 - Cursor(c)
<1>1. /\ Cursor(c) \in Nat /\ first <= Cursor(c) /\ Cursor(c) <= puts + 1
      /\ \A q \in first..puts : Passed(c, q) <=> q < Cursor(c)
  BY CursorPrefix
<1>2. DOMAIN elem = first..puts /\ puts \in Nat /\ first \in Nat
  BY QueueFacts
<1>3. PICK k \in Nat : k = Cursor(c)
  BY <1>1
<1>4. {p \in DOMAIN elem : ~Passed(c, p)} = k..puts
  BY <1>1, <1>2, <1>3
<1>5. Cardinality(k..puts) = IF k > puts THEN 0 ELSE puts - k + 1
  BY <1>2, FS_Interval
<1>6. Waiting(c) = Cardinality(k..puts)
  BY <1>4 DEF Waiting
<1> QED BY <1>1, <1>2, <1>3, <1>5, <1>6

\* A confirmed pointer is the cursor.
LEMMA PointerIsCursor ==
    ASSUME BookkeepingInv, fault = "none", NEW c \in attached,
           bq_consumer_confirm_pointer(c) # NULL
    PROVE  Cursor(c) = current[c]
<1>1. /\ DOMAIN elem = first..puts /\ puts \in Nat /\ first \in Nat /\ first <= puts + 1
      /\ \A q \in first..puts : elem[q].seq_no = NextSeq - (puts + 1 - q)
      /\ NextSeq \in Nat
  BY QueueFacts
<1>2. PICK p \in Nat : p = current[c] /\ p \in first..puts
                       /\ c_queue_serial[c] = queue_serial
                       /\ elem[p].seq_no = last_serial[c] /\ p # NULL
  BY <1>1, ConfirmedPointer
<1>3. \A q \in first..puts : Passed(c, q) <=> q < p
  <2> TAKE q \in first..puts
  <2>1. elem[q].seq_no = NextSeq - (puts + 1 - q) /\ q \in Nat
        /\ elem[p].seq_no = NextSeq - (puts + 1 - p)
    BY <1>1, <1>2
  <2>2. Passed(c, q) <=> elem[q].seq_no < elem[p].seq_no
    BY <1>2 DEF Passed
  <2>3. NextSeq - (puts + 1 - q) < NextSeq - (puts + 1 - p) <=> q < p
    BY <1>1, <2>1, SerialOrder
  <2> QED BY <2>1, <2>2, <2>3
<1>4. first <= p /\ p <= puts + 1
  BY <1>1, <1>2
<1> QED BY <1>1, <1>2, <1>3, <1>4, CursorIs

\* A cursor belongs to the queue it is over.
LEMMA CursorRange ==
    ASSUME BookkeepingInv, fault = "none", NEW c \in attached
    PROVE  /\ Cursor(c) \in Nat /\ first <= Cursor(c) /\ Cursor(c) <= puts + 1
           /\ first \in Nat /\ puts \in Nat /\ DOMAIN elem = first..puts
BY CursorPrefix, QueueFacts

\* Nobody's cursor moves when a buffer is put,
LEMMA PutKeepsCursors ==
    ASSUME NoWrap, BookkeepingInv, bq_producer_put, NEW c \in attached, attached \subseteq Consumers
    PROVE  Cursor(c)' = Cursor(c)
<1>1. cursors' = cursors
  BY PutLog DEF Log!Append, cursors
<1> QED BY <1>1 DEF cursors

\* when another consumer joins,
LEMMA JoinKeepsCursors ==
    ASSUME BookkeepingInv, NEW s \in Consumers, bq_consumer_new(s), NEW c \in attached
    PROVE  Cursor(c)' = Cursor(c)
<1>1. /\ cursors' = [cursors EXCEPT ![s] = first] /\ s \notin attached
      /\ attached \subseteq Consumers
  BY NewLog DEF Log!Join, cursors, BookkeepingInv, TypeOK
<1> QED BY <1>1 DEF cursors

\* or when a consumer asks for its buffer, which has been selected then.
LEMMA GetKeepsCursors ==
    ASSUME BookkeepingInv, NEW s \in Consumers, bq_consumer_get(s), NEW c \in attached
    PROVE  Cursor(c)' = Cursor(c)
<1>1. s \in attached /\ fault = "none" /\ UNCHANGED <<puts, attached>> /\ attached \subseteq Consumers
  BY UnlockedFree DEF bq_consumer_get, BookkeepingInv, TypeOK
<1>2. CASE bq_consumer_confirm_pointer(s) = NULL
  <2>1. UNCHANGED Log!vars
    BY <1>1, <1>2, SelectLog DEF bq_consumer_get
  <2>2. cursors' = cursors
    BY <2>1 DEF Log!vars, cursors
  <2> QED BY <1>1, <2>2 DEF cursors
<1>3. CASE bq_consumer_confirm_pointer(s) # NULL
  <2>1. UNCHANGED <<elem, first, puts, queue_serial, attached, c_queue_serial, current,
                    last_serial>>
    BY <1>1, <1>3 DEF bq_consumer_get, cursorVars
  <2> QED BY <2>1 DEF Cursor, Passed
<1> QED BY <1>2, <1>3

\* A move past the selected buffer takes exactly this one.
LEMMA MoveTakesOne ==
    ASSUME BookkeepingInv, NEW s \in Consumers, bq_consumer_move(s),
           bq_consumer_confirm_pointer(s) # NULL, TypeOK'
    PROVE  /\ s \in attached /\ fault = "none"
           /\ Cursor(s) = current[s] /\ Cursor(s)' = Cursor(s) + 1
           /\ \A c \in attached : c # s => Cursor(c)' = Cursor(c)
<1>1. s \in attached /\ fault = "none" /\ UNCHANGED <<puts, consumers, attached>>
      /\ attached \subseteq Consumers /\ bq_consumer_move_internal(s)
  BY UnlockedFree DEF bq_consumer_move, BookkeepingInv, TypeOK
<1>2. cursors' = [cursors EXCEPT ![s] = @ + 1]
  BY <1>1, AdvanceLog DEF Log!Take, cursors
<1> QED BY <1>1, <1>2, PointerIsCursor DEF cursors

\* A move, also one on the way out, takes at most one.
LEMMA MoveKeepsOrder ==
    ASSUME BookkeepingInv, fault = "none", NEW s \in Consumers, s \in attached,
           bq_consumer_move_internal(s), UNCHANGED <<puts, consumers, attached>>, TypeOK',
           NEW c \in attached
    PROVE  Cursor(c)' \in {Cursor(c), Cursor(c) + 1}
<1>0. attached \subseteq Consumers
  BY DEF BookkeepingInv, TypeOK
<1>1. CASE bq_consumer_confirm_pointer(s) = NULL
  <2>1. UNCHANGED Log!vars
    BY <1>1, SelectLog
  <2>2. cursors' = cursors
    BY <2>1 DEF Log!vars, cursors
  <2> QED BY <1>0, <2>2 DEF cursors
<1>2. CASE bq_consumer_confirm_pointer(s) # NULL
  <2>1. cursors' = [cursors EXCEPT ![s] = @ + 1]
    BY <1>2, AdvanceLog DEF Log!Take, cursors
  <2> QED BY <1>0, <2>1 DEF cursors
<1> QED BY <1>1, <1>2

\* Every consumer of a queue that is reset waits for the next buffer.
LEMMA ResetCursors ==
    ASSUME BookkeepingInv, bq_producer_reset_queue, NEW c \in attached
    PROVE  Cursor(c)' = puts + 1
<1>1. DOMAIN elem' = {} /\ UNCHANGED <<puts, attached>>
  <2>1. puts \in Nat
    BY ConstantsAssumption DEF BookkeepingInv, TypeOK
  <2> QED BY <2>1 DEF bq_producer_reset_queue, bq_producer_reset_queue_internal
<1> QED BY <1>1 DEF Cursor
=============================================================================
