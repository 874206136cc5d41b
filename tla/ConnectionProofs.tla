-------------------------- MODULE ConnectionProofs --------------------------
(***************************************************************************)
(* Theorems about Connection: the framing of the byte stream, the order of *)
(* the answers and the program's ends, for every size of a message, any    *)
(* number of messages and clients, and every way TCP cuts the stream.      *)
(***************************************************************************)
EXTENDS Connection, SequenceLemmas

-----------------------------------------------------------------------------
(* Where the server is in the stream. *)

\* The message that is read, or that comes next.
Current == Len(handled) + 1
Size(m) == HeaderCells + Body(sent[m])

Reading == server \in {"header", "body", "receiving", "handle", "respond"}
InBody == server = "body" \/ (server = "receiving" /\ for = "body")

\* The cells of the current message the server has taken from the stream.
Have == IF InBody THEN HeaderCells + Len(buffer)
        ELSE IF server = "handle" THEN Size(Current) ELSE 0

\* ahead[m] is the number of cells in front of message m on the wire, negative
\* once the server has begun to read it.  Only a client that failed has not
\* sent the last message whole.
Wire(ahead) ==
  /\ ahead[Current] + Have = 0
  /\ \A m, n \in 1 .. Len(sent) + 1 : m <= n => ahead[m] <= ahead[n]
  /\ \A m \in 1 .. Len(sent) :
       /\ ahead[m + 1] = ahead[m] + Size(m)
       /\ \A p \in 1 .. Size(m) :
            ahead[m] + p \in 1 .. Len(stream) =>
              stream[ahead[m] + p] = Cells(sent[m], m)[p]
  /\ Len(stream) <= ahead[Len(sent) + 1]
  /\ peer = "open" \/ ~blame => Len(stream) = ahead[Len(sent) + 1]

WireInv ==
  /\ peer = "reset" => stream = <<>> /\ blame
  /\ Reading => peer # "none"
  /\ Reading /\ peer # "reset" => \E ahead \in [Nat -> Int] : Wire(ahead)

\* What receive_buffer holds: the beginning of the body of the current
\* message, all of it when handle_message is called, and still while the
\* message is answered.
BufferInv ==
  /\ InBody \/ server = "handle" =>
       /\ Current <= Len(sent) /\ length = Body(sent[Current])
       /\ \A k \in 1 .. Len(buffer) :
            buffer[k] = Cells(sent[Current], Current)[HeaderCells + k]
  /\ InBody => Len(buffer) < length
  /\ server = "handle" => Len(buffer) = length
  /\ server = "respond" =>
       /\ handled # <<>> /\ buffer = handled[Len(handled)] /\ length = Len(buffer)
       /\ sent[Len(handled)].kind \notin Unanswered

\* Whose fault it is.
BlameInv ==
  /\ \A k \in 1 .. Len(sent) : sent[k].kind \in Garbage => blame
  /\ StopsForCause

\* What the program holds: the calls succeed one after the other.
HeldInv ==
  /\ \A k \in 1 .. Len(SetUp) : server = SetUp[k] => held = {Gain(j) : j \in 1 .. k - 1}
  /\ server # "ended" /\ held \cap {"tcp", "configuration"} # {} => "child" \in held
  /\ server = "wait_address" => "child" \in held
  /\ CleanedUp

\* The types the steps above rely on.
TypeInv ==
  /\ stream \in Seq(Parts) /\ buffer \in Seq(Parts)
  /\ sent \in Seq(Message) /\ Len(sent) <= MaxMessages
  /\ handled \in Seq(Seq(Parts)) /\ length \in 0 .. Capacity + 1
  /\ peer \in {"none", "open", "closed", "reset"}
  /\ clients \in 0 .. MaxClients /\ blame \in BOOLEAN /\ lost \in BOOLEAN
  /\ server \in {SetUp[k] : k \in 1 .. Len(SetUp)}
       \cup {"wait_address", "listen", "header", "body", "receiving", "handle",
             "respond", "stopped", "ended", "rebooted", "stray"}
  /\ held \subseteq {Gain(k) : k \in 1 .. Len(SetUp)}
  /\ for \in {"header", "body"}
  /\ i \in Nat \ {0} /\ tx_events \in Nat
  /\ replies \in Seq([to : 1 .. MaxMessages, last : BOOLEAN])
  /\ rx_events \in {0, 1} /\ RxEventsClosed

\* What has been answered: every message handled so far or, within the loop of
\* handle_multi_ping, the last of them in part.
Answers(n) == FlattenSeq([k \in 1 .. n |-> Promised(k)])
AnswerInv ==
  ~lost => IF server = "respond"
             THEN LET h == Len(handled) IN
                  /\ i \in 1 .. Len(Promised(h))
                  /\ replies = Answers(h - 1) \o SubSeq(Promised(h), 1, i - 1)
             ELSE replies = Answers(Len(handled))

-----------------------------------------------------------------------------
(* Messages and cells. *)

USE ConnectionBounds

\* Only the empty message has no body.
LEMMA BodySize ==
  ASSUME NEW m \in Message
  PROVE  /\ Body(m) \in 0 .. Capacity + 1
         /\ Body(m) = 0 <=> m.kind = "empty"
  BY DEF Body, Message, Oversized, Overlong

\* handle_message goes on to an answer exactly for the messages that get one.
LEMMA HandleGoes ==
  ASSUME Handle
  PROVE  /\ server' \in {"stopped", "header", "respond", "stray"}
         /\ server' = "respond" <=> Received.kind \notin Unanswered
         /\ server' = "stopped" => Received.kind \in Garbage
  BY DEF Handle, Unanswered, Garbage, Silent, Oversized

\* A message on the wire.
LEMMA CellsOf ==
  ASSUME NEW m \in Message, NEW n \in 1 .. MaxMessages
  PROVE  /\ Cells(m, n) \in Seq(Parts)
         /\ Len(Cells(m, n)) = HeaderCells + Body(m)
         /\ \A p \in 1 .. HeaderCells + Body(m) : Cells(m, n)[p].message = n
<1> DEFINE size == HeaderCells + Body(m)
           cell(k) == [message |-> n,
                       part |-> IF k <= HeaderCells THEN "header" ELSE "body",
                       at |-> IF k <= HeaderCells THEN k ELSE k - HeaderCells]
<1>1. size \in Nat /\ Body(m) \in 0 .. Capacity + 1
  BY BodySize
<1>2. \A k \in 1 .. size : cell(k) \in Parts
  BY <1>1 DEF Parts
<1>3. Cells(m, n) = [k \in 1 .. size |-> cell(k)]
  BY DEF Cells
<1> HIDE DEF cell, size
<1>4. [k \in 1 .. size |-> cell(k)] \in Seq(Parts)
  BY <1>1, <1>2
<1>5. \A k \in 1 .. size : cell(k).message = n
  BY DEF cell
<1> QED
  BY <1>1, <1>3, <1>4, <1>5 DEF size

\* What was sent has its size.
LEMMA SentSize ==
  ASSUME TypeInv, NEW m \in 1 .. Len(sent)
  PROVE  /\ sent[m] \in Message /\ m \in 1 .. MaxMessages
         /\ Body(sent[m]) \in 0 .. Capacity + 1
         /\ Size(m) \in Nat /\ Size(m) = HeaderCells + Body(sent[m])
<1>1. sent[m] \in Message /\ m \in 1 .. MaxMessages
  BY DEF TypeInv
<1> QED
  BY <1>1, BodySize DEF Size

\* All lengths are numbers.
LEMMA Lengths ==
  ASSUME TypeInv
  PROVE  /\ Len(sent) \in Nat /\ Len(stream) \in Nat /\ Len(buffer) \in Nat
         /\ Len(handled) \in Nat /\ length \in Nat /\ Current \in Nat \ {0}
  BY DEF TypeInv, Current

\* What the client sends next leaves what it has sent as it is.
LEMMA SentKept ==
  ASSUME TypeInv, NEW m \in Message, sent' = Append(sent, m)
  PROVE  /\ sent' \in Seq(Message) /\ Len(sent') = Len(sent) + 1
         /\ \A k \in 1 .. Len(sent) : sent'[k] = sent[k]
         /\ sent'[Len(sent')] = m
  BY DEF TypeInv

-----------------------------------------------------------------------------
(* The steps of the client and of the network, and where they may lead. *)

Sends == \E m \in Message : ClientSends(m) \/ ClientDies(m)

\* The client adds the beginning of a message, or the whole of it.
LEMMA SendsCells ==
  ASSUME TypeInv, Sends
  PROVE  \E m \in Message : \E n \in 1 .. HeaderCells + Body(m) :
           /\ peer = "open" /\ Len(sent) < MaxMessages
           /\ sent' = Append(sent, m)
           /\ stream' = stream \o SubSeq(Cells(m, Len(sent) + 1), 1, n)
           /\ blame' = (blame \/ m.kind \in Garbage \/ peer' = "closed")
           /\ peer' \in {"open", "closed"}
           /\ n = HeaderCells + Body(m) \/ (peer' = "closed" /\ blame')
           /\ UNCHANGED <<clients, Unmoved>>
<1>1. PICK m \in Message : ClientSends(m) \/ ClientDies(m)
  BY DEF Sends
<1>2. Len(sent) + 1 \in 1 .. MaxMessages /\ Len(sent') = Len(sent) + 1
  BY <1>1 DEF ClientSends, ClientDies, ClientMay, TypeInv
<1>3. /\ Cells(m, Len(sent) + 1) \in Seq(Parts)
      /\ Len(Cells(m, Len(sent) + 1)) = HeaderCells + Body(m)
      /\ Body(m) \in Nat
  BY <1>2, CellsOf, BodySize
<1>4. CASE ClientSends(m)
  <2>1. SubSeq(Cells(m, Len(sent) + 1), 1, HeaderCells + Body(m)) = Cells(m, Len(sent) + 1)
    BY <1>3, SubSeqFull
  <2>2. HeaderCells + Body(m) \in 1 .. HeaderCells + Body(m)
    BY <1>3
  <2> QED
    BY <1>2, <1>4, <2>1, <2>2 DEF ClientSends, ClientMay
<1>5. CASE ClientDies(m)
  <2>1. PICK n \in 1 .. HeaderCells + Body(m) - 1 :
          stream' = stream \o SubSeq(Cells(m, Len(sent')), 1, n)
    BY <1>5 DEF ClientDies
  <2>2. n \in 1 .. HeaderCells + Body(m)
    BY <1>3, <2>1
  <2> QED
    BY <1>2, <1>5, <2>1, <2>2 DEF ClientDies, ClientMay
<1> QED
  BY <1>1, <1>4, <1>5

-----------------------------------------------------------------------------
(* What TCP delivers. *)

\* A chunk holds the cells of the current message that come next.
LEMMA ChunkIs ==
  ASSUME TypeInv, Framed, WireInv, BufferInv, server = "receiving",
         NEW n \in 1 .. Missing, n <= Len(stream)
  PROVE  /\ peer # "reset" /\ Current \in 1 .. Len(sent)
         /\ Have + n <= Size(Current)
         /\ Chunk(n) \in Seq(Parts) /\ Len(Chunk(n)) = n
         /\ \A k \in 1 .. n : Chunk(n)[k] = Cells(sent[Current], Current)[Have + k]
         /\ SubSeq(stream, n + 1, Len(stream)) \in Seq(Parts)
         /\ Len(SubSeq(stream, n + 1, Len(stream))) = Len(stream) - n
         /\ \A k \in 1 .. Len(stream) - n :
              SubSeq(stream, n + 1, Len(stream))[k] = stream[k + n]
<1>1. n \in Nat /\ 1 <= n /\ n <= Missing /\ Missing \in Int
  BY DEF Missing, TypeInv
<1>2. Reading /\ peer # "reset"
  BY <1>1 DEF WireInv, Reading, TypeInv
<1>3. PICK ahead \in [Nat -> Int] : Wire(ahead)
  BY <1>2 DEF WireInv
<1>4. Current \in Nat \ {0} /\ Len(sent) \in Nat /\ ahead[Current] + Have = 0
  <2>1. Current \in Nat \ {0} /\ Len(sent) \in Nat
    BY DEF Current, TypeInv
  <2>2. ahead[Current] + Have = 0
    BY <1>3 DEF Wire
  <2> QED
    BY <2>1, <2>2
<1>5. Have \in Nat /\ Have = IF for = "body" THEN HeaderCells + Len(buffer) ELSE 0
  BY DEF Have, InBody, TypeInv
<1>6. Current <= Len(sent)
  <2>1. CASE for = "body"
    BY <2>1 DEF BufferInv, InBody
  <2>2. CASE for # "body"
    <3>1. ahead[Current] = 0
      BY <1>3, <1>4, <1>5, <2>2
    <3>2. Len(stream) <= ahead[Len(sent) + 1]
      BY <1>3 DEF Wire
    <3>3. Current <= Len(sent) + 1
      BY DEF Framed, Current, TypeInv
    <3>4. Len(stream) \in Nat
      BY DEF TypeInv
    <3>5. ahead[Len(sent) + 1] \in Int
      BY <1>3, <1>4
    <3>6. ASSUME Current = Len(sent) + 1 PROVE FALSE
      BY <1>1, <3>1, <3>2, <3>4, <3>6
    <3> QED
      BY <1>4, <3>3, <3>6
  <2> QED
    BY <2>1, <2>2
<1>7. /\ Size(Current) = HeaderCells + Body(sent[Current]) /\ Size(Current) \in Nat
      /\ Body(sent[Current]) \in Nat
  BY <1>4, <1>6, SentSize
<1>8. Have + n <= Size(Current)
  <2>1. CASE for = "body"
    <3>1. length = Body(sent[Current]) /\ Missing = length - Len(buffer)
      BY <2>1 DEF BufferInv, InBody, Missing
    <3> QED
      BY <1>1, <1>5, <1>7, <2>1, <3>1 DEF TypeInv
  <2>2. CASE for # "body"
    BY <1>1, <1>5, <1>7, <2>2 DEF Missing, TypeInv
  <2> QED
    BY <2>1, <2>2
<1>9. /\ Chunk(n) \in Seq(Parts) /\ Len(Chunk(n)) = n
      /\ \A k \in 1 .. n : Chunk(n)[k] = stream[k]
  BY <1>1 DEF Chunk, TypeInv
<1>10. /\ SubSeq(stream, n + 1, Len(stream)) \in Seq(Parts)
       /\ Len(SubSeq(stream, n + 1, Len(stream))) = Len(stream) - n
       /\ \A k \in 1 .. Len(stream) - n :
            SubSeq(stream, n + 1, Len(stream))[k] = stream[k + n]
  BY <1>1 DEF TypeInv
<1>11. ASSUME NEW k \in 1 .. n PROVE stream[k] = Cells(sent[Current], Current)[Have + k]
  <2>1. Have + k \in 1 .. Size(Current) /\ ahead[Current] + (Have + k) = k
    <3>1. ahead[Current] \in Int /\ k \in Nat /\ 1 <= k /\ k <= n
      BY <1>1, <1>3, <1>4
    <3>2. Have \in Nat
      BY <1>5, <1>1 DEF TypeInv
    <3>3. n \in Nat /\ Size(Current) \in Nat /\ Have + n <= Size(Current)
      BY <1>1, <1>7, <1>8
    <3>4. Have + k \in 1 .. Size(Current)
      BY <3>1, <3>2, <3>3
    <3>5. ahead[Current] + Have = 0
      BY <1>4
    <3>6. ahead[Current] + (Have + k) = k
      BY <1>4, <3>1, <3>2, <3>5
    <3> QED
      BY <3>4, <3>6
  <2>2. k \in 1 .. Len(stream)
    BY <1>1 DEF TypeInv
  <2>3. Current \in 1 .. Len(sent)
    BY <1>4, <1>6
  <2>4. \A p \in 1 .. Size(Current) :
          ahead[Current] + p \in 1 .. Len(stream) =>
            stream[ahead[Current] + p] = Cells(sent[Current], Current)[p]
    BY <1>3, <2>3 DEF Wire
  <2> QED
    BY <2>1, <2>2, <2>4
<1>12. Current \in 1 .. Len(sent)
  BY <1>4, <1>6
<1>13. \A k \in 1 .. n : Chunk(n)[k] = Cells(sent[Current], Current)[Have + k]
  BY <1>9, <1>11, Zenon
<1> QED
  BY <1>2, <1>8, <1>9, <1>10, <1>12, <1>13, Zenon

-----------------------------------------------------------------------------
(* Types. *)

IInv == TypeInv /\ Framed /\ WireInv /\ BufferInv /\ BlameInv /\ HeldInv

\* What the program does not touch while a client sends or leaves.
LEMMA ClientTypes ==
  ASSUME TypeInv, Client
  PROVE  TypeInv'
<1>1. CASE Sends
  <2>1. PICK m \in Message : \E n \in 1 .. HeaderCells + Body(m) :
           /\ peer = "open" /\ Len(sent) < MaxMessages
           /\ sent' = Append(sent, m)
           /\ stream' = stream \o SubSeq(Cells(m, Len(sent) + 1), 1, n)
           /\ blame' = (blame \/ m.kind \in Garbage \/ peer' = "closed")
           /\ peer' \in {"open", "closed"}
           /\ UNCHANGED <<clients, Unmoved>>
    BY <1>1, SendsCells
  <2>2. PICK n \in 1 .. HeaderCells + Body(m) :
           stream' = stream \o SubSeq(Cells(m, Len(sent) + 1), 1, n)
    BY <2>1
  <2>3. Len(sent) + 1 \in 1 .. MaxMessages
    BY <2>1 DEF TypeInv
  <2>4. Cells(m, Len(sent) + 1) \in Seq(Parts) /\ n <= Len(Cells(m, Len(sent) + 1))
    BY <2>3, CellsOf, BodySize
  <2>5. SubSeq(Cells(m, Len(sent) + 1), 1, n) \in Seq(Parts)
    BY <2>4, BodySize
  <2>6. stream' \in Seq(Parts)
    BY <2>2, <2>5 DEF TypeInv
  <2>7. sent' \in Seq(Message) /\ Len(sent') <= MaxMessages
    BY <2>1, <2>3, SentKept
  <2>8. blame' \in BOOLEAN
    BY <2>1 DEF TypeInv
  <2> QED
    BY <2>1, <2>6, <2>7, <2>8 DEF TypeInv, Unmoved, RxEventsClosed
<1>2. CASE ClientCloses
  BY <1>2 DEF TypeInv, ClientCloses, Unmoved, RxEventsClosed
<1>3. CASE ConnectionReset
  BY <1>3 DEF TypeInv, ConnectionReset, Unmoved, RxEventsClosed
<1> QED
  BY <1>1, <1>2, <1>3 DEF Client, Sends

\* receive_messages.
LEMMA ReceiveTypes ==
  ASSUME IInv, Receive \/ NoRxEvent \/ ChunkArrives \/ PeerClosed \/ ReceiveFails
  PROVE  TypeInv'
<1>1. CASE Receive
  BY <1>1 DEF IInv, TypeInv, Receive, client, RxEventsClosed
<1>2. CASE NoRxEvent
  BY <1>2 DEF IInv, TypeInv, NoRxEvent, client, RxEventsClosed
<1>3. CASE PeerClosed
  BY <1>3 DEF IInv, TypeInv, PeerClosed, CloseRxEvent, client, RxEventsClosed
<1>4. CASE ReceiveFails
  BY <1>4 DEF IInv, TypeInv, ReceiveFails, CloseRxEvent, client, RxEventsClosed
<1>5. CASE ChunkArrives
  <2>1. PICK n \in 1 .. Missing :
          /\ n <= Len(stream) /\ stream' = SubSeq(stream, n + 1, Len(stream))
          /\ HeaderArrives(n) \/ BodyArrives(n)
    BY <1>5 DEF ChunkArrives
  <2>2. /\ Current \in 1 .. Len(sent)
        /\ Chunk(n) \in Seq(Parts) /\ Len(Chunk(n)) = n
        /\ \A k \in 1 .. n : Chunk(n)[k] = Cells(sent[Current], Current)[Have + k]
        /\ SubSeq(stream, n + 1, Len(stream)) \in Seq(Parts)
    BY <1>5, <2>1, ChunkIs DEF IInv, ChunkArrives
  <2>3. rx_events = 1 /\ rx_events' = 0
    BY <1>5 DEF IInv, TypeInv, ChunkArrives, CloseRxEvent, RxEventsClosed
  <2>4. /\ length' \in 0 .. Capacity + 1 /\ buffer' \in Seq(Parts)
        /\ server' \in {"header", "body", "handle", "stopped", "stray"}
        /\ blame' \in BOOLEAN
    <3>1. CASE HeaderArrives(n) /\ n = HeaderCells
      <4>1. Have = 0 /\ 1 \in 1 .. n /\ 1 \in 1 .. Size(Current)
        BY <1>5, <2>2, <3>1, SentSize DEF IInv, Have, InBody, HeaderArrives, ChunkArrives
      <4>2. Chunk(n)[1] = Cells(sent[Current], Current)[1]
        BY <2>2, <4>1
      <4>3. Chunk(n)[1].message = Current
        BY <2>2, <4>1, <4>2, SentSize, CellsOf DEF IInv
      <4> QED
        BY <2>2, <3>1, <4>3, SentSize DEF HeaderArrives, IInv, TypeInv
    <3>2. CASE HeaderArrives(n) /\ n # HeaderCells
      BY <3>2 DEF HeaderArrives, IInv, TypeInv
    <3>3. CASE BodyArrives(n)
      BY <2>2, <3>3 DEF BodyArrives, IInv, TypeInv
    <3> QED
      BY <2>1, <3>1, <3>2, <3>3
  <2> QED
    BY <1>5, <2>1, <2>2, <2>3, <2>4 DEF ChunkArrives, IInv, TypeInv, RxEventsClosed
<1> QED
  BY <1>1, <1>2, <1>3, <1>4, <1>5

\* handle_message and the answers.
LEMMA HandleTypes ==
  ASSUME IInv, Handle \/ Transmit \/ TransmitFails
  PROVE  TypeInv'
<1>1. CASE Handle
  <2>1. server' \in {"stopped", "header", "respond", "stray"}
    BY <1>1, HandleGoes
  <2> QED
    BY <1>1, <2>1 DEF Handle, IInv, TypeInv, client, RxEventsClosed
<1>2. AfterSending(TRUE) \in {"rebooted", "respond", "header"}
  BY DEF AfterSending
<1>3. AfterSending(FALSE) \in {"rebooted", "respond", "header"}
  BY DEF AfterSending
<1>4. CASE Transmit
  <2>1. Len(handled) \in 1 .. MaxMessages
    BY <1>4 DEF Transmit, IInv, BufferInv, Framed, TypeInv
  <2>2. IsLast \in BOOLEAN
    BY DEF IsLast
  <2>3. replies' \in Seq([to : 1 .. MaxMessages, last : BOOLEAN])
    BY <1>4, <2>1, <2>2 DEF Transmit, IInv, TypeInv
  <2>4. i' \in Nat \ {0} /\ tx_events' \in Nat
    BY <1>4 DEF Transmit, IInv, TypeInv
  <2> QED
    BY <1>2, <1>4, <2>3, <2>4 DEF Transmit, IInv, TypeInv, client, RxEventsClosed
<1>5. CASE TransmitFails
  BY <1>3, <1>5 DEF TransmitFails, IInv, TypeInv, client, RxEventsClosed
<1> QED
  BY <1>1, <1>4, <1>5

\* The calls of AngryUEFI.
LEMMA CallTypes ==
  ASSUME TypeInv, Firmware \/ Accept \/ AcceptFails \/ CleanUp
  PROVE  TypeInv'
<1>1. CASE Accept
  <2>1. clients' \in 0 .. MaxClients
    BY <1>1 DEF Accept, TypeInv
  <2>2. /\ stream' = <<>> /\ sent' = <<>> /\ handled' = <<>> /\ replies' = <<>>
        /\ peer' = "open" /\ blame' = FALSE /\ lost' = FALSE /\ server' = "header"
        /\ rx_events = 0 /\ rx_events' = 0
        /\ UNCHANGED <<held, for, buffer, length, i, tx_events>>
    BY <1>1 DEF Accept, TypeInv, RxEventsClosed
  <2>3. Len(sent') <= MaxMessages /\ sent' \in Seq(Message)
    BY <2>2
  <2>4. /\ stream' \in Seq(Parts) /\ handled' \in Seq(Seq(Parts))
        /\ replies' \in Seq([to : 1 .. MaxMessages, last : BOOLEAN])
    BY <2>2
  <2>5. blame' \in BOOLEAN /\ lost' \in BOOLEAN
    BY <2>2, Zenon
  <2>6. RxEventsClosed'
    BY <2>2 DEF RxEventsClosed
  <2>7. /\ held' \subseteq {Gain(k) : k \in 1 .. Len(SetUp)}
        /\ for' \in {"header", "body"} /\ buffer' \in Seq(Parts)
        /\ length' \in 0 .. Capacity + 1 /\ i' \in Nat \ {0} /\ tx_events' \in Nat
    BY <2>2 DEF TypeInv
  <2> QED
    BY <2>1, <2>2, <2>3, <2>4, <2>5, <2>6, <2>7 DEF TypeInv
<1>2. CASE AcceptFails
  BY <1>2 DEF AcceptFails, Connected, client, TypeInv, RxEventsClosed
<1>3. CASE CleanUp
  BY <1>3 DEF CleanUp, Connected, client, TypeInv, RxEventsClosed
<1>4. CASE Firmware
  <2>1. /\ Len(SetUp) = 7 /\ 7 \in 1 .. Len(SetUp)
        /\ \A k \in 1 .. 7 : SetUp[k] # "receiving"
        /\ SetUp[7] = "configure" /\ Gain(7) = "configuration"
    BY DEF SetUp, Gain
  <2>2. CASE Succeeds
    <3>1. PICK k \in 1 .. Len(SetUp) :
            server = SetUp[k] /\ server' = AfterCall(k) /\ held' = held \cup {Gain(k)}
      BY <2>2 DEF Succeeds
    <3>2. AfterCall(k) \in {SetUp[n] : n \in 1 .. Len(SetUp)} \cup {"listen"}
      BY <2>1 DEF AfterCall
    <3>3. AfterCall(k) # "receiving"
      BY <2>1, <3>2
    <3> QED
      BY <2>1, <2>2, <3>1, <3>2, <3>3 DEF Succeeds, Connected, client, TypeInv, RxEventsClosed
  <2>3. CASE Fails
    BY <2>1, <2>3 DEF Fails, Connected, client, TypeInv, RxEventsClosed
  <2>4. CASE NoAddress
    BY <2>4 DEF NoAddress, Connected, client, TypeInv, RxEventsClosed
  <2>5. CASE ConfigureAgain
    BY <2>1, <2>5 DEF ConfigureAgain, Connected, client, TypeInv, RxEventsClosed
  <2> QED
    BY <1>4, <2>2, <2>3, <2>4, <2>5 DEF Firmware
<1> QED
  BY <1>1, <1>2, <1>3, <1>4


-----------------------------------------------------------------------------
(* What the program has to give back. *)

\* Seven calls, each with a name of its own; Gain names what it gives.
LEMMA SetUpIs ==
  /\ Len(SetUp) = 7
  /\ \A j, k \in 1 .. 7 : SetUp[j] = SetUp[k] => j = k
  /\ \A k \in 1 .. 7 :
       /\ SetUp[k] \notin {"wait_address", "listen", "header", "body", "receiving",
                           "handle", "respond", "stopped", "ended", "rebooted",
                           "stray"}
       /\ Gain(k) \in {"tcp", "configuration"} => k > 3
       /\ SetUp[k] = "configure" => k = 7
       /\ SetUp[k] = "locate" => k = 1
  /\ Gain(1) = "handles" /\ Gain(3) = "child" /\ Gain(7) = "configuration"
<1>1. /\ Len(SetUp) = 7
      /\ SetUp[1] = "locate" /\ SetUp[2] = "binding" /\ SetUp[3] = "child"
      /\ SetUp[4] = "tcp" /\ SetUp[5] = "listen_event" /\ SetUp[6] = "close_event"
      /\ SetUp[7] = "configure"
  BY DEF SetUp
<1>2. \A k \in 1 .. 7 : k \in {1, 2, 3, 4, 5, 6, 7}
  OBVIOUS
<1>3. \A j, k \in 1 .. 7 : SetUp[j] = SetUp[k] => j = k
  BY <1>1, <1>2
<1>4. \A k \in 1 .. 7 :
        /\ SetUp[k] \notin {"wait_address", "listen", "header", "body", "receiving",
                            "handle", "respond", "stopped", "ended", "rebooted"}
        /\ Gain(k) \in {"tcp", "configuration"} => k > 3
        /\ SetUp[k] = "configure" => k = 7
        /\ SetUp[k] = "locate" => k = 1
  BY <1>1, <1>2 DEF Gain
<1>5. Gain(1) = "handles" /\ Gain(3) = "child" /\ Gain(7) = "configuration"
  BY <1>1 DEF Gain
<1> QED
  BY <1>1, <1>3, <1>4, <1>5

\* The calls of the set-up, and what follows on them.
LEMMA FirmwareHeld ==
  ASSUME HeldInv, Firmware
  PROVE  HeldInv'
<1> USE SetUpIs
<1>1. CASE Succeeds
  <2>1. PICK k \in 1 .. 7 :
          server = SetUp[k] /\ server' = AfterCall(k) /\ held' = held \cup {Gain(k)}
    BY <1>1 DEF Succeeds
  <2>2. held = {Gain(j) : j \in 1 .. k - 1}
    BY <2>1 DEF HeldInv
  <2>3. held' = {Gain(j) : j \in 1 .. k}
    BY <2>1, <2>2
  <2>4. held' \cap {"tcp", "configuration"} # {} => "child" \in held'
    <3>1. k > 3 => 3 \in 1 .. k
      OBVIOUS
    <3> QED
      BY <2>3, <3>1
  <2>5. server' = IF k < 7 THEN SetUp[k + 1] ELSE "listen"
    BY <2>1 DEF AfterCall
  <2>6. \A n \in 1 .. 7 : server' = SetUp[n] => n = k + 1 /\ n - 1 = k
    BY <2>5
  <2>7. \A n \in 1 .. 7 : server' = SetUp[n] => held' = {Gain(j) : j \in 1 .. n - 1}
    BY <2>3, <2>6
  <2>8. server' \notin {"wait_address", "ended"}
    BY <2>5
  <2> QED
    BY <2>4, <2>7, <2>8 DEF HeldInv, CleanedUp
<1>2. CASE Fails
  <2>1. PICK k \in 1 .. 7 : server = SetUp[k]
    BY <1>2 DEF Fails
  <2>2. held = {Gain(j) : j \in 1 .. k - 1} /\ held' = held
    BY <1>2, <2>1 DEF HeldInv, Fails
  <2>3. server' \in {"ended", "stopped"} /\ (server' = "ended" => k = 1)
    BY <1>2, <2>1 DEF Fails
  <2>4. server' = "ended" => held' = {}
    BY <2>2, <2>3
  <2>5. server # "ended"
    BY <2>1
  <2> QED
    BY <2>2, <2>3, <2>4, <2>5 DEF HeldInv, CleanedUp
<1>3. CASE NoAddress
  <2>1. held' = held /\ server = SetUp[7] /\ server' = "wait_address"
    BY <1>3 DEF NoAddress, SetUp
  <2>2. held = {Gain(j) : j \in 1 .. 7 - 1}
    BY <2>1 DEF HeldInv
  <2>3. 3 \in 1 .. 7 - 1
    OBVIOUS
  <2>4. "child" \in held
    BY <2>2, <2>3
  <2> QED
    BY <2>1, <2>4 DEF HeldInv, CleanedUp
<1>4. CASE ConfigureAgain
  BY <1>4 DEF ConfigureAgain, HeldInv, CleanedUp
<1> QED
  BY <1>1, <1>2, <1>3, <1>4 DEF Firmware

\* All other steps but the last keep what is held, and lead to none of the
\* places of the set-up.
LEMMA HeldKept ==
  ASSUME HeldInv, held' = held, server # "ended",
         \/ server' = server
         \/ server' \in {"listen", "header", "body", "receiving", "handle", "respond",
                         "stopped", "rebooted", "stray"}
  PROVE  HeldInv'
<1>1. ASSUME server' # server, NEW k \in 1 .. 7 PROVE server' # SetUp[k]
  BY <1>1, SetUpIs
<1> QED
  BY <1>1, SetUpIs DEF HeldInv, CleanedUp

LEMMA HeldStep ==
  ASSUME IInv, [Next]_vars
  PROVE  HeldInv'
<1> USE DEF IInv
<1>1. CASE Client
  <2>1. UNCHANGED <<server, held>>
    BY <1>1 DEF Client, ClientSends, ClientDies, ClientCloses, ConnectionReset, Unmoved
  <2> QED
    BY <2>1 DEF HeldInv, CleanedUp
<1>2. CASE Firmware
  BY <1>2, FirmwareHeld
<1>3. CASE CleanUp
  <2>1. \A x \in held : x \in {"handles", "binding", "child", "tcp", "listen_event",
                             "close_event", "configuration"}
    <3>1. \A k \in 1 .. 7 : k \in {1, 2, 3, 4, 5, 6, 7}
      OBVIOUS
    <3>2. \A k \in 1 .. 7 : Gain(k) \in {"handles", "binding", "child", "tcp",
                             "listen_event", "close_event", "configuration"}
      BY <3>1 DEF Gain, SetUp
    <3> QED
      BY <3>2, SetUpIs DEF TypeInv
  <2>2. "tcp" \in held \/ "configuration" \in held => "child" \in held
    BY <1>3 DEF CleanUp, HeldInv
  <2>3. held' \subseteq {"binding", "listen_event", "close_event"} /\ server' = "ended"
    BY <1>3, <2>1, <2>2 DEF CleanUp
  <2>4. \A k \in 1 .. 7 : server' # SetUp[k]
    BY <2>3, SetUpIs
  <2> QED
    BY <2>3, <2>4, SetUpIs DEF HeldInv, CleanedUp
<1>4. CASE Accept
  BY <1>4, HeldKept DEF Accept
<1>5. CASE AcceptFails
  BY <1>5, HeldKept DEF AcceptFails
<1>6. CASE Receive
  BY <1>6, HeldKept DEF Receive
<1>7. CASE NoRxEvent
  BY <1>7, HeldKept DEF NoRxEvent
<1>8. CASE ChunkArrives
  BY <1>8, HeldKept DEF ChunkArrives, HeaderArrives, BodyArrives
<1>9. CASE PeerClosed
  BY <1>9, HeldKept DEF PeerClosed
<1>10. CASE ReceiveFails
  BY <1>10, HeldKept DEF ReceiveFails
<1>11. CASE Handle
  <2>1. server' \in {"stopped", "header", "respond", "stray"}
    BY <1>11, HandleGoes
  <2> QED
    BY <1>11, <2>1, HeldKept DEF Handle
<1>12. CASE Transmit
  BY <1>12, HeldKept DEF Transmit, AfterSending
<1>13. CASE TransmitFails
  BY <1>13, HeldKept DEF TransmitFails, AfterSending
<1>14. CASE UNCHANGED vars
  BY <1>14 DEF vars, HeldInv, CleanedUp
<1> QED
  BY <1>1, <1>2, <1>3, <1>4, <1>5, <1>6, <1>7, <1>8, <1>9, <1>10, <1>11, <1>12, <1>13,
     <1>14 DEF Next, Server

-----------------------------------------------------------------------------
(* The stream. *)

\* The last of s + 1 numbers.
LEMMA LastOrBefore ==
  ASSUME NEW s \in Nat, NEW k \in 1 .. s + 1
  PROVE  k \in 1 .. s \/ k = s + 1
  OBVIOUS

\* The client sends: the new message is behind all others.
LEMMA SendsWire ==
  ASSUME IInv, Sends
  PROVE  WireInv'
<1> USE DEF IInv
<1>1. PICK m \in Message : \E n \in 1 .. HeaderCells + Body(m) :
         /\ peer = "open" /\ Len(sent) < MaxMessages
         /\ sent' = Append(sent, m)
         /\ stream' = stream \o SubSeq(Cells(m, Len(sent) + 1), 1, n)
         /\ blame' = (blame \/ m.kind \in Garbage \/ peer' = "closed")
         /\ peer' \in {"open", "closed"}
         /\ n = HeaderCells + Body(m) \/ (peer' = "closed" /\ blame')
         /\ UNCHANGED <<clients, Unmoved>>
  BY SendsCells
<1>2. PICK n \in 1 .. HeaderCells + Body(m) :
         /\ stream' = stream \o SubSeq(Cells(m, Len(sent) + 1), 1, n)
         /\ n = HeaderCells + Body(m) \/ (peer' = "closed" /\ blame')
  BY <1>1
<1>3. PICK s \in 1 .. MaxMessages : s = Len(sent) + 1 /\ Len(sent) \in Nat /\ s \in Nat
  BY <1>1 DEF TypeInv
<1>4. /\ Len(sent') = s /\ sent'[s] = m
      /\ \A k \in 1 .. Len(sent) : sent'[k] = sent[k]
  BY <1>1, <1>3, SentKept
<1>5. /\ Cells(m, s) \in Seq(Parts) /\ Len(Cells(m, s)) = HeaderCells + Body(m)
      /\ HeaderCells + Body(m) \in Nat /\ n \in Nat /\ 1 <= n
      /\ n <= HeaderCells + Body(m)
  BY <1>3, CellsOf, BodySize
<1>50. PICK size \in Nat : size = HeaderCells + Body(m)
  BY <1>5
<1>51. PICK l \in Nat : l = Len(stream)
  BY DEF TypeInv
<1>6. /\ Len(stream') = Len(stream) + n /\ Len(stream) \in Nat
      /\ \A k \in 1 .. Len(stream) : stream'[k] = stream[k]
      /\ \A k \in 1 .. n : stream'[Len(stream) + k] = Cells(m, s)[k]
  <2> DEFINE t == SubSeq(Cells(m, s), 1, n)
  <2>1. t \in Seq(Parts) /\ Len(t) = n /\ \A k \in 1 .. n : t[k] = Cells(m, s)[k]
    BY <1>5
  <2>2. stream' = stream \o t /\ stream \in Seq(Parts)
    BY <1>2, <1>3 DEF TypeInv
  <2> HIDE DEF t
  <2>3. /\ Len(stream \o t) = Len(stream) + Len(t)
        /\ \A k \in 1 .. Len(stream) + Len(t) :
             (stream \o t)[k] = IF k <= Len(stream) THEN stream[k] ELSE t[k - Len(stream)]
    BY <2>1, <2>2, ConcatProperties
  <2>4. Len(stream) \in Nat
    BY <2>2
  <2>5. \A k \in 1 .. Len(stream) : stream'[k] = stream[k]
    BY <1>5, <2>1, <2>2, <2>3, <2>4
  <2>6. ASSUME NEW k \in 1 .. n PROVE stream'[Len(stream) + k] = Cells(m, s)[k]
    <3>1. /\ Len(stream) + k \in 1 .. Len(stream) + Len(t) /\ ~(Len(stream) + k <= Len(stream))
          /\ Len(stream) + k - Len(stream) = k
      BY <1>5, <2>1, <2>4
    <3> QED
      BY <2>1, <2>2, <2>3, <3>1
  <2> QED
    BY <2>1, <2>2, <2>3, <2>4, <2>5, <2>6
<1>7. /\ UNCHANGED <<server, for, buffer, handled>>
      /\ Reading' = Reading /\ Current' = Current /\ InBody' = InBody
  BY <1>1 DEF Unmoved, Reading, Current, InBody
<1>8. SUFFICES ASSUME Reading PROVE \E ahead \in [Nat -> Int] : Wire(ahead)'
  BY <1>1, <1>7 DEF WireInv
<1>9. PICK ahead \in [Nat -> Int] : Wire(ahead)
  BY <1>1, <1>8 DEF WireInv
<1>10. /\ ahead[s] = Len(stream)
       /\ \A j, k \in 1 .. s : j <= k => ahead[j] <= ahead[k]
       /\ ahead[Current] + Have = 0
  <2>1. /\ ahead[Len(sent) + 1] = Len(stream) /\ ahead[Current] + Have = 0
        /\ \A j, k \in 1 .. Len(sent) + 1 : j <= k => ahead[j] <= ahead[k]
    BY <1>1, <1>9 DEF Wire
  <2> QED
    BY <1>3, <2>1
<1>11. PICK new \in [Nat -> Int] :
          /\ new[s + 1] = l + size
          /\ \A k \in 1 .. s : new[k] = ahead[k]
  <2> DEFINE f == [k \in Nat |-> IF k = s + 1 THEN l + size
                                ELSE ahead[k]]
  <2>1. f \in [Nat -> Int]
    OBVIOUS
  <2>2. f[s + 1] = l + size /\ \A k \in 1 .. s : f[k] = ahead[k]
    BY <1>3
  <2> QED
    BY <2>1, <2>2
<1>12. Current \in 1 .. s
  BY <1>3 DEF Current, Framed, TypeInv
<1>13. Have' = Have
  <2>1. server = "handle" => Current \in 1 .. Len(sent)
    BY <1>3, <1>12 DEF BufferInv
  <2>2. server = "handle" => Size(Current)' = Size(Current)
    BY <1>4, <1>7, <2>1 DEF Size
  <2> QED
    BY <1>7, <2>2 DEF Have
<1>14. new[Current'] + Have' = 0
  BY <1>7, <1>10, <1>11, <1>12, <1>13
<1>15. \A j, k \in 1 .. Len(sent') + 1 : j <= k => new[j] <= new[k]
  <2> SUFFICES ASSUME NEW j \in 1 .. s + 1, NEW k \in 1 .. s + 1, j <= k
               PROVE  new[j] <= new[k]
    BY <1>4
  <2>1. CASE k \in 1 .. s
    <3>1. j \in 1 .. s
      BY <1>3, <2>1
    <3> QED
      BY <1>10, <1>11, <2>1, <3>1
  <2>2. CASE k = s + 1 /\ j \in 1 .. s
    <3>1. s \in 1 .. s /\ j \in Nat /\ j <= s
      BY <1>3, <2>2
    <3>2. ahead[j] <= l /\ new[j] = ahead[j]
      BY <1>10, <1>11, <1>51, <2>2, <3>1
    <3>4. PICK a \in Int : a = ahead[j]
      BY <3>1
    <3>3. new[k] = l + size
      BY <1>11, <2>2
    <3> QED
      BY <3>2, <3>3, <3>4
  <2>3. CASE k = s + 1 /\ j = s + 1
    BY <1>11, <2>3
  <2>4. k \in 1 .. s \/ k = s + 1
    BY <1>3, LastOrBefore
  <2>5. j \in 1 .. s \/ j = s + 1
    BY <1>3, LastOrBefore
  <2>6. j = s + 1 => k = s + 1
    BY <1>3, <2>4
  <2> QED
    BY <2>1, <2>2, <2>3, <2>4, <2>5, <2>6
<1>16. ASSUME NEW k \in 1 .. Len(sent)
       PROVE  /\ new[k + 1] = new[k] + Size(k)'
              /\ \A p \in 1 .. Size(k)' :
                   new[k] + p \in 1 .. Len(stream') =>
                     stream'[new[k] + p] = Cells(sent'[k], k)[p]
  <2>1. /\ k \in 1 .. s /\ k + 1 \in 1 .. s /\ Size(k)' = Size(k)
        /\ new[k] = ahead[k] /\ new[k + 1] = ahead[k + 1]
        /\ sent'[k] = sent[k]
    <3>1. k \in 1 .. s /\ k + 1 \in 1 .. s
      BY <1>3
    <3> QED
      BY <1>4, <1>11, <3>1 DEF Size
  <2>2. /\ ahead[k + 1] = ahead[k] + Size(k)
        /\ \A p \in 1 .. Size(k) :
             ahead[k] + p \in 1 .. Len(stream) => stream[ahead[k] + p] = Cells(sent[k], k)[p]
    BY <1>9 DEF Wire
  <2>3. ahead[k] + Size(k) <= l
    <3>1. s \in 1 .. s /\ k + 1 <= s
      BY <1>3
    <3> QED
      BY <1>10, <1>51, <2>1, <2>2, <3>1
  <2>4. ASSUME NEW p \in 1 .. Size(k), ahead[k] + p \in 1 .. Len(stream')
        PROVE  ahead[k] + p \in 1 .. Len(stream)
    <3>1. PICK a \in Int : a = ahead[k]
      BY <1>3
    <3>2. PICK z \in Nat : z = Size(k)
      BY SentSize
    <3>3. a + p <= l
      <4>1. p \in Nat /\ p <= z /\ a + z <= l
        BY <2>3, <3>1, <3>2
      <4> QED
        BY <4>1
    <3>4. a + p \in 1 .. Len(stream')
      BY <2>4, <3>1
    <3>5. a + p \in 1 .. l
      BY <3>2, <3>3, <3>4
    <3> QED
      BY <1>51, <3>1, <3>5
  <2> QED
    BY <1>6, <2>1, <2>2, <2>4
<1>17. /\ new[s + 1] = new[s] + Size(s)'
       /\ \A p \in 1 .. Size(s)' :
            new[s] + p \in 1 .. Len(stream') =>
              stream'[new[s] + p] = Cells(sent'[s], s)[p]
  <2>1. Size(s)' = size /\ new[s] = l
    <3>1. s \in 1 .. s
      BY <1>3
    <3> QED
      BY <1>4, <1>10, <1>11, <1>50, <1>51, <3>1 DEF Size
  <2>2. ASSUME NEW p \in 1 .. size, l + p \in 1 .. Len(stream')
        PROVE  stream'[l + p] = Cells(m, s)[p]
    <3>1. p <= n
      BY <1>5, <1>6, <1>51, <2>2
    <3> QED
      BY <1>5, <1>6, <1>51, <3>1
  <2>3. new[s + 1] = l + size
    BY <1>11
  <2> QED
    BY <1>4, <2>1, <2>2, <2>3
<1>18. /\ Len(stream') <= new[Len(sent') + 1]
       /\ peer' = "open" \/ ~blame' => Len(stream') = new[Len(sent') + 1]
  <2>1. new[Len(sent') + 1] = l + size /\ Len(stream') = l + n
    BY <1>4, <1>6, <1>11, <1>51
  <2>2. n <= size /\ n \in Nat
    BY <1>5, <1>50
  <2>3. peer' = "open" \/ ~blame' => n = size
    BY <1>2, <1>50
  <2> QED
    BY <2>1, <2>2, <2>3
<1>19. ASSUME NEW k \in 1 .. Len(sent')
       PROVE  /\ new[k + 1] = new[k] + Size(k)'
              /\ \A p \in 1 .. Size(k)' :
                   new[k] + p \in 1 .. Len(stream') =>
                     stream'[new[k] + p] = Cells(sent'[k], k)[p]
  <2>1. k \in 1 .. Len(sent) \/ k = s
    BY <1>3, <1>4
  <2> QED
    BY <1>16, <1>17, <2>1
<1>20. Wire(new)'
  BY <1>14, <1>15, <1>18, <1>19 DEF Wire
<1> QED
  BY <1>11, <1>20

\* A chunk that the server takes leaves that many cells fewer in front of every
\* message.
LEMMA ChunkWire ==
  ASSUME IInv, ChunkArrives
  PROVE  WireInv'
<1> USE DEF IInv
<1>1. PICK n \in 1 .. Missing :
        /\ n <= Len(stream) /\ stream' = SubSeq(stream, n + 1, Len(stream))
        /\ HeaderArrives(n) \/ BodyArrives(n)
  BY DEF ChunkArrives
<1>2. /\ server = "receiving" /\ UNCHANGED <<peer, sent, for, handled>>
  BY DEF ChunkArrives
<1>3. /\ peer # "reset" /\ Current \in 1 .. Len(sent)
      /\ Have + n <= Size(Current)
      /\ Chunk(n) \in Seq(Parts) /\ Len(Chunk(n)) = n
      /\ \A k \in 1 .. n : Chunk(n)[k] = Cells(sent[Current], Current)[Have + k]
      /\ Len(stream') = Len(stream) - n
      /\ \A k \in 1 .. Len(stream) - n : stream'[k] = stream[k + n]
  BY <1>1, <1>2, ChunkIs
<1>4. PICK ahead \in [Nat -> Int] : Wire(ahead)
  BY <1>2, <1>3 DEF WireInv, Reading
<1>5. peer' # "reset" /\ (Reading' => peer' # "none")
  BY <1>2, <1>3 DEF WireInv, Reading
<1>6. SUFFICES ASSUME Reading' PROVE \E new \in [Nat -> Int] : Wire(new)'
  BY <1>5 DEF WireInv
<1>7. PICK l \in Nat : l = Len(stream)
  BY Lengths
<1>8. n \in Nat /\ 1 <= n /\ n <= l
  BY <1>1, <1>7 DEF Missing, TypeInv
<1>9. PICK new \in [Nat -> Int] : \A k \in Nat : new[k] = ahead[k] - n
  <2> DEFINE f == [k \in Nat |-> ahead[k] - n]
  <2>1. f \in [Nat -> Int] /\ \A k \in Nat : f[k] = ahead[k] - n
    BY <1>8
  <2> QED
    BY <2>1
<1>10. PICK s \in Nat : s = Len(sent)
  BY Lengths
<1>11. Current' = Current /\ \A m : Size(m)' = Size(m)
  BY <1>2 DEF Current, Size
<1>12. blame' = blame /\ Have' = Have + n /\ Have \in Nat
  <2>1. CASE HeaderArrives(n)
    <3>1. /\ n = HeaderCells /\ Have = 0 /\ blame' = blame /\ buffer' = <<>>
          /\ length' = Body(sent[Chunk(n)[1].message])
          /\ server' = IF length' = 0 THEN "handle" ELSE "body"
      BY <1>2, <1>6, <2>1 DEF HeaderArrives, Reading, Have, InBody
    <3>2. PICK b \in Nat : b = Body(sent[Current])
      <4>1. Body(sent[Current]) \in 0 .. Capacity + 1
        BY <1>3, SentSize
      <4> QED
        BY <4>1
    <3>20. 1 \in 1 .. n /\ 1 \in 1 .. HeaderCells + b /\ Have + 1 = 1
      BY <3>1
    <3>21. Chunk(n)[1] = Cells(sent[Current], Current)[1]
      BY <1>3, <3>20
    <3>22. Cells(sent[Current], Current)[1].message = Current
      BY <1>3, <3>2, <3>20, SentSize, CellsOf
    <3>3. Chunk(n)[1].message = Current
      BY <3>21, <3>22
    <3>4. length' = Body(sent[Current])
      BY <3>1, <3>3
    <3>5. CASE length' = 0
      <4>1. server' = "handle" /\ ~InBody'
        BY <3>1, <3>5 DEF InBody
      <4>2. Have' = Size(Current)
        BY <1>11, <4>1 DEF Have
      <4>3. Size(Current) = HeaderCells + Body(sent[Current]) /\ Body(sent[Current]) = 0
        BY <1>3, <3>4, <3>5, SentSize
      <4>4. Have' = HeaderCells
        BY <4>2, <4>3
      <4> QED
        BY <3>1, <4>4
    <3>6. CASE length' # 0
      <4>1. server' = "body" /\ InBody'
        BY <3>1, <3>6 DEF InBody
      <4>2. Have' = HeaderCells
        BY <3>1, <4>1 DEF Have
      <4> QED
        BY <3>1, <4>2
    <3> QED
      BY <3>5, <3>6
  <2>2. CASE BodyArrives(n)
    <3>1. /\ for = "body" /\ InBody /\ Have = HeaderCells + Len(buffer)
          /\ Len(buffer) \in Nat /\ length = Body(sent[Current]) /\ length \in Nat
      BY <1>2, <2>2 DEF BodyArrives, InBody, Have, BufferInv, TypeInv
    <3>2. /\ Len(buffer') = Len(buffer) + n /\ length' = length /\ blame' = blame
          /\ server' = IF Len(buffer') < length THEN "body" ELSE "handle"
      <4>0. server' # "stray"
        BY <1>6 DEF Reading
      <4>1. buffer' = buffer \o Chunk(n) /\ buffer \in Seq(Parts) /\ Chunk(n) \in Seq(Parts)
        BY <1>3, <2>2 DEF BodyArrives, TypeInv
      <4>2. Len(buffer \o Chunk(n)) = Len(buffer) + Len(Chunk(n))
        BY <4>1
      <4>3. Len(buffer') = Len(buffer) + n
        BY <1>3, <4>1, <4>2
      <4> QED
        BY <2>2, <4>0, <4>3 DEF BodyArrives
    <3>3. CASE Len(buffer') < length
      <4>1. server' = "body" /\ InBody'
        BY <3>2, <3>3 DEF InBody
      <4>2. Have' = HeaderCells + Len(buffer')
        BY <4>1 DEF Have
      <4> QED
        BY <1>8, <3>1, <3>2, <4>2
    <3>4. CASE ~(Len(buffer') < length)
      <4>1. server' = "handle" /\ ~InBody'
        BY <3>2, <3>4 DEF InBody
      <4>2. Have' = Size(Current)
        BY <1>11, <4>1 DEF Have
      <4>3. Len(buffer) + n <= length /\ Size(Current) = HeaderCells + length
        BY <1>3, <1>8, <3>1, SentSize
      <4>4. PICK b \in Nat : b = Len(buffer)
        BY <3>1
      <4>5. b + n <= length /\ ~(b + n < length) /\ length \in Nat
        BY <3>1, <3>2, <3>4, <4>3, <4>4
      <4>6. length = b + n
        BY <1>8, <4>5
      <4>7. Have' = (HeaderCells + b) + n
        BY <1>8, <4>2, <4>3, <4>6
      <4>8. Have = HeaderCells + b /\ Have \in Nat
        BY <3>1, <4>4
      <4> QED
        BY <3>2, <4>7, <4>8
    <3> QED
      BY <3>1, <3>2, <3>3, <3>4
  <2> QED
    BY <1>1, <2>1, <2>2
<1>13. new[Current'] + Have' = 0
  <2>1. PICK c \in Nat : c = Current
    BY <1>3, <1>10
  <2>2. ahead[c] + Have = 0
    BY <1>4, <2>1 DEF Wire
  <2>3. PICK a \in Int : a = ahead[c]
    OBVIOUS
  <2>4. new[c] = a - n
    BY <1>9, <2>3
  <2>5. PICK h \in Nat : h = Have
    BY <1>12
  <2>6. (a - n) + (h + n) = 0
    BY <1>8, <2>2, <2>3, <2>5
  <2> QED
    BY <1>11, <1>12, <2>1, <2>4, <2>5, <2>6
<1>14. \A j, k \in 1 .. s + 1 : j <= k => new[j] <= new[k]
  <2> SUFFICES ASSUME NEW j \in 1 .. s + 1, NEW k \in 1 .. s + 1, j <= k
               PROVE  new[j] <= new[k]
    OBVIOUS
  <2>1. ahead[j] <= ahead[k] /\ j \in Nat /\ k \in Nat
    BY <1>4, <1>10 DEF Wire
  <2>2. PICK a \in Int, b \in Int : a = ahead[j] /\ b = ahead[k]
    BY <2>1
  <2>3. a - n <= b - n
    BY <1>8, <2>1, <2>2
  <2> QED
    BY <1>9, <2>1, <2>2, <2>3
<1>15. ASSUME NEW m \in 1 .. s
       PROVE  /\ new[m + 1] = new[m] + Size(m)
              /\ \A p \in 1 .. Size(m) :
                   new[m] + p \in 1 .. l - n => stream'[new[m] + p] = Cells(sent[m], m)[p]
  <2>1. /\ ahead[m + 1] = ahead[m] + Size(m)
        /\ \A p \in 1 .. Size(m) :
             ahead[m] + p \in 1 .. l => stream[ahead[m] + p] = Cells(sent[m], m)[p]
    BY <1>4, <1>7, <1>10 DEF Wire
  <2>2. PICK z \in Nat : z = Size(m)
    BY <1>10, SentSize
  <2>3. PICK a \in Int : a = ahead[m]
    BY <1>10
  <2>4. new[m] = a - n /\ new[m + 1] = a + z - n
    BY <1>9, <2>1, <2>2, <2>3
  <2>5. ASSUME NEW p \in 1 .. z, (a - n) + p \in 1 .. l - n
        PROVE  stream'[(a - n) + p] = Cells(sent[m], m)[p]
    <3>1. a + p \in 1 .. l /\ ((a - n) + p) + n = a + p
      BY <1>8, <2>5
    <3>2. stream'[(a - n) + p] = stream[a + p]
      BY <1>3, <1>7, <2>5, <3>1
    <3> QED
      BY <2>1, <2>2, <2>3, <3>1, <3>2
  <2>6. a + z - n = (a - n) + z
    BY <1>8
  <2> QED
    BY <2>2, <2>4, <2>5, <2>6
<1>16. /\ l - n <= new[s + 1]
       /\ peer' = "open" \/ ~blame' => l - n = new[s + 1]
  <2>1. PICK a \in Int : a = ahead[s + 1]
    OBVIOUS
  <2>2. l <= a /\ (peer = "open" \/ ~blame => l = a)
    BY <1>4, <1>7, <1>10, <2>1 DEF Wire
  <2>3. new[s + 1] = a - n
    BY <1>9, <2>1
  <2>4. l - n <= a - n
    BY <1>8, <2>2
  <2> QED
    BY <1>2, <1>12, <2>2, <2>3, <2>4
<1>17. /\ Len(sent') = s /\ Len(stream') = l - n /\ sent' = sent
       /\ \A m : Size(m)' = Size(m)
  BY <1>2, <1>3, <1>7, <1>10, <1>11
<1>18. \A m \in 1 .. s :
         /\ new[m + 1] = new[m] + Size(m)'
         /\ \A p \in 1 .. Size(m)' :
              new[m] + p \in 1 .. l - n => stream'[new[m] + p] = Cells(sent[m], m)[p]
  BY <1>15, <1>17
<1>19. Wire(new)'
  BY <1>13, <1>14, <1>16, <1>17, <1>18 DEF Wire
<1> QED
  BY <1>19

\* The steps that leave the stream alone.
LEMMA WireKept ==
  ASSUME IInv, UNCHANGED <<stream, sent>>,
         peer' = peer \/ (peer = "open" /\ peer' = "closed"),
         blame' = blame \/ (blame' /\ ~Reading'),
         Reading' => Reading,
         Reading' => \/ Current' = Current /\ Have' = Have
                     \/ /\ Current' = Current + 1 /\ Have' = 0
                        /\ Current \in 1 .. Len(sent) /\ Have = Size(Current)
  PROVE  WireInv'
<1> USE DEF IInv
<1>1. peer' = "reset" => stream' = <<>> /\ blame'
  BY DEF WireInv
<1>2. SUFFICES ASSUME Reading', peer' # "reset"
               PROVE  peer' # "none" /\ \E ahead \in [Nat -> Int] : Wire(ahead)'
  BY <1>1 DEF WireInv
<1>3. PICK ahead \in [Nat -> Int] : Wire(ahead)
  BY <1>2 DEF WireInv
<1>4. \A m : Size(m)' = Size(m)
  BY DEF Size
<1>5. ahead[Current'] + Have' = 0
  <2>1. ahead[Current] + Have = 0
    BY <1>3 DEF Wire
  <2>2. CASE Current' = Current /\ Have' = Have
    BY <2>1, <2>2
  <2>3. CASE /\ Current' = Current + 1 /\ Have' = 0
             /\ Current \in 1 .. Len(sent) /\ Have = Size(Current)
    <3>1. ahead[Current + 1] = ahead[Current] + Size(Current)
      BY <1>3, <2>3 DEF Wire
    <3>2. ahead[Current + 1] = 0
      BY <2>1, <2>3, <3>1
    <3> QED
      BY <2>3, <3>2
  <2> QED
    BY <1>2, <2>2, <2>3
<1>6. blame' = blame
  BY <1>2
<1>7. /\ Len(stream) <= ahead[Len(sent) + 1]
      /\ peer' = "open" \/ ~blame' => Len(stream) = ahead[Len(sent) + 1]
  BY <1>3, <1>6 DEF Wire
<1>8. Wire(ahead)'
  BY <1>3, <1>4, <1>5, <1>7 DEF Wire
<1> QED
  BY <1>2, <1>8 DEF WireInv

LEMMA WireStep ==
  ASSUME IInv, [Next]_vars
  PROVE  WireInv'
<1>1. CASE Sends
  BY <1>1, SendsWire
<1>2. CASE ChunkArrives
  BY <1>2, ChunkWire
<1>3. CASE ClientCloses
  BY <1>3, WireKept DEF ClientCloses, Unmoved, Reading, Current, Have, InBody, Size
<1>4. CASE ConnectionReset
  BY <1>4 DEF ConnectionReset, WireInv
<1>5. CASE Receive
  <2>1. Reading /\ Current' = Current /\ Have' = Have
    BY <1>5 DEF Receive, Reading, Current, Have, InBody, client
  <2> QED
    BY <1>5, <2>1, WireKept DEF Receive, client
<1>6. CASE Handle
  <2>1. Reading /\ Current \in 1 .. Len(sent) /\ Have = Size(Current) /\ ~InBody'
    <3>1. Current <= Len(sent)
      BY <1>6 DEF Handle, IInv, BufferInv
    <3> QED
      BY <1>6, <3>1, Lengths DEF Handle, Reading, Have, InBody, IInv
  <2>2. Len(handled') = Len(handled) + 1
    BY <1>6 DEF Handle, IInv, TypeInv
  <2>3. Current' = Current + 1
    BY <2>2 DEF Current
  <2>4. server' \in {"stopped", "header", "respond", "stray"}
    BY <1>6, HandleGoes
  <2>5. Have' = 0
    BY <2>1, <2>4 DEF Have
  <2> QED
    BY <1>6, <2>1, <2>3, <2>5, WireKept DEF Handle, client
<1>7. CASE Transmit \/ TransmitFails
  <2>1. server = "respond" /\ server' \in {"rebooted", "respond", "header"}
    BY <1>7 DEF Transmit, TransmitFails, AfterSending
  <2>2. Reading /\ UNCHANGED <<stream, sent, peer, blame, handled>>
    BY <1>7, <2>1 DEF Transmit, TransmitFails, Reading, client
  <2>3. Current' = Current /\ Have' = Have
    BY <2>1, <2>2 DEF Current, Have, InBody
  <2> QED
    BY <2>2, <2>3, WireKept
<1>8. CASE Accept
  <2>1. /\ stream' = <<>> /\ sent' = <<>> /\ handled' = <<>> /\ peer' = "open"
        /\ server' = "header"
    BY <1>8 DEF Accept
  <2>2. Len(stream') = 0 /\ Len(sent') = 0 /\ Current' = 1 /\ Have' = 0
    BY <2>1 DEF Current, Have, InBody
  <2>3. PICK ahead \in [Nat -> Int] : \A k \in Nat : ahead[k] = 0
    <3>1. [k \in Nat |-> 0] \in [Nat -> Int]
      OBVIOUS
    <3> QED
      BY <3>1
  <2>4. Wire(ahead)'
    BY <2>2, <2>3 DEF Wire
  <2> QED
    BY <2>1, <2>4 DEF WireInv
<1>9. CASE \/ NoRxEvent \/ PeerClosed \/ ReceiveFails \/ CleanUp \/ AcceptFails
           \/ Firmware
  <2>1. ~Reading'
    <3>1. Firmware => ~Reading'
      <4>1. ASSUME NEW k \in 1 .. 7, k < 7 PROVE SetUp[k + 1] \notin {"header", "body", "receiving", "handle", "respond"}
        BY <4>1, SetUpIs
      <4>2. Succeeds => ~Reading'
        BY <4>1, SetUpIs DEF Succeeds, AfterCall, Reading
      <4> QED
        BY <4>2 DEF Firmware, Fails, NoAddress, ConfigureAgain, Reading
    <3> QED
      BY <1>9, <3>1 DEF NoRxEvent, PeerClosed, ReceiveFails, CleanUp, AcceptFails, Reading
  <2>2. UNCHANGED <<stream, sent, peer>> /\ (blame' = blame \/ blame')
    BY <1>9 DEF NoRxEvent, PeerClosed, ReceiveFails, CleanUp, AcceptFails, Firmware,
       Succeeds, Fails, NoAddress, ConfigureAgain, Connected, client
  <2> QED
    BY <2>1, <2>2, WireKept
<1>10. CASE UNCHANGED vars
  BY <1>10, WireKept DEF vars, client, Reading, Current, Have, InBody, Size
<1> QED
  BY <1>1, <1>2, <1>3, <1>4, <1>5, <1>6, <1>7, <1>8, <1>9, <1>10
  DEF Next, Client, Server, Sends

-----------------------------------------------------------------------------
(* The messages. *)

\* What handle_message looks at is the message the client has sent.
LEMMA ReceivedIs ==
  ASSUME IInv, server = "handle"
  PROVE  /\ Current \in 1 .. Len(sent) /\ Received.kind = sent[Current].kind
         /\ buffer = SubSeq(Cells(sent[Current], Current), HeaderCells + 1,
                            HeaderCells + Body(sent[Current]))
<1> USE DEF IInv
<1>1. /\ Current \in 1 .. Len(sent) /\ length = Body(sent[Current])
      /\ Len(buffer) = length /\ buffer \in Seq(Parts)
      /\ \A k \in 1 .. Len(buffer) :
           buffer[k] = Cells(sent[Current], Current)[HeaderCells + k]
  <2>1. /\ Current <= Len(sent) /\ length = Body(sent[Current]) /\ Len(buffer) = length
        /\ \A k \in 1 .. Len(buffer) :
             buffer[k] = Cells(sent[Current], Current)[HeaderCells + k]
    BY DEF BufferInv
  <2>2. Current \in 1 .. Len(sent)
    BY <2>1, Lengths
  <2> QED
    BY <2>1, <2>2 DEF TypeInv
<1>2. PICK m \in Message : m = sent[Current]
  BY <1>1, SentSize
<1>3. PICK b \in Nat : b = Body(m)
  BY BodySize
<1>4. /\ Cells(m, Current) \in Seq(Parts) /\ Len(Cells(m, Current)) = HeaderCells + b
      /\ \A p \in 1 .. HeaderCells + b : Cells(m, Current)[p].message = Current
  BY <1>1, <1>2, <1>3, SentSize, CellsOf
<1>5. Received.kind = sent[Current].kind
  <2>1. CASE length = 0
    BY <1>1, <1>2, <2>1, BodySize DEF Received
  <2>2. CASE length # 0
    <3>1. 1 \in 1 .. b /\ HeaderCells + 1 \in 1 .. HeaderCells + b
      BY <1>1, <1>2, <1>3, <2>2
    <3>2. buffer[1].message = Current
      BY <1>1, <1>2, <1>3, <1>4, <3>1
    <3> QED
      BY <2>2, <3>2 DEF Received
  <2> QED
    BY <2>1, <2>2
<1>6. buffer = SubSeq(Cells(m, Current), HeaderCells + 1, HeaderCells + b)
  <2> DEFINE t == SubSeq(Cells(m, Current), HeaderCells + 1, HeaderCells + b)
  <2>1. /\ t \in Seq(Parts) /\ Len(t) = b
        /\ \A k \in 1 .. b : t[k] = Cells(m, Current)[HeaderCells + k]
    <3>1. PICK c \in Seq(Parts) : c = Cells(m, Current) /\ Len(c) = HeaderCells + b
      BY <1>4
    <3>2. /\ SubSeq(c, HeaderCells + 1, HeaderCells + b) \in Seq(Parts)
          /\ Len(SubSeq(c, HeaderCells + 1, HeaderCells + b)) = b
      BY <3>1
    <3>3. ASSUME NEW k \in 1 .. b
          PROVE  SubSeq(c, HeaderCells + 1, HeaderCells + b)[k] = c[HeaderCells + k]
      BY <3>1
    <3> QED
      BY <3>1, <3>2, <3>3
  <2> HIDE DEF t
  <2>2. buffer = t
    BY <1>1, <1>2, <1>3, <2>1, SeqEqual
  <2> QED
    BY <2>2 DEF t
<1> QED
  BY <1>1, <1>2, <1>3, <1>5, <1>6

\* What the client sends does not change what it has sent.
LEMMA SendsFrame ==
  ASSUME IInv, Sends
  PROVE  Framed' /\ BufferInv' /\ BlameInv'
<1> USE DEF IInv
<1>1. PICK m \in Message :
         /\ peer = "open" /\ Len(sent) < MaxMessages
         /\ sent' = Append(sent, m)
         /\ blame' = (blame \/ m.kind \in Garbage \/ peer' = "closed")
         /\ UNCHANGED <<clients, Unmoved>>
  BY SendsCells
<1>2. PICK s \in Nat : s = Len(sent)
  BY Lengths
<1>3. /\ Len(sent') = s + 1 /\ sent'[s + 1] = m
      /\ \A k \in 1 .. s : sent'[k] = sent[k]
  BY <1>1, <1>2, SentKept
<1>4. UNCHANGED <<server, for, buffer, length, handled>>
  BY <1>1 DEF Unmoved
<1>5. InBody' = InBody /\ Current' = Current /\ Current \in Nat \ {0}
  BY <1>4, Lengths DEF InBody, Current
<1>6. Framed'
  <2>1. Len(handled) <= s /\ Len(handled) \in Nat
    BY <1>2, Lengths DEF Framed
  <2>2. Len(handled') <= Len(sent')
    BY <1>3, <1>4, <2>1
  <2>3. ASSUME NEW k \in 1 .. Len(handled')
        PROVE  handled'[k] = SubSeq(Cells(sent'[k], k), HeaderCells + 1,
                                    HeaderCells + Body(sent'[k]))
    <3>1. k \in 1 .. Len(handled) /\ k \in 1 .. s
      BY <1>4, <2>1
    <3> QED
      BY <1>3, <1>4, <3>1 DEF Framed
  <2> QED
    BY <2>2, <2>3 DEF Framed
<1>7. BufferInv'
  <2>1. ASSUME InBody \/ server = "handle"
        PROVE  /\ Current <= Len(sent') /\ length' = Body(sent'[Current])
               /\ \A k \in 1 .. Len(buffer') :
                    buffer'[k] = Cells(sent'[Current], Current)[HeaderCells + k]
    <3>1. Current \in 1 .. s
      BY <1>2, <1>5, <2>1 DEF BufferInv
    <3> QED
      BY <1>2, <1>3, <1>4, <2>1, <3>1 DEF BufferInv
  <2>2. ASSUME server = "respond"
        PROVE  /\ handled # <<>> /\ buffer = handled[Len(handled)]
               /\ length = Len(buffer)
               /\ sent'[Len(handled)].kind \notin Unanswered
    <3>1. Len(handled) \in 1 .. s
      <4>1. handled # <<>> /\ handled \in Seq(Seq(Parts))
        BY <2>2 DEF BufferInv, TypeInv
      <4>2. Len(handled) # 0
        BY <4>1
      <4> QED
        BY <1>2, <4>2, Lengths DEF Framed
    <3> QED
      BY <1>3, <2>2, <3>1 DEF BufferInv
  <2>3. InBody => Len(buffer) < length
    BY DEF BufferInv
  <2>4. server = "handle" => Len(buffer) = length
    BY DEF BufferInv
  <2> QED
    BY <1>4, <1>5, <2>1, <2>2, <2>3, <2>4 DEF BufferInv
<1>8. BlameInv'
  <2>1. ASSUME NEW k \in 1 .. Len(sent'), sent'[k].kind \in Garbage PROVE blame'
    <3>1. CASE k \in 1 .. s
      BY <1>1, <1>2, <1>3, <2>1, <3>1 DEF BlameInv
    <3>2. CASE k = s + 1
      BY <1>1, <1>3, <2>1, <3>2
    <3> QED
      BY <1>3, <3>1, <3>2, LastOrBefore
  <2>2. StopsForCause'
    BY <1>1, <1>4 DEF BlameInv, StopsForCause
  <2> QED
    BY <2>1, <2>2 DEF BlameInv
<1> QED
  BY <1>6, <1>7, <1>8

\* A message that is not touched stays where it is.
LEMMA FrameKept ==
  ASSUME IInv, UNCHANGED <<sent, handled, buffer, length>>,
         InBody' => InBody, server' = "handle" => server = "handle",
         server' = "respond" => server = "respond"
  PROVE  Framed' /\ BufferInv'
<1>1. Framed'
  BY DEF Framed, IInv
<1>2. Current' = Current
  BY DEF Current
<1> QED
  BY <1>1, <1>2 DEF IInv, BufferInv

\* The chunk continues the body.
LEMMA ChunkFrame ==
  ASSUME IInv, ChunkArrives
  PROVE  Framed' /\ BufferInv'
<1> USE DEF IInv
<1>1. PICK n \in 1 .. Missing :
        /\ n <= Len(stream) /\ stream' = SubSeq(stream, n + 1, Len(stream))
        /\ HeaderArrives(n) \/ BodyArrives(n)
  BY DEF ChunkArrives
<1>2. /\ server = "receiving" /\ UNCHANGED <<sent, for, handled>>
      /\ server' \in {"stopped", "body", "handle", "stray"}
  BY <1>1 DEF ChunkArrives, HeaderArrives, BodyArrives
<1>3. /\ Current \in 1 .. Len(sent) /\ Have + n <= Size(Current)
      /\ Chunk(n) \in Seq(Parts) /\ Len(Chunk(n)) = n
      /\ \A k \in 1 .. n : Chunk(n)[k] = Cells(sent[Current], Current)[Have + k]
  BY <1>1, <1>2, ChunkIs
<1>4. Framed' /\ Current' = Current /\ sent' = sent
  BY <1>2 DEF Framed, Current
<1>5. CASE server' \in {"stopped", "stray"}
  BY <1>4, <1>5 DEF BufferInv, InBody
<1>6. PICK b \in Nat : b = Body(sent[Current])
  <2>1. Body(sent[Current]) \in 0 .. Capacity + 1
    BY <1>3, SentSize
  <2> QED
    BY <2>1
<1>7. CASE HeaderArrives(n) /\ n = HeaderCells
  <2>1. Have = 0 /\ 1 \in 1 .. n /\ 1 \in 1 .. HeaderCells + b /\ Have + 1 = 1
    BY <1>2, <1>7 DEF HeaderArrives, Have, InBody
  <2>2. Chunk(n)[1] = Cells(sent[Current], Current)[1]
    BY <1>3, <2>1
  <2>3. Cells(sent[Current], Current)[1].message = Current
    BY <1>3, <1>6, <2>1, SentSize, CellsOf
  <2>4. /\ length' = b /\ buffer' = <<>> /\ Len(buffer') = 0
        /\ server' = IF b = 0 THEN "handle" ELSE "body"
    BY <1>6, <1>7, <2>2, <2>3 DEF HeaderArrives
  <2>5. Len(buffer') < length' \/ server' = "handle"
    BY <2>4
  <2>6. server' = "handle" => Len(buffer') = length'
    BY <2>4
  <2> QED
    BY <1>2, <1>3, <1>4, <1>6, <2>4, <2>5, <2>6 DEF BufferInv, InBody
<1>8. CASE BodyArrives(n) /\ server' # "stray"
  <2>1. /\ for = "body" /\ length' = length /\ length = b
        /\ Have = HeaderCells + Len(buffer)
        /\ \A k \in 1 .. Len(buffer) :
             buffer[k] = Cells(sent[Current], Current)[HeaderCells + k]
    BY <1>2, <1>6, <1>8 DEF BodyArrives, BufferInv, InBody, Have
  <2>2. PICK l \in Nat : l = Len(buffer)
    BY Lengths
  <2>3. PICK c \in Seq(Parts) : c = Chunk(n)
    BY <1>3
  <2>4. /\ Len(buffer') = l + n /\ n \in Nat
        /\ \A k \in 1 .. l : buffer'[k] = buffer[k]
        /\ \A k \in 1 .. n : buffer'[l + k] = c[k]
    <3>1. buffer' = buffer \o c /\ buffer \in Seq(Parts) /\ Len(c) = n /\ n \in Nat
      BY <1>3, <1>8, <2>3 DEF BodyArrives, TypeInv
    <3>2. /\ Len(buffer \o c) = l + n
          /\ \A k \in 1 .. l : (buffer \o c)[k] = buffer[k]
      <4>1. /\ Len(buffer \o c) = Len(buffer) + Len(c)
            /\ \A k \in 1 .. Len(buffer) + Len(c) :
                 (buffer \o c)[k] = IF k <= Len(buffer) THEN buffer[k]
                                    ELSE c[k - Len(buffer)]
        BY <3>1, ConcatProperties
      <4>2. \A k \in 1 .. l : k \in 1 .. l + n /\ k <= l
        BY <3>1
      <4> QED
        BY <2>2, <3>1, <4>1, <4>2
    <3>3. ASSUME NEW k \in 1 .. n PROVE (buffer \o c)[l + k] = c[k]
      BY <2>2, <3>1
    <3> QED
      BY <3>1, <3>2, <3>3
  <2>5. l + n <= b
    <3>1. Size(Current) = HeaderCells + b /\ HeaderCells \in Nat
      BY <1>3, <1>6, SentSize
    <3>2. Have = HeaderCells + l
      BY <2>1, <2>2
    <3>3. HeaderCells + l + n <= HeaderCells + b
      BY <1>3, <3>1, <3>2
    <3> QED
      BY <1>6, <2>2, <2>4, <3>1, <3>3
  <2>6. ASSUME NEW k \in 1 .. l + n
        PROVE  buffer'[k] = Cells(sent[Current], Current)[HeaderCells + k]
    <3>1. CASE k <= l
      BY <2>1, <2>2, <2>4, <3>1
    <3>2. CASE ~(k <= l)
      <4>1. PICK j \in 1 .. n : k = l + j
        <5>1. k - l \in 1 .. n /\ k = l + (k - l)
          BY <2>4, <3>2
        <5> QED
          BY <5>1
      <4>2. Have + j = HeaderCells + k
        BY <2>1, <2>2, <2>4, <4>1
      <4> QED
        BY <1>3, <2>3, <2>4, <4>1, <4>2
    <3> QED
      BY <3>1, <3>2
  <2>7. server' = IF l + n < b THEN "body" ELSE "handle"
    BY <1>8, <2>1, <2>4 DEF BodyArrives
  <2>8. server' = "handle" => l + n = b
    BY <2>4, <2>5, <2>7
  <2> QED
    BY <1>2, <1>3, <1>4, <1>6, <2>1, <2>4, <2>6, <2>7, <2>8 DEF BufferInv, InBody
<1> QED
  BY <1>1, <1>4, <1>5, <1>7, <1>8 DEF HeaderArrives

\* The message becomes the last one handled.
LEMMA HandleFrame ==
  ASSUME IInv, Handle
  PROVE  Framed' /\ BufferInv'
<1> USE DEF IInv
<1>1. /\ server = "handle" /\ handled' = Append(handled, buffer)
      /\ UNCHANGED <<sent, buffer, length, for>>
      /\ server' \in {"stopped", "header", "respond", "stray"}
      /\ server' = "respond" => Received.kind \notin Unanswered
  BY HandleGoes DEF Handle, client
<1>2. /\ Current \in 1 .. Len(sent) /\ Received.kind = sent[Current].kind
      /\ buffer = SubSeq(Cells(sent[Current], Current), HeaderCells + 1,
                         HeaderCells + Body(sent[Current]))
  BY <1>1, ReceivedIs
<1>3. /\ Len(handled') = Current /\ handled'[Current] = buffer
      /\ \A k \in 1 .. Len(handled) : handled'[k] = handled[k]
  BY <1>1 DEF Current, TypeInv
<1>4. Framed'
  <2>1. Len(handled') <= Len(sent')
    BY <1>1, <1>2, <1>3, Lengths
  <2>2. ASSUME NEW k \in 1 .. Current
        PROVE  handled'[k] = SubSeq(Cells(sent[k], k), HeaderCells + 1,
                                    HeaderCells + Body(sent[k]))
    <3>1. CASE k \in 1 .. Len(handled)
      BY <1>3, <3>1 DEF Framed
    <3>2. CASE k = Current
      BY <1>2, <1>3, <3>2
    <3> QED
      BY <3>1, <3>2, Lengths DEF Current
  <2> QED
    BY <1>1, <1>3, <2>1, <2>2 DEF Framed
<1>5. BufferInv'
  <2>1. ~InBody' /\ server' # "handle"
    BY <1>1 DEF InBody
  <2>2. Len(buffer) = length
    BY <1>1 DEF BufferInv
  <2>3. handled' # <<>>
    <3>1. handled \in Seq(Seq(Parts)) /\ buffer \in Seq(Parts)
      BY DEF TypeInv
    <3> QED
      BY <1>1, <3>1, AppendProperties
  <2>4. server' = "respond" => sent'[Len(handled')].kind \notin Unanswered
    BY <1>1, <1>2, <1>3
  <2> QED
    BY <1>1, <1>3, <2>1, <2>2, <2>3, <2>4 DEF BufferInv
<1> QED
  BY <1>4, <1>5

LEMMA FrameStep ==
  ASSUME IInv, [Next]_vars
  PROVE  Framed' /\ BufferInv'
<1>1. CASE Sends
  BY <1>1, SendsFrame
<1>2. CASE ChunkArrives
  BY <1>2, ChunkFrame
<1>3. CASE Handle
  BY <1>3, HandleFrame
<1>4. CASE Accept
  <2>1. handled' = <<>> /\ sent' = <<>> /\ server' = "header" /\ Len(handled') = 0
    BY <1>4 DEF Accept
  <2> QED
    BY <2>1 DEF Framed, BufferInv, InBody
<1>5. CASE ClientCloses \/ ConnectionReset
  BY <1>5, FrameKept DEF ClientCloses, ConnectionReset, Unmoved, InBody
<1>6. CASE Receive
  <2>1. InBody' => InBody
    BY <1>6 DEF Receive, InBody
  <2> QED
    BY <1>6, <2>1, FrameKept DEF Receive, client
<1>7. CASE \/ NoRxEvent \/ PeerClosed \/ ReceiveFails \/ CleanUp \/ AcceptFails
           \/ Transmit \/ TransmitFails
  BY <1>7, FrameKept DEF NoRxEvent, PeerClosed, ReceiveFails, CleanUp, AcceptFails,
     Transmit, TransmitFails, AfterSending, Connected, client, InBody
<1>8. CASE Firmware
  <2>1. UNCHANGED <<sent, handled, buffer, length>>
    BY <1>8 DEF Firmware, Succeeds, Fails, NoAddress, ConfigureAgain, Connected, client
  <2>2. server' \notin {"body", "receiving", "handle", "respond"}
    <3>1. ASSUME NEW k \in 1 .. 7, k < 7
          PROVE  SetUp[k + 1] \notin {"body", "receiving", "handle", "respond"}
      BY <3>1, SetUpIs
    <3>2. Succeeds => server' \notin {"body", "receiving", "handle", "respond"}
      BY <3>1, SetUpIs DEF Succeeds, AfterCall
    <3> QED
      BY <1>8, <3>2 DEF Firmware, Fails, NoAddress, ConfigureAgain
  <2> QED
    BY <2>1, <2>2, FrameKept DEF InBody
<1>9. CASE UNCHANGED vars
  BY <1>9, FrameKept DEF vars, client, InBody
<1> QED
  BY <1>1, <1>2, <1>3, <1>4, <1>5, <1>6, <1>7, <1>8, <1>9
  DEF Next, Client, Server, Sends

-----------------------------------------------------------------------------
(* Why the program stops. *)

\* A client that closes the connection in the middle of a body has not sent
\* the whole message.
LEMMA CutShort ==
  ASSUME IInv, PeerClosed, for = "body"
  PROVE  blame
<1> USE DEF IInv
<1>1. server = "receiving" /\ peer = "closed" /\ stream = <<>>
  BY DEF PeerClosed
<1>2. SUFFICES ASSUME ~blame PROVE FALSE
  BY DEF TypeInv
<1>3. PICK ahead \in [Nat -> Int] : Wire(ahead)
  BY <1>1 DEF WireInv, Reading
<1>4. PICK s \in Nat : s = Len(sent)
  BY Lengths
<1>5. PICK c \in Nat : c = Current
  BY Lengths
<1>6. c \in 1 .. s /\ length = Body(sent[c]) /\ Len(buffer) < length
  BY <1>1, <1>4, <1>5, Lengths DEF BufferInv, InBody
<1>7. Size(c) = HeaderCells + length
  BY <1>4, <1>6, SentSize
<1>8. ahead[s + 1] = 0
  <2>1. Len(stream) = 0
    BY <1>1
  <2> QED
    BY <1>2, <1>3, <1>4, <2>1 DEF Wire
<1>9. ahead[c + 1] <= ahead[s + 1]
  <2>1. c + 1 \in 1 .. s + 1 /\ s + 1 \in 1 .. s + 1 /\ c + 1 <= s + 1
    BY <1>6
  <2> QED
    BY <1>3, <1>4, <2>1 DEF Wire
<1>10. /\ ahead[c + 1] = ahead[c] + Size(c)
       /\ ahead[c] + (HeaderCells + Len(buffer)) = 0
  BY <1>1, <1>3, <1>4, <1>5, <1>6 DEF Wire, Have, InBody
<1>11. PICK a \in Int, d \in Int, b \in Nat, l \in Nat :
          a = ahead[c] /\ d = ahead[c + 1] /\ b = Len(buffer) /\ l = length
  BY <1>5, Lengths
<1>12. d = a + (HeaderCells + l) /\ a + (HeaderCells + b) = 0 /\ b < l /\ d <= 0
  BY <1>6, <1>7, <1>8, <1>9, <1>10, <1>11
<1> QED
  BY <1>12

LEMMA BlameStep ==
  ASSUME IInv, [Next]_vars
  PROVE  BlameInv'
<1> USE DEF IInv
<1>1. CASE Sends
  BY <1>1, SendsFrame
<1>2. CASE Accept
  <2>1. sent' = <<>> /\ server' = "header" /\ Len(sent') = 0
    BY <1>2 DEF Accept
  <2> QED
    BY <2>1 DEF BlameInv, StopsForCause
<1>3. CASE ~Sends /\ ~Accept
  <2>1. sent' = sent
    BY <1>3 DEF Next, Client, Server, Sends, Firmware, ClientCloses, ConnectionReset,
       Receive, ChunkArrives, PeerClosed, ReceiveFails, Handle, Transmit, TransmitFails,
       CleanUp, Succeeds, Fails, NoAddress, ConfigureAgain, NoRxEvent, AcceptFails,
       Connected, client, vars
  <2>2. blame => blame'
    BY <1>3 DEF Next, Client, Server, Sends, Firmware, ClientCloses, ConnectionReset,
       Receive, ChunkArrives, HeaderArrives, BodyArrives, PeerClosed, ReceiveFails,
       Handle, Transmit, TransmitFails,
       CleanUp, Succeeds, Fails, NoAddress, ConfigureAgain, NoRxEvent, AcceptFails,
       vars
  <2>3. ASSUME server' \in {"stopped", "ended"}, server' # server PROVE blame'
    <3>1. CASE NoRxEvent \/ Fails \/ AcceptFails
      BY <3>1 DEF NoRxEvent, Fails, AcceptFails
    <3>2. CASE ChunkArrives
      BY <2>3, <3>2 DEF ChunkArrives, HeaderArrives, BodyArrives
    <3>3. CASE PeerClosed
      <4>1. for = "body" /\ blame' = blame
        BY <2>3, <3>3 DEF PeerClosed, TypeInv
      <4> QED
        BY <3>3, <4>1, CutShort
    <3>4. CASE ReceiveFails
      BY <3>4 DEF ReceiveFails, WireInv
    <3>5. CASE Handle
      <4>1. Received.kind \in Garbage /\ server = "handle" /\ blame' = blame
        BY <2>3, <3>5, HandleGoes DEF Handle
      <4>2. Current \in 1 .. Len(sent) /\ sent[Current].kind \in Garbage
        BY <4>1, ReceivedIs
      <4> QED
        BY <4>1, <4>2 DEF BlameInv
    <3>6. CASE CleanUp
      BY <3>6 DEF CleanUp, BlameInv, StopsForCause
    <3>7. CASE Transmit \/ TransmitFails
      BY <2>3, <3>7 DEF Transmit, TransmitFails, AfterSending
    <3>8. CASE Succeeds \/ NoAddress \/ ConfigureAgain
      <4>1. ASSUME NEW k \in 1 .. 7, k < 7 PROVE SetUp[k + 1] \notin {"stopped", "ended"}
        BY <4>1, SetUpIs
      <4>2. server' \notin {"stopped", "ended"}
        BY <3>8, <4>1, SetUpIs DEF Succeeds, AfterCall, NoAddress, ConfigureAgain
      <4> QED
        BY <2>3, <4>2
    <3>9. CASE ClientCloses \/ ConnectionReset \/ Receive \/ UNCHANGED vars
      BY <2>3, <3>9 DEF ClientCloses, ConnectionReset, Unmoved, Receive, vars
    <3> QED
      BY <1>3, <3>1, <3>2, <3>3, <3>4, <3>5, <3>6, <3>7, <3>8, <3>9
      DEF Next, Client, Server, Sends, Firmware
  <2> QED
    BY <2>1, <2>2, <2>3 DEF BlameInv, StopsForCause
<1> QED
  BY <1>1, <1>2, <1>3

-----------------------------------------------------------------------------
(* The invariant is inductive. *)

LEMMA TypeStep ==
  ASSUME IInv, [Next]_vars
  PROVE  TypeInv'
<1>1. TypeInv
  BY DEF IInv
<1>2. CASE Client
  BY <1>1, <1>2, ClientTypes
<1>3. CASE Receive \/ NoRxEvent \/ ChunkArrives \/ PeerClosed \/ ReceiveFails
  BY <1>3, ReceiveTypes
<1>4. CASE Handle \/ Transmit \/ TransmitFails
  BY <1>4, HandleTypes
<1>5. CASE Firmware \/ Accept \/ AcceptFails \/ CleanUp
  BY <1>1, <1>5, CallTypes
<1>6. CASE UNCHANGED vars
  BY <1>1, <1>6 DEF vars, client, TypeInv, RxEventsClosed
<1> QED
  BY <1>2, <1>3, <1>4, <1>5, <1>6 DEF Next, Server

LEMMA Initially ==
  ASSUME Init
  PROVE  IInv
<1>1. TypeInv
  <2>1. SetUp[1] = "locate" /\ 1 \in 1 .. Len(SetUp)
    BY DEF SetUp
  <2>2. server \in {SetUp[k] : k \in 1 .. Len(SetUp)}
    BY <2>1 DEF Init
  <2>3. blame \in BOOLEAN /\ lost \in BOOLEAN
    BY ZenonT(30) DEF Init
  <2>4. held \subseteq {Gain(k) : k \in 1 .. Len(SetUp)}
    BY DEF Init
  <2> QED
    BY <2>2, <2>3, <2>4 DEF Init, TypeInv, RxEventsClosed
<1>2. Framed /\ WireInv /\ BufferInv /\ BlameInv
  BY DEF Init, Framed, WireInv, BufferInv, BlameInv, StopsForCause, Reading, InBody
<1>3. HeldInv
  <2>1. ASSUME NEW k \in 1 .. Len(SetUp), server = SetUp[k]
        PROVE  held = {Gain(j) : j \in 1 .. k - 1}
    <3>1. k = 1
      BY <2>1, SetUpIs DEF Init
    <3> QED
      BY <3>1 DEF Init
  <2> QED
    BY <2>1 DEF Init, HeldInv, CleanedUp
<1> QED
  BY <1>1, <1>2, <1>3 DEF IInv

LEMMA Invariant == Spec => []IInv
<1>1. Init => IInv
  BY Initially
<1>2. IInv /\ [Next]_vars => IInv'
  BY TypeStep, WireStep, FrameStep, BlameStep, HeldStep DEF IInv
<1> QED
  BY <1>1, <1>2, PTL DEF Spec

-----------------------------------------------------------------------------
(* The answers. *)

Reply == [to : 1 .. MaxMessages, last : BOOLEAN]

\* A message is answered by n packets, the nth of which is the last.
LEMMA PromisedIs ==
  ASSUME TypeInv, NEW k \in 1 .. Len(sent)
  PROVE  \E n \in Nat :
           /\ Promised(k) = [j \in 1 .. n |-> [to |-> k, last |-> j = n]]
           /\ Promised(k) \in Seq(Reply) /\ Len(Promised(k)) = n
           /\ sent[k].kind \in Unanswered => n = 0
           /\ sent[k].kind \notin Unanswered =>
                /\ n # 0
                /\ \A j \in 1 .. n :
                     j = n <=> (sent[k].kind = "multiping" => j >= sent[k].count)
<1> DEFINE g == sent[k].kind \in Unanswered
           q == sent[k].kind = "multiping" /\ sent[k].count > 1
<1>1. sent[k] \in Message /\ k \in 1 .. MaxMessages
  BY SentSize
<1>2. sent[k].count \in Nat
  <2>1. \A m \in Message : m.count \in {1} \cup PingCounts
    BY DEF Message
  <2>2. {1} \cup PingCounts \subseteq Nat
    BY ConnectionBounds
  <2>3. PICK m \in Message : m = sent[k]
    BY <1>1
  <2>4. m.count \in Nat
    BY <2>1, <2>2, Zenon
  <2> QED
    BY <2>3, <2>4
<1>3. ~ (g /\ q)
  BY DEF Unanswered, Garbage, Silent, Oversized
<1>4. PICK n \in Nat : n = IF g THEN 0 ELSE IF q THEN sent[k].count ELSE 1
  BY <1>2
<1>5. Promised(k) = [j \in 1 .. n |-> [to |-> k, last |-> j = n]]
  BY <1>3, <1>4 DEF Promised
<1>6. \A j \in 1 .. n : [to |-> k, last |-> j = n] \in Reply
  BY <1>1 DEF Reply
<1> DEFINE r == [j \in 1 .. n |-> [to |-> k, last |-> j = n]]
<1>7. r \in Seq(Reply) /\ Len(r) = n
  <2>1. r \in [1 .. n -> Reply]
    BY <1>6
  <2> HIDE DEF r
  <2> QED
    BY <2>1
<1>8. ~g => \A j \in 1 .. n :
              j = n <=> (sent[k].kind = "multiping" => j >= sent[k].count)
  BY <1>2, <1>4
<1>9. /\ Promised(k) \in Seq(Reply) /\ Len(Promised(k)) = n
      /\ g => n = 0
      /\ ~g => n # 0
  <2> HIDE DEF r, g, q
  <2>1. n = IF g THEN 0 ELSE IF q THEN sent[k].count ELSE 1
    BY <1>4
  <2>2. q => sent[k].count # 0
    BY <1>2 DEF q
  <2> QED
    BY <1>5, <1>7, <2>1, <2>2 DEF r
<1> HIDE DEF r
<1> QED
  BY <1>5, <1>8, <1>9

LEMMA AnswersNext ==
  ASSUME TypeInv, NEW h \in 1 .. Len(sent)
  PROVE  /\ Answers(h) = Answers(h - 1) \o Promised(h)
         /\ Answers(h - 1) \in Seq(Reply) /\ Answers(h) \in Seq(Reply)
<1>1. \A k \in 1 .. h : Promised(k) \in Seq(Reply)
  <2> TAKE k \in 1 .. h
  <2>1. k \in 1 .. Len(sent)
    BY Lengths
  <2> QED
    BY <2>1, PromisedIs
<1> DEFINE a(n) == [k \in 1 .. n |-> Promised(k)]
<1>2. a(h) \in [1 .. h -> Seq(Reply)] /\ a(h - 1) \in [1 .. h - 1 -> Seq(Reply)]
  BY <1>1
<1>3. a(h) \in Seq(Seq(Reply)) /\ a(h - 1) \in Seq(Seq(Reply))
  BY <1>2, Lengths
<1>4. a(h) = Append(a(h - 1), Promised(h))
  <2>1. Len(a(h)) = h /\ Len(a(h - 1)) = h - 1
    BY <1>2, <1>3, Lengths
  <2>2. PICK s \in Seq(Seq(Reply)) : s = a(h - 1) /\ Len(s) = h - 1
    BY <1>3, <2>1
  <2>3. PICK x \in Seq(Reply) : x = Promised(h)
    BY <1>1
  <2>4. /\ Append(s, x) \in Seq(Seq(Reply)) /\ Len(Append(s, x)) = h
        /\ Append(s, x)[h] = x
        /\ \A k \in 1 .. h - 1 : Append(s, x)[k] = s[k]
    BY <2>2
  <2>5. \A k \in 1 .. h : a(h)[k] = Append(s, x)[k]
    <3> TAKE k \in 1 .. h
    <3>1. k = h \/ k \in 1 .. h - 1
      OBVIOUS
    <3> QED
      BY <2>2, <2>3, <2>4, <3>1
  <2> HIDE DEF a
  <2>6. a(h) = Append(s, x)
    BY <1>3, <2>1, <2>4, <2>5, SeqEqual
  <2> QED
    BY <2>2, <2>3, <2>6
<1> HIDE DEF a
<1>5. PICK x \in Seq(Reply) : x = Promised(h)
  BY <1>1
<1>6. FlattenSeq(a(h)) = FlattenSeq(a(h - 1)) \o x
  BY <1>3, <1>4, <1>5, FlatAppend
<1>7. FlattenSeq(a(h)) \in Seq(Reply) /\ FlattenSeq(a(h - 1)) \in Seq(Reply)
  BY <1>3, FlatType
<1> QED
  BY <1>5, <1>6, <1>7 DEF a, Answers

\* The answers to messages that stay as they are.
LEMMA AnswersKept ==
  ASSUME NEW h \in Nat, \A k \in 1 .. h : sent'[k] = sent[k]
  PROVE  /\ Answers(h)' = Answers(h)
         /\ \A k \in 1 .. h : Promised(k)' = Promised(k)
<1>1. \A k \in 1 .. h : Promised(k)' = Promised(k)
  BY DEF Promised
<1>2. [k \in 1 .. h |-> Promised(k)]' = [k \in 1 .. h |-> Promised(k)]
  BY <1>1
<1> QED
  BY <1>1, <1>2 DEF Answers

LEMMA NoAnswers == Answers(0) = <<>>
<1>1. [k \in 1 .. 0 |-> Promised(k)] = <<>>
  OBVIOUS
<1> QED
  BY <1>1 DEF Answers, FlattenSeq

\* While a message is answered, receive_buffer still holds it.
LEMMA ReceivedThen ==
  ASSUME IInv, server = "respond"
  PROVE  /\ Len(handled) \in 1 .. Len(sent)
         /\ Received = sent[Len(handled)]
         /\ sent[Len(handled)].kind \notin Unanswered
<1> USE DEF IInv
<1>1. PICK h \in Nat : h = Len(handled) /\ h \in 1 .. Len(sent)
  BY Lengths DEF BufferInv, Framed
<1>2. /\ buffer = handled[h] /\ length = Len(buffer)
      /\ sent[h].kind \notin Unanswered
  BY <1>1 DEF BufferInv
<1>3. PICK m \in Message : m = sent[h]
  BY <1>1, SentSize
<1>4. PICK b \in Nat : b = Body(m) /\ b # 0
  BY <1>2, <1>3, BodySize DEF Unanswered, Garbage
<1>5. h \in 1 .. MaxMessages
  BY <1>1, SentSize
<1>6. /\ Cells(m, h) \in Seq(Parts) /\ Len(Cells(m, h)) = HeaderCells + b
      /\ \A p \in 1 .. HeaderCells + b : Cells(m, h)[p].message = h
  BY <1>4, <1>5, CellsOf
<1>7. PICK c \in Seq(Parts) : c = Cells(m, h) /\ Len(c) = HeaderCells + b
  BY <1>6
<1>8. buffer = SubSeq(c, HeaderCells + 1, HeaderCells + b)
  BY <1>1, <1>2, <1>3, <1>4, <1>7 DEF Framed
<1>9. Len(buffer) = b /\ buffer[1] = c[HeaderCells + 1]
  BY <1>4, <1>7, <1>8
<1>10. buffer[1].message = h
  BY <1>4, <1>6, <1>7, <1>9
<1> QED
  BY <1>1, <1>2, <1>4, <1>9, <1>10 DEF Received


\* Steps that neither handle nor answer anything.
LEMMA AnswerKept ==
  ASSUME IInv, AnswerInv, UNCHANGED <<handled, replies, i, lost>>,
         \A k \in 1 .. Len(handled) : sent'[k] = sent[k],
         server' = "respond" <=> server = "respond"
  PROVE  AnswerInv'
<1>1. PICK h \in Nat : h = Len(handled)
  BY Lengths DEF IInv
<1>2. Len(handled)' = h
  BY <1>1
<1>3. Answers(h)' = Answers(h) /\ \A k \in 1 .. h : Promised(k)' = Promised(k)
  BY <1>1, AnswersKept
<1>4. CASE lost
  BY <1>4 DEF AnswerInv
<1>5. CASE ~lost /\ server # "respond"
  BY <1>1, <1>2, <1>3, <1>5 DEF AnswerInv
<1>6. CASE ~lost /\ server = "respond"
  <2>1. h \in 1 .. h /\ h - 1 \in Nat
    BY <1>1, <1>6, ReceivedThen
  <2>2. \A k \in 1 .. h - 1 : sent'[k] = sent[k]
    BY <1>1
  <2>3. Answers(h - 1)' = Answers(h - 1)
    BY <2>1, <2>2, AnswersKept
  <2>4. Promised(h)' = Promised(h)
    BY <1>3, <2>1
  <2>5. i \in 1 .. Len(Promised(h)) /\ replies = Answers(h - 1) \o SubSeq(Promised(h), 1, i - 1)
    BY <1>1, <1>6 DEF AnswerInv
  <2>6. /\ i' \in 1 .. Len(Promised(h)')
        /\ replies' = Answers(h - 1)' \o SubSeq(Promised(h)', 1, i' - 1)
    BY <2>3, <2>4, <2>5
  <2> QED
    BY <1>2, <1>6, <2>6 DEF AnswerInv
<1> QED
  BY <1>4, <1>5, <1>6

\* A new message: nothing of its answer is sent yet.
LEMMA HandleAnswers ==
  ASSUME IInv, AnswerInv, Handle
  PROVE  AnswerInv'
<1> SUFFICES ASSUME ~lost
             PROVE  AnswerInv'
  BY DEF Handle, AnswerInv
<1>1. PICK h \in Nat : h = Len(handled) /\ h + 1 = Current /\ h + 1 \in 1 .. Len(sent)
  BY ReceivedIs, Lengths DEF Handle, Current, IInv
<1>2. /\ Len(handled)' = h + 1
      /\ sent' = sent /\ replies' = replies /\ lost' = lost /\ i' = 1
      /\ server = "handle"
  BY <1>1 DEF Handle, client, IInv, TypeInv
<1>3. Received.kind = sent[h + 1].kind
  BY <1>1, <1>2, ReceivedIs
<1>4. /\ server' = "respond" => sent[h + 1].kind \notin Unanswered
      /\ server' # "respond" => sent[h + 1].kind \in Unanswered
  BY <1>3, HandleGoes
<1>5. replies = Answers(h)
  BY <1>1, <1>2 DEF AnswerInv
<1>6. PICK n \in Nat :
        /\ Promised(h + 1) \in Seq(Reply) /\ Len(Promised(h + 1)) = n
        /\ sent[h + 1].kind \in Unanswered => n = 0
        /\ sent[h + 1].kind \notin Unanswered => n # 0
  <2>1. TypeInv
    BY DEF IInv
  <2> QED
    BY <1>1, <2>1, PromisedIs
<1>7. /\ Answers(h + 1) = Answers(h) \o Promised(h + 1)
      /\ Answers(h) \in Seq(Reply)
  <2>1. TypeInv
    BY DEF IInv
  <2>2. PICK j \in 1 .. Len(sent) : j = h + 1
    BY <1>1
  <2>3. j - 1 = h
    BY <2>2
  <2>4. /\ Answers(j) = Answers(j - 1) \o Promised(j)
        /\ Answers(j - 1) \in Seq(Reply)
    BY <2>1, AnswersNext, Zenon
  <2> QED
    BY <2>2, <2>3, <2>4, Zenon
<1>8. /\ Answers(h)' = Answers(h) /\ Answers(h + 1)' = Answers(h + 1)
      /\ Promised(h + 1)' = Promised(h + 1)
  <2>1. Answers(h)' = Answers(h)
    BY <1>2, AnswersKept
  <2>2. h + 1 \in Nat /\ h + 1 \in 1 .. h + 1
    OBVIOUS
  <2> QED
    BY <1>2, <2>1, <2>2, AnswersKept
<1>9. CASE server' = "respond"
  <2>1. i' \in 1 .. n
    BY <1>2, <1>4, <1>6, <1>9
  <2>2. SubSeq(Promised(h + 1), 1, i' - 1) = <<>>
    BY <1>2, SubSeqEmpty
  <2>3. replies' = Answers(h) \o SubSeq(Promised(h + 1), 1, i' - 1)
    BY <1>2, <1>5, <1>7, <2>2, ConcatEmptySeq
  <2>4. h + 1 - 1 = h
    OBVIOUS
  <2> QED
    BY <1>2, <1>6, <1>8, <1>9, <2>1, <2>3, <2>4 DEF AnswerInv
<1>10. CASE server' # "respond"
  <2>1. Promised(h + 1) = <<>>
    BY <1>4, <1>6, <1>10, EmptySeq
  <2>2. replies' = Answers(h + 1)
    BY <1>2, <1>5, <1>7, <2>1, ConcatEmptySeq
  <2> QED
    BY <1>2, <1>8, <1>10, <2>2 DEF AnswerInv
<1> QED
  BY <1>9, <1>10


\* One more packet of the answer.
LEMMA TransmitAnswers ==
  ASSUME IInv, AnswerInv, Transmit
  PROVE  AnswerInv'
<1> SUFFICES ASSUME ~lost
             PROVE  AnswerInv'
  BY DEF Transmit, AnswerInv
<1>1. PICK h \in 1 .. Len(sent) : h = Len(handled)
  BY ReceivedThen DEF Transmit
<1>2. /\ server = "respond" /\ i' = i + 1 /\ i \in Nat /\ lost' = lost
      /\ replies' = Append(replies, [to |-> h, last |-> IsLast])
      /\ server' = AfterSending(TRUE)
      /\ sent' = sent /\ handled' = handled
  BY <1>1 DEF Transmit, client, IInv, TypeInv
<1>3. Received = sent[h] /\ sent[h].kind \notin Unanswered
  BY <1>1, <1>2, ReceivedThen
<1>4. TypeInv /\ h \in Nat
  BY Lengths DEF IInv
<1>5. PICK n \in Nat :
        /\ Promised(h) = [j \in 1 .. n |-> [to |-> h, last |-> j = n]]
        /\ Promised(h) \in Seq(Reply) /\ Len(Promised(h)) = n
        /\ n # 0
        /\ \A j \in 1 .. n :
             j = n <=> (sent[h].kind = "multiping" => j >= sent[h].count)
  BY <1>3, <1>4, PromisedIs
<1>6. i \in 1 .. n /\ replies = Answers(h - 1) \o SubSeq(Promised(h), 1, i - 1)
  BY <1>1, <1>2, <1>5 DEF AnswerInv
<1>7. /\ Answers(h) = Answers(h - 1) \o Promised(h)
      /\ Answers(h - 1) \in Seq(Reply)
  BY <1>4, AnswersNext, Zenon
<1>8. IsLast <=> i = n
  BY <1>3, <1>5, <1>6 DEF IsLast
<1>9. Promised(h)[i] = [to |-> h, last |-> IsLast]
  <2>1. Promised(h)[i] = [to |-> h, last |-> i = n]
    BY <1>5, <1>6
  <2> QED
    BY <1>8, <2>1
<1>10. replies' = Answers(h - 1) \o SubSeq(Promised(h), 1, i)
  <2>1. PICK a \in Seq(Reply) : a = Answers(h - 1)
    BY <1>7
  <2>2. PICK b \in Seq(Reply) : b = Promised(h) /\ Len(b) = n
    BY <1>5
  <2>3. PICK k \in 1 .. n : k = i
    BY <1>6
  <2>4. SubSeq(b, 1, k) = Append(SubSeq(b, 1, k - 1), b[k])
    <3>1. b[k] \in Reply
      BY <2>2
    <3> QED
      BY <2>2, <2>3
  <2>5. a \o Append(SubSeq(b, 1, k - 1), b[k]) = Append(a \o SubSeq(b, 1, k - 1), b[k])
    <3>1. b[k] \in Reply /\ SubSeq(b, 1, k - 1) \in Seq(Reply)
      BY <2>2, <2>3
    <3>2. PICK x \in Reply : x = b[k]
      BY <3>1
    <3>3. PICK c \in Seq(Reply) : c = SubSeq(b, 1, k - 1)
      BY <3>1
    <3>4. a \o Append(c, x) = Append(a \o c, x)
      OBVIOUS
    <3> QED
      BY <3>2, <3>3, <3>4
  <2>6. replies' = Append(a \o SubSeq(b, 1, k - 1), b[k])
    BY <1>2, <1>6, <1>9, <2>1, <2>2, <2>3, Zenon
  <2> QED
    BY <2>1, <2>2, <2>3, <2>4, <2>5, <2>6, Zenon
<1>11. /\ Answers(h)' = Answers(h) /\ Answers(h - 1)' = Answers(h - 1)
       /\ Promised(h)' = Promised(h)
  <2>1. h - 1 \in Nat /\ h \in 1 .. h
    BY <1>4
  <2> QED
    BY <1>2, <1>4, <2>1, AnswersKept
<1>12. Len(handled)' = h
  BY <1>1, <1>2
<1>13. CASE i # n
  <2>1. sent[h].kind = "multiping"
    BY <1>3, <1>8, <1>13 DEF IsLast
  <2>2. server' = "respond"
    BY <1>2, <1>3, <1>8, <1>13, <2>1 DEF AfterSending
  <2>3. i' \in 1 .. n /\ i' - 1 = i
    BY <1>2, <1>6, <1>13
  <2>4. replies' = Answers(h - 1) \o SubSeq(Promised(h), 1, i' - 1)
    BY <1>10, <2>3
  <2> QED
    BY <1>5, <1>11, <1>12, <2>2, <2>3, <2>4 DEF AnswerInv
<1>14. CASE i = n
  <2>1. server' # "respond"
    BY <1>2, <1>8, <1>14 DEF AfterSending
  <2>2. SubSeq(Promised(h), 1, n) = Promised(h)
    BY <1>5, SubSeqFull
  <2>3. replies' = Answers(h)
    BY <1>7, <1>10, <1>14, <2>2, Zenon
  <2> QED
    BY <1>11, <1>12, <2>1, <2>3 DEF AnswerInv
<1> QED
  BY <1>13, <1>14

LEMMA AnswerStep ==
  ASSUME IInv, AnswerInv, [Next]_vars
  PROVE  AnswerInv'
<1> DEFINE others == <<handled, replies, i, lost>>
           kept == \A k \in 1 .. Len(handled) : sent'[k] = sent[k]
<1>1. sent' = sent => kept
  OBVIOUS
<1>2. CASE Sends
  <2>1. PICK m \in Message :
          sent' = Append(sent, m) /\ UNCHANGED <<clients, Unmoved>>
    BY <1>2, SendsCells DEF IInv
  <2>2. kept
    <3>1. \A k \in 1 .. Len(sent) : sent'[k] = sent[k]
      BY <2>1, SentKept DEF IInv
    <3>2. Len(handled) \in Nat /\ Len(sent) \in Nat /\ Len(handled) <= Len(sent)
      BY Lengths DEF IInv, Framed
    <3> QED
      BY <3>1, <3>2
  <2>3. UNCHANGED others /\ server' = server
    BY <2>1 DEF Unmoved
  <2> QED
    BY <2>2, <2>3, AnswerKept
<1>3. CASE ClientCloses \/ ConnectionReset
  BY <1>1, <1>3, AnswerKept DEF ClientCloses, ConnectionReset, Unmoved
<1>4. CASE Receive \/ NoRxEvent \/ ChunkArrives \/ PeerClosed \/ ReceiveFails
  <2>1. sent' = sent /\ UNCHANGED others
    BY <1>4 DEF Receive, NoRxEvent, ChunkArrives, PeerClosed, ReceiveFails, client
  <2>2. server # "respond" /\ server' # "respond"
    BY <1>4 DEF Receive, NoRxEvent, ChunkArrives, PeerClosed, ReceiveFails,
                HeaderArrives, BodyArrives
  <2> QED
    BY <1>1, <2>1, <2>2, AnswerKept
<1>5. CASE Handle
  BY <1>5, HandleAnswers
<1>6. CASE Transmit
  BY <1>6, TransmitAnswers
<1>7. CASE TransmitFails
  BY <1>7 DEF TransmitFails, AnswerInv
<1>8. CASE Firmware \/ AcceptFails \/ CleanUp
  <2>1. sent' = sent /\ UNCHANGED others
    BY <1>8 DEF Firmware, Succeeds, Fails, NoAddress, ConfigureAgain, AcceptFails,
                CleanUp, Connected, client
  <2>2. server # "respond" /\ server' # "respond"
    <3>1. CASE Succeeds \/ Fails
      <4>1. PICK k \in 1 .. 7 : server = SetUp[k]
        BY <3>1, SetUpIs DEF Succeeds, Fails
      <4>2. SetUp[k] # "respond" /\ \A j \in 1 .. 7 : SetUp[j] # "respond"
        BY SetUpIs
      <4>3. server' # "respond"
        BY <3>1, <4>2, SetUpIs DEF Succeeds, Fails, AfterCall
      <4> QED
        BY <4>1, <4>2, <4>3
    <3>2. CASE NoAddress \/ ConfigureAgain \/ AcceptFails \/ CleanUp
      BY <3>2 DEF NoAddress, ConfigureAgain, AcceptFails, CleanUp
    <3> QED
      BY <1>8, <3>1, <3>2 DEF Firmware
  <2> QED
    BY <1>1, <2>1, <2>2, AnswerKept
<1>9. CASE Accept
  <2>1. handled' = <<>> /\ replies' = <<>> /\ server' = "header" /\ sent' = <<>>
    BY <1>9 DEF Accept
  <2>2. Answers(0)' = Answers(0)
    BY AnswersKept
  <2> QED
    BY <2>1, <2>2, NoAnswers DEF AnswerInv
<1>10. CASE UNCHANGED vars
  BY <1>1, <1>10, AnswerKept DEF vars, client
<1> QED
  BY <1>2, <1>3, <1>4, <1>5, <1>6, <1>7, <1>8, <1>9, <1>10
     DEF Next, Client, Server, Sends


\* What is sent is the beginning of what is promised.
LEMMA BeginningSent ==
  ASSUME IInv, AnswerInv
  PROVE  RepliesMatch
<1> SUFFICES ASSUME ~lost
             PROVE  /\ IsPrefix(replies, Answers(Len(handled)))
                    /\ server \in {"header", "listen", "rebooted"} =>
                         replies = Answers(Len(handled))
  BY DEF RepliesMatch, Answers
<1>1. TypeInv
  BY DEF IInv
<1>2. replies \in Seq(Reply)
  BY <1>1 DEF TypeInv, Reply
<1>3. CASE server # "respond"
  <2>1. replies = Answers(Len(handled))
    BY <1>3 DEF AnswerInv
  <2>2. PICK r \in Seq(Reply) : r = replies
    BY <1>2
  <2>3. IsPrefix(r, r)
    BY DEF IsPrefix
  <2> QED
    BY <2>1, <2>2, <2>3
<1>4. CASE server = "respond"
  <2>1. PICK h \in 1 .. Len(sent) : h = Len(handled)
    BY <1>4, ReceivedThen
  <2>2. i \in 1 .. Len(Promised(h)) /\ replies = Answers(h - 1) \o SubSeq(Promised(h), 1, i - 1)
    BY <1>4, <2>1 DEF AnswerInv
  <2>3. /\ Answers(h) = Answers(h - 1) \o Promised(h)
        /\ Answers(h - 1) \in Seq(Reply)
    BY <1>1, AnswersNext, Zenon
  <2>4. Promised(h) \in Seq(Reply)
    BY <1>1, PromisedIs
  <2>5. PICK a \in Seq(Reply) : a = Answers(h - 1)
    BY <2>3
  <2>6. PICK b \in Seq(Reply) : b = Promised(h)
    BY <2>4
  <2>7. PICK k \in 0 .. Len(b) : k = i - 1
    BY <2>2, <2>6
  <2>8. IsPrefix(a \o SubSeq(b, 1, k), a \o b)
    BY BeginningIsPrefix
  <2>9. IsPrefix(replies, Answers(h))
    BY <2>2, <2>3, <2>5, <2>6, <2>7, <2>8, Zenon
  <2> QED
    BY <1>4, <2>1, <2>9
<1> QED
  BY <1>3, <1>4

LEMMA AnswersInvariant == Spec => []AnswerInv
<1>1. Init => AnswerInv
  BY NoAnswers DEF Init, AnswerInv
<1>2. IInv /\ AnswerInv /\ [Next]_vars => AnswerInv'
  BY AnswerStep
<1> QED
  BY <1>1, <1>2, Invariant, PTL DEF Spec

-----------------------------------------------------------------------------
\* Every variable keeps its type (AngryUEFI.c, Protocol.c), the message's
\* length and the loop of handle_multi_ping among them.
THEOREM ConnectionTypes == Spec => []TypeOK
<1>1. IInv => TypeOK
  BY DEF IInv, TypeInv, TypeOK
<1> QED
  BY <1>1, Invariant, PTL

\* receive_messages hands every message of a client to handle_message, whole,
\* once and in order, however the stream is cut into chunks and wherever it
\* ends.
THEOREM MessagesFramed == Spec => []Framed
<1>1. IInv => Framed
  BY DEF IInv
<1> QED
  BY <1>1, Invariant, PTL

\* receive_chunk closes the event of its token on every way out.
THEOREM ReceiveEventsClosed == Spec => []RxEventsClosed
<1>1. IInv => RxEventsClosed
  BY DEF IInv, TypeInv
<1> QED
  BY <1>1, Invariant, PTL

\* Only a message handle_message refuses, a connection cut within a message or
\* an error of the firmware makes AngryUEFI leave its loops.
THEOREM EndsForCause == Spec => []StopsForCause
<1>1. IInv => StopsForCause
  BY DEF IInv, BlameInv
<1> QED
  BY <1>1, Invariant, PTL

\* Behind CLEANUP nothing is left of the child, its protocol and the handles,
\* whichever call of the set-up failed.
THEOREM ChildGivenBack == Spec => []CleanedUp
<1>1. IInv => CleanedUp
  BY DEF IInv, HeldInv
<1> QED
  BY <1>1, Invariant, PTL

\* As long as no transmission fails, each message is answered by the packets
\* its handler promises, the last of them marked, in the order the messages
\* came, and completely before the next message is read.
THEOREM AnswersInOrder == Spec => []RepliesMatch
<1>1. IInv /\ AnswerInv => RepliesMatch
  BY BeginningSent
<1> QED
  BY <1>1, Invariant, AnswersInvariant, PTL

=============================================================================
