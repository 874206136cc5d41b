----------------------------- MODULE Connection -----------------------------
(***************************************************************************)
(* The server: set up TCP, accept a client, cut its byte stream into       *)
(* messages, handle them one after the other, accept the next client, and  *)
(* give back to the firmware what was taken from it (AngryUEFI.c,          *)
(* Protocol.c), with the handlers of handlers/debug.c.                     *)
(*                                                                         *)
(* The stream is a sequence of cells, HeaderCells of which hold a          *)
(* message's length.  TCP keeps their order and delivers them in chunks    *)
(* cut anywhere.                                                           *)
(***************************************************************************)
EXTENDS Integers, Sequences, SequencesExt

CONSTANTS
  HeaderCells,  \* size of the length field: 4 bytes
  MinBody,      \* smallest body handle_message accepts: 8 bytes
  Capacity,     \* RECEIVE_BUFFER_SIZE: cells receive_buffer holds
  Kinds,        \* the kinds of messages explored
  PingCounts,   \* ping_count of MULTIPING
  MaxMessages,  \* bound on the messages of a client
  MaxClients    \* bound on the clients, one after the other

Garbage == {"empty", "short", "version"}
Silent == {"ping_malformed"}
Oversized == {"ping_oversized"}  \* a PING or MULTIPING whose PONG is too long
Overlong == {"overlong"}         \* a length receive_buffer does not hold
Answered == {"ping", "multiping", "get_msg_size", "reboot", "reboot_short", "unknown"}

ASSUME ConnectionBounds ==
  /\ HeaderCells \in Nat \ {0, 1} /\ MinBody \in Nat \ {0, 1}
  /\ Capacity \in Nat /\ Capacity >= MinBody + 2
  /\ Kinds \subseteq Garbage \cup Silent \cup Oversized \cup Overlong \cup Answered
  /\ PingCounts \subseteq Nat /\ MaxMessages \in Nat /\ MaxClients \in Nat

VARIABLES
  stream,     \* cells on their way to the server
  peer,       \* the client: "none", "open", "closed" or "reset"
  sent,       \* history: what the client has sent
  clients,    \* clients so far
  blame,      \* history: a client, the network or the firmware failed
  server,     \* where the server is
  held,       \* what the program has from the firmware
  for,        \* what receive_chunk was called for: "header" or "body"
  buffer,     \* receive_buffer
  length,     \* header_message_length
  i,          \* the loop of handle_multi_ping
  rx_events,  \* events open for receive tokens
  tx_events,  \* events open for transmit tokens
  handled,    \* history: messages handed to handle_message
  replies,    \* history: packets transmitted
  lost        \* history: a transmission failed

client == <<stream, peer, sent, clients>>
vars == <<client, blame, server, held, for, buffer, length, i, rx_events, tx_events,
          handled, replies, lost>>

Message == [kind : Kinds \ {"multiping"}, count : {1}]
             \cup [kind : Kinds \cap {"multiping"}, count : PingCounts]

Body(m) ==
  CASE m.kind = "empty" -> 0
    [] m.kind = "short" -> MinBody - 1
    [] m.kind \in {"ping", "multiping", "reboot"} -> MinBody + 1
    [] m.kind \in Oversized -> MinBody + 2
    [] m.kind \in Overlong -> Capacity + 1
    [] OTHER -> MinBody

\* The nth message of a client on the wire.
Cells(m, n) ==
  [k \in 1 .. HeaderCells + Body(m) |->
     [message |-> n, part |-> IF k <= HeaderCells THEN "header" ELSE "body",
      at |-> IF k <= HeaderCells THEN k ELSE k - HeaderCells]]

Init ==
  /\ stream = <<>> /\ peer = "none" /\ sent = <<>> /\ clients = 0
  /\ blame = FALSE /\ server = "locate" /\ held = {} /\ for = "header"
  /\ buffer = <<>> /\ length = 0 /\ i = 1
  /\ rx_events = 0 /\ tx_events = 0
  /\ handled = <<>> /\ replies = <<>> /\ lost = FALSE

-----------------------------------------------------------------------------
(* The client and the network; external. *)

ClientMay == peer = "open" /\ Len(sent) < MaxMessages
Unmoved == <<server, held, for, buffer, length, i, rx_events, tx_events, handled,
             replies, lost>>

ClientSends(m) ==
  /\ ClientMay
  /\ sent' = Append(sent, m)
  /\ stream' = stream \o Cells(m, Len(sent'))
  /\ blame' = (blame \/ m.kind \in Garbage)
  /\ UNCHANGED <<peer, clients, Unmoved>>

ClientDies(m) ==
  /\ ClientMay
  /\ sent' = Append(sent, m)
  /\ \E k \in 1 .. HeaderCells + Body(m) - 1 :
       stream' = stream \o SubSeq(Cells(m, Len(sent')), 1, k)
  /\ peer' = "closed" /\ blame' = TRUE
  /\ UNCHANGED <<clients, Unmoved>>

ClientCloses ==
  /\ peer = "open" /\ peer' = "closed"
  /\ UNCHANGED <<stream, sent, clients, blame, Unmoved>>

ConnectionReset ==
  /\ peer = "open" /\ peer' = "reset" /\ stream' = <<>> /\ blame' = TRUE
  /\ UNCHANGED <<sent, clients, Unmoved>>

-----------------------------------------------------------------------------
(* receive_messages.  An error it returns ends the program. *)

\* receive_chunk creates an event and posts the token; each of its ways out
\* closes the event.
Receive ==
  /\ server \in {"header", "body"}
  /\ for' = server /\ server' = "receiving" /\ rx_events' = rx_events + 1
  /\ UNCHANGED <<client, blame, held, buffer, length, i, tx_events, handled, replies, lost>>

\* CreateEvent fails.
NoRxEvent ==
  /\ server \in {"header", "body"}
  /\ server' = "stopped" /\ blame' = TRUE
  /\ UNCHANGED <<client, held, for, buffer, length, i, rx_events, tx_events, handled,
                 replies, lost>>

CloseRxEvent == rx_events' = rx_events - 1

\* Mutant: the part of the body already received is not subtracted.
Missing_WholeLength == IF for = "header" THEN HeaderCells ELSE length
Missing == IF for = "header" THEN HeaderCells ELSE length - Len(buffer)
Chunk(n) == SubSeq(stream, 1, n)

\* The four bytes of the length must come in one chunk.
HeaderArrives(n) ==
  /\ for = "header" /\ buffer' = <<>>
  /\ IF n = HeaderCells
       THEN LET m == sent[Chunk(n)[1].message] IN
            /\ length' = Body(m)
            /\ server' = IF length' = 0 THEN "handle" ELSE "body"
            /\ blame' = blame
       ELSE server' = "stopped" /\ length' = length /\ blame' = TRUE

\* The body may come in any number of chunks.  Nothing compares its length
\* with the size of receive_buffer: "stray" stands for what follows a write
\* behind a buffer, which nothing defines.
\* Mutant: the loop waits for one chunk too many.
BodyArrives_OneMore(n) ==
  /\ for = "body" /\ buffer' = buffer \o Chunk(n)
  /\ server' = IF Len(buffer') > Capacity THEN "stray"
               ELSE IF Len(buffer') <= length THEN "body" ELSE "handle"
  /\ UNCHANGED <<length, blame>>
BodyArrives(n) ==
  /\ for = "body" /\ buffer' = buffer \o Chunk(n)
  /\ server' = IF Len(buffer') > Capacity THEN "stray"
               ELSE IF Len(buffer') < length THEN "body" ELSE "handle"
  /\ UNCHANGED <<length, blame>>

ChunkArrives ==
  /\ server = "receiving" /\ CloseRxEvent
  /\ \E n \in 1 .. Missing :
       /\ n <= Len(stream)
       /\ stream' = SubSeq(stream, n + 1, Len(stream))
       /\ HeaderArrives(n) \/ BodyArrives(n)
  /\ UNCHANGED <<peer, sent, clients, held, for, i, tx_events, handled, replies, lost>>

\* The client has closed the connection: the next one is accepted, unless a
\* message was cut short.
\* Mutants: the event stays open; the loop for messages goes on.
PeerClosed_KeepsEvent ==
  /\ server = "receiving" /\ peer = "closed" /\ stream = <<>> /\ UNCHANGED rx_events
  /\ server' = IF for = "header" THEN "listen" ELSE "stopped"
  /\ UNCHANGED <<client, blame, held, for, buffer, length, i, tx_events, handled, replies,
                 lost>>
PeerClosed_Continues ==
  /\ server = "receiving" /\ peer = "closed" /\ stream = <<>> /\ CloseRxEvent
  /\ server' = IF for = "header" THEN "header" ELSE "stopped"
  /\ UNCHANGED <<client, blame, held, for, buffer, length, i, tx_events, handled, replies,
                 lost>>
PeerClosed ==
  /\ server = "receiving" /\ peer = "closed" /\ stream = <<>> /\ CloseRxEvent
  /\ server' = IF for = "header" THEN "listen" ELSE "stopped"
  /\ UNCHANGED <<client, blame, held, for, buffer, length, i, tx_events, handled, replies,
                 lost>>

ReceiveFails ==
  /\ server = "receiving" /\ peer = "reset" /\ CloseRxEvent
  /\ server' = "stopped"
  /\ UNCHANGED <<client, blame, held, for, buffer, length, i, tx_events, handled, replies,
                 lost>>

-----------------------------------------------------------------------------
(* handle_message and the handlers of handlers/debug.c. *)

\* The message in receive_buffer.
Received == IF length = 0 THEN [kind |-> "empty", count |-> 1]
                          ELSE sent[buffer[1].message]

\* A message that is too small or has the wrong version ends the program; the
\* status of a handler is ignored.  A ping whose PONG is too long is copied
\* behind the end of payload_buffer first, and then construct_message refuses
\* it: unless the copy led astray, nothing is sent.
\* Mutant: a handler's status is passed on.
Handle_PassesStatus ==
  /\ server = "handle"
  /\ handled' = Append(handled, buffer)
  /\ server' = IF Received.kind \in Garbage \cup Silent \cup Oversized
               THEN "stopped" ELSE "respond"
  /\ i' = 1
  /\ UNCHANGED <<client, blame, held, for, buffer, length, rx_events, tx_events, replies,
                 lost>>
Handle ==
  /\ server = "handle"
  /\ handled' = Append(handled, buffer)
  /\ server' \in CASE Received.kind \in Garbage -> {"stopped"}
                   [] Received.kind \in Silent -> {"header"}
                   [] Received.kind \in Oversized -> {"header", "stray"}
                   [] OTHER -> {"respond"}
  /\ i' = 1
  /\ UNCHANGED <<client, blame, held, for, buffer, length, rx_events, tx_events, replies,
                 lost>>

\* handle_multi_ping sends packets while i < ping_count, then the last one.
\* Mutant: the loop begins at 0.
IsLast_OneMore == Received.kind = "multiping" => i > Received.count
IsLast == Received.kind = "multiping" => i >= Received.count

AfterSending(ok) ==
  CASE Received.kind = "reboot" -> "rebooted"
    [] ok /\ ~IsLast -> "respond"
    [] OTHER -> "header"

\* send_message leaves the event of a transmission that succeeds open.
Transmit ==
  /\ server = "respond" /\ peer # "reset"
  /\ tx_events' = tx_events + 1
  /\ replies' = Append(replies, [to |-> Len(handled), last |-> IsLast])
  /\ i' = i + 1 /\ server' = AfterSending(TRUE)
  /\ UNCHANGED <<client, blame, held, for, buffer, length, rx_events, handled, lost>>

\* CreateEvent, Transmit or the completion of its token reports an error.
\* Mutant: an event that was not created is closed.
TransmitFails_ClosesEvent ==
  /\ server = "respond"
  /\ lost' = TRUE /\ server' = AfterSending(FALSE) /\ tx_events' = tx_events - 1
  /\ UNCHANGED <<client, blame, held, for, buffer, length, i, rx_events, handled, replies>>
TransmitFails ==
  /\ server = "respond"
  /\ lost' = TRUE /\ server' = AfterSending(FALSE)
  /\ UNCHANGED <<client, blame, held, for, buffer, length, i, rx_events, tx_events, handled,
                 replies>>

-----------------------------------------------------------------------------
(* The accept loop of AngryUEFI. *)

Connected == <<client, for, buffer, length, i, rx_events, tx_events, handled,
               replies, lost>>

\* The firmware accepts clients only on a configured instance.
Accept ==
  /\ server = "listen" /\ "configuration" \in held /\ clients < MaxClients
  /\ clients' = clients + 1 /\ peer' = "open" /\ stream' = <<>> /\ sent' = <<>>
  /\ blame' = FALSE /\ server' = "header"
  /\ handled' = <<>> /\ replies' = <<>> /\ lost' = FALSE
  /\ UNCHANGED <<held, for, buffer, length, i, rx_events, tx_events>>

\* Accept or OpenProtocol fails.
AcceptFails ==
  /\ server = "listen" /\ server' = "stopped" /\ blame' = TRUE
  /\ UNCHANGED <<held, Connected>>

-----------------------------------------------------------------------------
(* AngryUEFI before and after the loop: calls of the firmware, each of     *)
(* which may fail.                                                         *)

SetUp == <<"locate", "binding", "child", "tcp", "listen_event", "close_event",
           "configure">>
AfterCall(k) == IF k < Len(SetUp) THEN SetUp[k + 1] ELSE "listen"
Gain(k) == CASE SetUp[k] = "locate" -> "handles"
             [] SetUp[k] = "configure" -> "configuration"
             [] OTHER -> SetUp[k]

Succeeds ==
  /\ \E k \in 1 .. Len(SetUp) :
       server = SetUp[k] /\ server' = AfterCall(k) /\ held' = held \cup {Gain(k)}
  /\ UNCHANGED <<blame, Connected>>

\* Without any handle there is nothing to give back yet.
\* Mutant: every failing call leaves the function at once.
Fails_Returns ==
  /\ \E k \in 1 .. Len(SetUp) : server = SetUp[k]
  /\ server' = "ended" /\ blame' = TRUE
  /\ UNCHANGED <<held, Connected>>
Fails ==
  /\ \E k \in 1 .. Len(SetUp) : server = SetUp[k]
  /\ server' = IF server = "locate" THEN "ended" ELSE "stopped"
  /\ blame' = TRUE
  /\ UNCHANGED <<held, Connected>>

\* There is no address yet: poll until there is one, or until the interface
\* is not started, and configure again.  Whether that works nobody asks.
NoAddress ==
  /\ server = "configure" /\ server' = "wait_address"
  /\ UNCHANGED <<blame, held, Connected>>

ConfigureAgain ==
  /\ server = "wait_address" /\ server' = "listen"
  /\ held' \in {held, held \cup {"configuration"}}
  /\ UNCHANGED <<blame, Connected>>

\* CLEANUP: closing and destroying the child takes the protocol and its
\* configuration with it.
CleanUp ==
  /\ server = "stopped" /\ server' = "ended"
  /\ held' = (held \ {"handles"})
               \ (IF "child" \in held THEN {"child", "tcp", "configuration"} ELSE {})
  /\ UNCHANGED <<blame, Connected>>

Client == \/ \E m \in Message : ClientSends(m) \/ ClientDies(m)
          \/ ClientCloses \/ ConnectionReset
Server == \/ Receive \/ ChunkArrives \/ PeerClosed \/ ReceiveFails
          \/ Handle \/ Transmit \/ TransmitFails \/ CleanUp
Firmware == Succeeds \/ Fails \/ NoAddress \/ ConfigureAgain
Next == Client \/ Server \/ Firmware \/ NoRxEvent \/ Accept \/ AcceptFails
Spec == Init /\ [][Next]_vars

\* The server's processor runs, and TCP delivers what was sent.
FairSpec == Spec /\ WF_vars(Server)

-----------------------------------------------------------------------------
Parts == [message : 1 .. MaxMessages, part : {"header", "body"},
          at : 1 .. HeaderCells + Capacity + 1]

\* Every variable keeps its type.
TypeOK ==
  /\ stream \in Seq(Parts) /\ buffer \in Seq(Parts)
  /\ peer \in {"none", "open", "closed", "reset"}
  /\ sent \in Seq(Message) /\ clients \in 0 .. MaxClients
  /\ blame \in BOOLEAN /\ lost \in BOOLEAN
  /\ server \in {SetUp[k] : k \in 1 .. Len(SetUp)}
       \cup {"wait_address", "listen", "header", "body", "receiving", "handle",
             "respond", "stopped", "ended", "rebooted", "stray"}
  /\ held \subseteq {Gain(k) : k \in 1 .. Len(SetUp)}
  /\ for \in {"header", "body"}
  /\ length \in 0 .. Capacity + 1 /\ i \in Nat \ {0}
  /\ rx_events \in {0, 1} /\ tx_events \in Nat
  /\ handled \in Seq(Seq(Parts))
  /\ replies \in Seq([to : 1 .. MaxMessages, last : BOOLEAN])

\* receive_messages: what handle_message gets is what the client sent, message
\* by message, however TCP cuts the stream.
Framed ==
  /\ Len(handled) <= Len(sent)
  /\ \A k \in 1 .. Len(handled) :
       handled[k] = SubSeq(Cells(sent[k], k), HeaderCells + 1, HeaderCells + Body(sent[k]))

\* Messages nothing is sent for.
Unanswered == Garbage \cup Silent \cup Oversized

\* The packets a message is answered with: PONG as often as asked for but at
\* least once, as long as it fits response_buffer; one packet for most others;
\* only the last is marked as such.
Promised(k) ==
  LET n == CASE sent[k].kind \in Unanswered -> 0
             [] sent[k].kind = "multiping" /\ sent[k].count > 1 -> sent[k].count
             [] OTHER -> 1
  IN [j \in 1 .. n |-> [to |-> k, last |-> j = n]]

\* Responses come in the order of the requests, each closed by one packet
\* marked last, so that a client can tell which response belongs to which
\* request by counting.  A ping whose reply does not fit gets none at all.
RepliesMatch ==
  LET promised == FlattenSeq([k \in 1 .. Len(handled) |-> Promised(k)]) IN
  ~lost => /\ IsPrefix(replies, promised)
           /\ server \in {"header", "listen", "rebooted"} => replies = promised

\* receive_chunk: on every way out its event is closed.
RxEventsClosed == rx_events = 1 <=> server = "receiving"

\* Unknown message types, malformed pings, failing responses and clients that
\* leave between two messages do not end the program.
StopsForCause == server \in {"stopped", "ended"} => blame

\* However the program ends, at whichever call of the set-up or in whichever
\* connection, the service binding's child is destroyed and the list of
\* handles freed.  (Its two events, and the children of accepted connections,
\* it does leave behind.)
CleanedUp == server = "ended" => held \subseteq {"binding", "listen_event", "close_event"}

\* Every message is handled, also those a client sent before it left, unless a
\* message before it was written behind a buffer.
MessagesHandled ==
  \A k \in 1 .. MaxMessages :
    Len(sent) >= k
      ~> \/ Len(handled) >= k \/ blame
         \/ server \in {"stopped", "ended", "rebooted", "stray"}

\* After a client has left the next one can connect.
ListensAgain == peer = "closed" ~> (server \in {"listen", "rebooted", "stray"} \/ blame)
=============================================================================
