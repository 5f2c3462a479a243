--------------------------- MODULE WifiUdpClient ---------------------------
(***************************************************************************)
(* wifi_udp_client.h: a UDP socket with the address it talks to, and the   *)
(* text buffer a message is put together in, piece by piece.               *)
(*                                                                         *)
(* "meant" and "begun" are history: all that was put into the buffer since *)
(* it was emptied, and the address the socket was opened for.              *)
(***************************************************************************)
EXTENDS Naturals, Sequences

CONSTANTS Size,    \* TX_BUFFER_SIZE, in characters
          Char,    \* the characters of a message
          Pieces,  \* what one operator<< may put
          Servers, \* the hosts
          Ports    \* and their ports

ASSUME BufferAssumption == Size \in Nat \ {0} /\ Pieces \subseteq Seq(Char)

VARIABLES
  open,   \* m_initialized
  server, \* m_server, with m_server_ip and m_useIp, which follow it
  port,   \* m_server_port
  text,   \* m_tx_buffer, up to its NUL
  meant,
  begun

socket == <<open, server, port, begun>>
buffer == <<text, meant>>
uvars == <<socket, buffer>>

UInit ==
  /\ open = FALSE /\ server \in Servers /\ port \in Ports
  /\ text = << >> /\ meant = << >> /\ begun = <<server, port>>

-----------------------------------------------------------------------------
(***************************************************************************)
(* The buffer.                                                             *)
(***************************************************************************)
Least(m, n) == IF m < n THEN m ELSE n

\* A deviation used to test TextIsCut: snprintf() drops a piece that does not
\* fit, instead of cutting it.
PutWhole(size, chars, piece) ==
  IF Len(piece) < size - Len(chars) THEN chars \o piece ELSE chars

\* A deviation used to test UTypeOK: no room is left for the NUL.
PutNoNul(size, chars, piece) ==
  chars \o SubSeq(piece, 1, Least(Len(piece), size - Len(chars)))

\* strncat() and snprintf(): what still fits in front of the NUL.
Put(size, chars, piece) ==
  chars \o SubSeq(piece, 1, Least(Len(piece), size - 1 - Len(chars)))

NewTxBuf ==
  /\ text' = << >> /\ meant' = << >>
  /\ UNCHANGED socket

Append1(piece) ==
  /\ text' = Put(Size, text, piece)
  /\ meant' = meant \o piece
  /\ UNCHANGED socket

-----------------------------------------------------------------------------
(***************************************************************************)
(* The socket.  begin() may fail; a socket that is open is not opened      *)
(* again, and to change its address closes it.                             *)
(***************************************************************************)
OpenSocket ==
  /\ IF open THEN UNCHANGED <<open, begun>>
     ELSE open' \in BOOLEAN /\ begun' = <<server, port>>
  /\ UNCHANGED <<server, port, buffer>>

\* A deviation used to test OpenAddress: the flag stays.
StoppedOnly == open' = open

Stopped == open' = FALSE

Deinit ==
  /\ Stopped
  /\ UNCHANGED <<server, port, begun, buffer>>

SetServer(s) ==
  /\ Stopped
  /\ server' = s
  /\ UNCHANGED <<port, begun, buffer>>

SetPort(p) ==
  /\ Stopped
  /\ port' = p
  /\ UNCHANGED <<server, begun, buffer>>

UNext == \/ NewTxBuf \/ \E piece \in Pieces : Append1(piece)
         \/ OpenSocket \/ Deinit
         \/ (\E s \in Servers : SetServer(s)) \/ \E p \in Ports : SetPort(p)

USpec == UInit /\ [][UNext]_uvars

-----------------------------------------------------------------------------
(***************************************************************************)
(* Properties.                                                             *)
(***************************************************************************)

\* The registers of the socket stay in their ranges, and the text always leaves
\* room for its NUL.
UTypeOK == /\ open \in BOOLEAN /\ server \in Servers /\ port \in Ports
           /\ begun \in Servers \X Ports
           /\ text \in Seq(Char) /\ meant \in Seq(Char)
           /\ Len(text) < Size

\* A message that is too long loses its end and nothing else: whatever the
\* pieces, the buffer holds the longest beginning of the message that fits.
Cut(s) == SubSeq(s, 1, Least(Len(s), Size - 1))
TextIsCut == text = Cut(meant)

\* An open socket talks to the address it was opened for.
OpenAddress == open => begun = <<server, port>>

=============================================================================
