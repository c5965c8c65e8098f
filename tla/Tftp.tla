-------------------------------- MODULE Tftp --------------------------------
(***************************************************************************)
(* TFTP read requests: net/tftp.c and, external, a server.                 *)
(*                                                                         *)
(* The file is blocks 1 .. Blocks, of which the last one is short, or      *)
(* empty.  Block i travels under the number i % SeqSize.  `memory' says    *)
(* which block of the file lies at each offset from the load address, in   *)
(* blocks.                                                                 *)
(***************************************************************************)
EXTENDS NetLoop

CONSTANTS
    SeqSize,            \* TFTP_SEQUENCE_SIZE
    FileSizes,          \* bound: the lengths of files, in half blocks, for each
                        \*   of the commands
    TimeoutCountMax,    \* tftp_timeout_count_max
    Ports,              \* the ports tftp_start() may choose as ours
    Sessions,           \* bound: transfer identifiers of the server
    MaxOffset           \* bound: the highest offset that is followed

ASSUME TftpAssumption ==
    /\ SeqSize \in Nat \ {0, 1} /\ FileSizes \in [Protocols -> SUBSET Nat]
    /\ TimeoutCountMax \in Nat /\ MaxOffset \in Nat
    /\ None \notin Ports \cup Sessions

VARIABLES
    tftp_state,
    tftp_remote_port,       \* None is the well known port
    tftp_our_port,
    tftp_cur_block,
    tftp_prev_block,
    tftp_block_wrap,
    timeout_count,
    memory,
    net_boot_file_size,     \* in half blocks
    session,                \* external: the transfers of the server
    newest,                 \* history: the newest block of this transfer
    late,                   \* history: TooLate(m) of a block that was stored
    overtaken               \* history: Overtaken(m) of a block that was stored

tftp == <<tftp_state, tftp_remote_port, tftp_our_port, tftp_cur_block,
          tftp_prev_block, tftp_block_wrap, timeout_count>>
image == <<memory, net_boot_file_size, newest, late, overtaken>>

(***************************************************************************)
(* The server.  A transfer [port, sent] serves the client's port `port';   *)
(* `sent' is the last block sent, 0 for the acknowledged options.          *)
(***************************************************************************)
Idle == [port |-> None, sent |-> 0]

\* The blocks of the file.  One that is not full ends it.
Blocks == file \div 2 + 1
Length(i) == IF i = Blocks THEN file % 2 ELSE 2

FromServer(k, port, sent) ==
    [type |-> IF sent = 0 THEN "OACK" ELSE "DATA", src |-> k, dest |-> port, block |-> sent]

TftpErrors == {"TFTP_ERR_FILE_NOT_FOUND", "TFTP_ERR_UNDEFINED"}
ErrorFrom(k, port, code) == [type |-> "ERROR", src |-> k, dest |-> port, code |-> code]

\* An identifier is used again when the packets of its last transfer have gone.
OnTheWire(k, packets) ==
    \E m \in packets : m.type \in {"OACK", "DATA", "ERROR"} /\ m.src = k

ServerSends(packet, rest) ==
    /\ Fits(rest \cup {packet}) /\ wire' = rest \cup {packet}

Lost(rest) == wire' = rest /\ UNCHANGED session

\* A read request opens a transfer, or is refused.
Request(packet, rest) ==
    \/ \E sent \in {0, 1} :
         LET free == {k \in Sessions : session[k] = Idle /\ ~OnTheWire(k, rest)}
             k == CHOOSE j \in free : TRUE
         IN  /\ free # {}
             /\ session' = [session EXCEPT ![k] = [port |-> packet.port, sent |-> sent]]
             /\ ServerSends(FromServer(k, packet.port, sent), rest)
    \/ /\ \E code \in TftpErrors : ServerSends(ErrorFrom(None, packet.port, code), rest)
       /\ UNCHANGED session

\* The acknowledgement of the last block sent brings the next one, or ends the
\* transfer.
Acknowledge(packet, rest) ==
    /\ packet.to \in Sessions
    /\ session[packet.to].port = packet.port
    /\ packet.block = session[packet.to].sent % SeqSize
    /\ \/ /\ session[packet.to].sent < Blocks
          /\ session' = [session EXCEPT ![packet.to].sent = @ + 1]
          /\ ServerSends(FromServer(packet.to, packet.port,
                                    session[packet.to].sent + 1), rest)
       \/ /\ session[packet.to].sent = Blocks
          /\ session' = [session EXCEPT ![packet.to] = Idle] /\ wire' = rest

\* What becomes of a packet of ours: it is lost, or of no use to the server, or
\* the server acts on it.
TransmitAck(packet, rest) == Lost(rest) \/ (eth_active /\ Acknowledge(packet, rest))

Transmit(packet, rest) ==
    \/ Lost(rest)
    \/ eth_active /\ packet.op = "RRQ" /\ Request(packet, rest)
    \/ eth_active /\ packet.op = "ACK" /\ Acknowledge(packet, rest)

\* The server's own timeout: it sends the last packet again.
ServerResends(k) ==
    /\ session[k] # Idle
    /\ FromServer(k, session[k].port, session[k].sent) \notin wire
    /\ ServerSends(FromServer(k, session[k].port, session[k].sent), wire)

\* The server drops a transfer and tells the client, which may not hear of it.
ServerAborts(k) ==
    /\ session[k] # Idle
    /\ session' = [session EXCEPT ![k] = Idle]
    /\ ServerSends(ErrorFrom(k, session[k].port, "TFTP_ERR_UNDEFINED"), wire)

(***************************************************************************)
(* The client.                                                             *)
(***************************************************************************)
\* The packets tftp_send() builds: a read request in state SEND_RRQ, otherwise
\* an acknowledgement.
ReadRequest(port) == [op |-> "RRQ", port |-> port]
Ack(block, to) == [op |-> "ACK", to |-> to, port |-> tftp_our_port, block |-> block]

\* tftp_send() and net_send_udp_packet(), on receiving a packet.
SendAck(packet, rest) ==
    IF net_server_ethaddr
      THEN /\ TransmitAck(packet, rest) /\ net_tx_packet' = packet
           /\ UNCHANGED arp
      ELSE SendAfterArp(packet, net_ip, rest) /\ UNCHANGED session

\* tftp_start(): the hardware address of the server is forgotten, so that the
\* request waits for ARP.
TftpStart(ip, rest) ==
    /\ tftp_state' = "SEND_RRQ" /\ tftp_remote_port' = None
    /\ timeout_count' = 0 /\ tftp_cur_block' = 0
    /\ time_handler' = "tftp" /\ udp_handler' = "tftp"
    /\ net_server_ethaddr' = FALSE
    /\ \E port \in Ports :
         /\ tftp_our_port' = port
         /\ SendAfterArp(ReadRequest(port), ip, rest)
    /\ UNCHANGED <<tftp_prev_block, tftp_block_wrap, session>>

\* tftp_handler(): the filter on the ports.
TftpReceives(m, type) ==
    /\ Receives(m) /\ udp_handler = "tftp" /\ m.type = type
    /\ m.dest = tftp_our_port
    /\ tftp_state = "SEND_RRQ" \/ m.src = tftp_remote_port

TftpOack(m) ==
    /\ TftpReceives(m, "OACK")
    /\ tftp_state' = "OACK" /\ tftp_remote_port' = m.src
    /\ SendAck(Ack(tftp_cur_block, m.src), wire \ {m})
    /\ UNCHANGED <<tftp_our_port, tftp_cur_block, tftp_prev_block, tftp_block_wrap,
                   timeout_count, image, loop, net_server_ethaddr, place>>

Number(m) == m.block % SeqSize
First == tftp_state \in {"SEND_RRQ", "OACK"}


\* update_block_number(): number 0 means that the numbers have wrapped.
WrapsNow(m) == Number(m) = 0 /\ tftp_prev_block # 0

\* tftp_block_wrap when block m is stored; new_transfer() clears it.
WrapAt(m) ==
    IF First THEN 0 ELSE IF WrapsNow(m) THEN tftp_block_wrap + 1 ELSE tftp_block_wrap

\* Block m comes when its number has been used again, or is the next to come,
\* or it is one more copy of a block 0, which counts as another wrap.  At the
\* start of a transfer: a block of an earlier one that has number 1 but is not
\* block 1, or a block 1 whose number the server has used again.
TooLate(m) ==
    IF First THEN m.block # 1 \/ session[m.src].sent >= m.block + SeqSize
             ELSE \/ m.block + SeqSize <= newest + 1
                  \/ Number(m) = 0 /\ m.block <= newest

\* Block m was sent before a wrap and comes after it, be it one packet late.
Overtaken(m) == ~First /\ m.block \div SeqSize < newest \div SeqSize

\* The first block of a transfer does not have number 1.
TftpFirstBlockBad(m) ==
    /\ TftpReceives(m, "DATA") /\ First /\ Number(m) # 1
    /\ tftp_state' = "DATA" /\ tftp_remote_port' = m.src
    /\ tftp_cur_block' = Number(m) /\ tftp_prev_block' = 0 /\ tftp_block_wrap' = 0
    /\ timeout_count' = IF WrapsNow(m) THEN 0 ELSE timeout_count
    /\ NetStartAgain(time_handler, wire \ {m})
    /\ UNCHANGED <<tftp_our_port, image, session, arp, net_tx_packet, net_server_ethaddr,
                   place>>

TftpSameBlock(m) ==
    /\ TftpReceives(m, "DATA") /\ ~First /\ Number(m) = tftp_prev_block
    /\ tftp_cur_block' = Number(m) /\ tftp_block_wrap' = WrapAt(m)
    /\ timeout_count' = IF WrapsNow(m) THEN 0 ELSE timeout_count
    /\ wire' = wire \ {m}
    /\ UNCHANGED <<tftp_state, tftp_remote_port, tftp_our_port, tftp_prev_block, image,
                   session, loop, arp, net_tx_packet, net_server_ethaddr, place>>

\* Mutant for ZeroMeansNothingToLoad: the size of the file is not kept.
StoreBlock_NoSize(m, offset) ==
    /\ memory' = IF Length(m.block) = 0 \/ offset >= Blocks THEN memory
                 ELSE [memory EXCEPT ![offset] = m.block]
    /\ UNCHANGED net_boot_file_size

\* store_block().  An empty block leaves the memory alone; what lies behind the
\* file is not followed.
StoreBlock(m, offset) ==
    /\ memory' = IF Length(m.block) = 0 \/ offset >= Blocks THEN memory
                 ELSE [memory EXCEPT ![offset] = m.block]
    /\ net_boot_file_size' = Max({net_boot_file_size, 2 * offset + Length(m.block)})

TftpBlock(m) ==
    LET offset == Number(m) + WrapAt(m) * SeqSize - 1
    IN  /\ TftpReceives(m, "DATA")
        /\ IF First THEN Number(m) = 1 ELSE Number(m) # tftp_prev_block
        /\ offset <= MaxOffset
        /\ tftp_state' = "DATA" /\ tftp_remote_port' = m.src
        /\ tftp_cur_block' = Number(m) /\ tftp_prev_block' = Number(m)
        /\ tftp_block_wrap' = WrapAt(m)
        /\ timeout_count' = IF WrapsNow(m) THEN 0 ELSE timeout_count
        /\ time_handler' = "tftp"
        /\ StoreBlock(m, offset)
        /\ SendAck(Ack(Number(m), m.src), wire \ {m})
        /\ net_state' = IF Length(m.block) < 2 THEN "SUCCESS" ELSE net_state
        /\ newest' = IF First THEN m.block ELSE Max({newest, m.block})
        /\ late' = (late \/ TooLate(m)) /\ overtaken' = (overtaken \/ Overtaken(m))
        /\ UNCHANGED <<tftp_our_port, udp_handler, net_try_count, net_restart_wrap,
                       dev, first_failed, eth_active, net_server_ethaddr, place>>

TftpError(m) ==
    /\ TftpReceives(m, "ERROR")
    /\ IF m.code = "TFTP_ERR_FILE_NOT_FOUND"
         THEN /\ eth_active' = FALSE /\ net_state' = "FAIL" /\ wire' = wire \ {m}
              /\ UNCHANGED <<time_handler, udp_handler, net_try_count, net_restart_wrap,
                             dev, first_failed>>
         ELSE NetStartAgain(time_handler, wire \ {m})
    /\ UNCHANGED <<tftp, image, session, arp, net_tx_packet, net_server_ethaddr, place>>

\* The last packet is sent again.  The timer does not expire during an ARP wait,
\* so the hardware address is known.
Resend ==
    LET packet == IF tftp_state = "SEND_RRQ" THEN ReadRequest(tftp_our_port)
                                             ELSE Ack(tftp_cur_block, tftp_remote_port)
    IN  Transmit(packet, wire) /\ net_tx_packet' = packet

TftpTimeout ==
    /\ Expires("tftp")
    /\ timeout_count' = timeout_count + 1
    /\ IF timeout_count + 1 > TimeoutCountMax
         THEN /\ NetStartAgain(None, wire)
              /\ UNCHANGED <<session, net_tx_packet>>
         ELSE Resend /\ UNCHANGED loop
    /\ LastInIteration
    /\ UNCHANGED <<arp, tftp_state, tftp_remote_port, tftp_our_port, tftp_cur_block,
                   tftp_prev_block, tftp_block_wrap, image, net_server_ethaddr>>

\* arp_receive(): the packet that waited in the transmit buffer is sent.
ArpReceive(m) ==
    /\ Receives(m) /\ m.type = "ARP" /\ arp_waiting
    /\ net_ip # None /\ m.ip = net_ip
    /\ Transmit(net_tx_packet, wire \ {m})
    /\ net_server_ethaddr' = TRUE /\ arp_waiting' = FALSE
    /\ UNCHANGED <<arp_wait_try, net_tx_packet, tftp, image, loop, place>>
=============================================================================
