--------------------------- MODULE NetBootProofs ---------------------------
(* Two properties of NetBoot, for any bounds, servers and interfaces.       *)
EXTENDS NetBoot, TLAPS

PortNames == Ports \cup {None}

(* What the transmit buffer can hold, and the transfers of the server.      *)
TxPackets ==
    [op : {None, "DHCP"}] \cup [op : {"RRQ"}, port : PortNames]
    \cup [op : {"ACK"}, to : Sessions \cup {None}, port : PortNames, block : Nat]

Transfers == [Sessions -> [port : PortNames, sent : Nat]]

(* An acknowledgement of a DHCP server is on its way only when that server  *)
(* has leased its address.                                                  *)
WireOk(packets, servers) ==
    \A m \in packets :
       /\ m.type \in {"OFFER", "ACK"} => m.server \in DhcpServers
       /\ m.type = "ACK" => m.server \in servers
       /\ m.type = "DATA" => m.block \in Nat
       /\ m.type \in {"DATA", "OACK"} => m.src \in Sessions

LoopTypes ==
    /\ net_tx_packet \in TxPackets /\ session \in Transfers
    /\ tftp_our_port \in PortNames /\ tftp_remote_port \in Sessions \cup {None}
    /\ tftp_cur_block \in Nat
    /\ tftp_block_wrap \in Nat /\ net_boot_file_size \in Nat
    /\ tftp_state \in {"SEND_RRQ", "OACK", "DATA"}
    /\ file \in Nat /\ net_try_count \in Nat \ {0}

(* The board has a leased address, or one that no DHCP server gave it.      *)
LeaseInv == WireOk(wire, leased) /\ BoundToLease

NothingToLoad == protocol = "DHCP" /\ ~autoload /\ net_ip \in DhcpServers

(* A block of the file lies in the memory, unless the file has none or a    *)
(* block came late.                                                         *)
Stored == net_boot_file_size > 0 \/ file = 0 \/ late

(* The loop asks to end with success only with a file, or when an address   *)
(* was all that was asked for.                                              *)
SuccessInv ==
    /\ protocol \in Protocols
    /\ udp_handler = "dhcp" => protocol = "DHCP"
    /\ time_handler = "bootp" => protocol = "DHCP" /\ net_dev_exists
    /\ net_state = "SUCCESS" => Stored \/ NothingToLoad
    /\ ZeroMeansNothingToLoad
    /\ ret = None => udp_handler = None /\ time_handler = None /\ net_state = "CONTINUE"

Hears == ret = "running" /\ place = "loop" /\ eth_active /\ net_state # "RESTART"

(* In a transfer that goes on a first block was stored: after a bad one     *)
(* net_start_again() leaves no handler that would hear of another.          *)
PlaceInv ==
    /\ udp_handler # None => net_dev_exists
    /\ place = "restart" => net_state = "CONTINUE"
    /\ place = "arp" /\ net_state = "CONTINUE" => udp_handler = None
    /\ place = "skip" => net_state # "CONTINUE"
    /\ Hears /\ udp_handler = "tftp" /\ tftp_state = "DATA" => Stored

IInv == LoopTypes /\ LeaseInv /\ SuccessInv /\ PlaceInv

(* The larger of two numbers, as store_block() keeps it.                    *)
LEMMA MaxOfTwo ==
    ASSUME NEW a \in Int, NEW b \in Int
    PROVE  Max({a, b}) \in {a, b} /\ Max({a, b}) >= a /\ Max({a, b}) >= b
<1>1. \E x \in {a, b} : \A y \in {a, b} : x >= y
  <2>1. CASE a >= b
    BY <2>1
  <2>2. CASE b >= a
    BY <2>2
  <2> QED
    BY <2>1, <2>2
<1> QED
  BY <1>1 DEF Max

-----------------------------------------------------------------------------
(* Packets.                                                                 *)
LEMMA WireShrinks ==
    ASSUME NEW servers, NEW packets, WireOk(packets, servers), NEW rest \in SUBSET packets
    PROVE  WireOk(rest, servers)
BY DEF WireOk

(* The server's packets fit in.                                             *)
LEMMA FromServerOk ==
    ASSUME NEW servers, NEW packets, WireOk(packets, servers),
           NEW k \in Sessions, NEW port, NEW sent \in Nat
    PROVE  WireOk(packets \cup {FromServer(k, port, sent)}, servers)
<1>1. /\ FromServer(k, port, sent).type \in {"OACK", "DATA"}
      /\ FromServer(k, port, sent).src = k /\ FromServer(k, port, sent).block = sent
  BY DEF FromServer
<1> QED
  BY <1>1 DEF WireOk

(* So does its error packet.                                                *)
LEMMA ErrorFromOk ==
    ASSUME NEW servers, NEW packets, WireOk(packets, servers), NEW k, NEW port, NEW code
    PROVE  WireOk(packets \cup {ErrorFrom(k, port, code)}, servers)
<1>1. ErrorFrom(k, port, code).type = "ERROR"
  BY DEF ErrorFrom
<1> QED
  BY <1>1 DEF WireOk

(* An ARP request brings an ARP answer or nothing.                          *)
LEMMA ArpRequestOk ==
    ASSUME NEW servers, NEW ip, NEW rest, WireOk(rest, servers), ArpRequest(ip, rest)
    PROVE  WireOk(wire', servers)
BY DEF ArpRequest, ArpReply, WireOk

(* What the server does about a packet of the board.                        *)
LEMMA RequestOk ==
    ASSUME NEW servers, NEW packet \in TxPackets, packet.op = "RRQ", session \in Transfers,
           NEW rest, WireOk(rest, servers), Request(packet, rest)
    PROVE  WireOk(wire', servers) /\ session' \in Transfers
<1>1. packet.port \in PortNames
  BY DEF TxPackets, None
<1> DEFINE free == {k \in Sessions : session[k] = Idle /\ ~OnTheWire(k, rest)}
           k == CHOOSE j \in free : TRUE
<1>2. ASSUME NEW sent \in {0, 1}, free # {},
             session' = [session EXCEPT ![k] = [port |-> packet.port, sent |-> sent]],
             ServerSends(FromServer(k, packet.port, sent), rest)
      PROVE  WireOk(wire', servers) /\ session' \in Transfers
  <2>1. k \in Sessions
    <3>1. k \in free
      BY <1>2
    <3> QED
      BY <3>1
  <2> HIDE DEF k
  <2>2. session' \in Transfers
    BY <1>1, <1>2, <2>1 DEF Transfers
  <2>3. WireOk(wire', servers)
    <3>1. sent \in Nat
      BY <1>2
    <3> QED
      BY <1>2, <2>1, <3>1, FromServerOk, Zenon DEF ServerSends
  <2> QED
    BY <2>2, <2>3
<1>3. ASSUME NEW code \in TftpErrors,
             ServerSends(ErrorFrom(None, packet.port, code), rest), UNCHANGED session
      PROVE  WireOk(wire', servers) /\ session' \in Transfers
  BY <1>3, ErrorFromOk DEF ServerSends
<1> QED
  BY <1>2, <1>3 DEF Request

(* What the server does about an acknowledgement.                           *)
LEMMA AcknowledgeOk ==
    ASSUME NEW servers, NEW packet \in TxPackets, packet.op = "ACK", session \in Transfers,
           NEW rest, WireOk(rest, servers), Acknowledge(packet, rest)
    PROVE  WireOk(wire', servers) /\ session' \in Transfers
<1>1. packet.to \in Sessions /\ session[packet.to].sent \in Nat
  BY DEF Acknowledge, Transfers
<1>2. CASE /\ session' = [session EXCEPT ![packet.to].sent = @ + 1]
           /\ ServerSends(FromServer(packet.to, packet.port, session[packet.to].sent + 1), rest)
  <2>1. session' \in Transfers
    BY <1>1, <1>2 DEF Transfers
  <2>2. WireOk(wire', servers)
    <3>1. session[packet.to].sent + 1 \in Nat
      BY <1>1
    <3> QED
      BY <1>1, <1>2, <3>1, FromServerOk, Zenon DEF ServerSends
  <2> QED
    BY <2>1, <2>2
<1>3. CASE session' = [session EXCEPT ![packet.to] = Idle] /\ wire' = rest
  BY <1>1, <1>3 DEF Transfers, Idle, PortNames
<1> QED
  BY <1>2, <1>3 DEF Acknowledge

(* Both together: whatever the board transmits.                             *)
LEMMA TransmitOk ==
    ASSUME NEW servers, NEW packet \in TxPackets, session \in Transfers,
           NEW rest, WireOk(rest, servers),
           Transmit(packet, rest) \/ (packet.op = "ACK" /\ TransmitAck(packet, rest))
    PROVE  WireOk(wire', servers) /\ session' \in Transfers
BY RequestOk, AcknowledgeOk DEF Transmit, TransmitAck, Lost

(* tftp_send() on receiving a packet.                                       *)
LEMMA SendAckOk ==
    ASSUME NEW servers, LoopTypes, NEW to \in Sessions, NEW block \in Nat,
           NEW rest, WireOk(rest, servers), SendAck(Ack(block, to), rest)
    PROVE  WireOk(wire', servers) /\ session' \in Transfers /\ net_tx_packet' \in TxPackets
<1>1. Ack(block, to) \in TxPackets /\ Ack(block, to).op = "ACK"
  BY DEF Ack, TxPackets, LoopTypes
<1>2. session \in Transfers
  BY DEF LoopTypes
<1> QED
  BY <1>1, <1>2, TransmitOk, ArpRequestOk DEF SendAck, SendAfterArp

(* tftp_start().                                                            *)
LEMMA TftpStartOk ==
    ASSUME NEW servers, LoopTypes, NEW ip, NEW rest, WireOk(rest, servers), TftpStart(ip, rest)
    PROVE  /\ WireOk(wire', servers) /\ session' \in Transfers
           /\ net_tx_packet' \in TxPackets /\ tftp_our_port' \in PortNames
<1>1. \A port \in Ports : ReadRequest(port) \in TxPackets
  BY DEF ReadRequest, TxPackets, PortNames
<1> QED
  BY <1>1, ArpRequestOk DEF TftpStart, SendAfterArp, LoopTypes, PortNames

(* bootp_request(): offers, and nothing else, may come back.                *)
LEMMA BootpRequestOk ==
    ASSUME NEW servers, NEW ids, NEW num, NEW try, NEW rest, WireOk(rest, servers),
           BootpRequest(ids, num, try, rest)
    PROVE  WireOk(wire', servers) /\ net_tx_packet' \in TxPackets
<1>1. net_tx_packet' \in TxPackets
  BY DEF BootpRequest, TxPackets
<1>2. PICK answers \in SUBSET {DhcpMessage("OFFER", try + 1, s) : s \in DhcpServers} :
         wire' = rest \cup answers
  BY DEF BootpRequest, Discover
<1>3. \A m \in answers : m.type = "OFFER" /\ m.server \in DhcpServers
  BY <1>2 DEF DhcpMessage
<1> QED
  BY <1>1, <1>2, <1>3 DEF WireOk

(* Without the DHCP answers, the servers do not matter.                     *)
LEMMA NotDhcpOk ==
    ASSUME NEW servers, NEW packets, WireOk(packets, servers), NEW others
    PROVE  WireOk(NotDhcp(packets), others)
BY DEF WireOk, NotDhcp, DhcpTypes

(* net_start_again() keeps the packets it is given, or drops them.          *)
LEMMA RestartOk ==
    ASSUME LoopTypes, NEW servers, NEW r, NEW rest, WireOk(rest, servers), RestartEth(r, rest)
    PROVE  WireOk(wire', servers) /\ net_try_count' \in Nat \ {0}
BY DEF RestartEth, WireOk, LoopTypes

(* net_start_again() as a whole: it never turns a failure into SUCCESS, and *)
(* unless it asks to leave the loop, no protocol has a handler.             *)
LEMMA StartAgainOk ==
    ASSUME LoopTypes, NEW servers, NEW pending, NEW rest, WireOk(rest, servers),
           NetStartAgain(pending, rest)
    PROVE  /\ WireOk(wire', servers) /\ net_try_count' \in Nat \ {0}
           /\ net_state' \in {"FAIL", "RESTART", net_state}
           /\ time_handler' \in {"start_again", pending}
           /\ udp_handler' \in {None, udp_handler}
           /\ net_state' \notin {"FAIL", "RESTART"} => udp_handler' = None
           /\ \/ udp_handler' = None \/ net_state' = "RESTART"
              \/ ~eth_active' \/ ~net_dev_exists
<1>1. PICK r \in Rotations :
         /\ RestartEth(r, rest) /\ net_state' = StateAfterRestart(r)
         /\ IF TriesLeft /\ r.wrap /\ net_dev_exists
              THEN time_handler' = "start_again" /\ udp_handler' = None
              ELSE time_handler' = pending /\ UNCHANGED udp_handler
  BY DEF NetStartAgain
<1>2. /\ ~TriesLeft => net_state' = "FAIL" /\ ~eth_active'
      /\ TriesLeft /\ ~r.wrap => net_state' = "RESTART"
      /\ TriesLeft /\ r.wrap /\ ~net_dev_exists => net_state' = "FAIL"
      /\ TriesLeft /\ r.wrap /\ net_dev_exists => net_state' = net_state
  BY <1>1 DEF RestartEth, StateAfterRestart
<1>3. WireOk(wire', servers) /\ net_try_count' \in Nat \ {0}
  BY <1>1, RestartOk
<1> QED
  BY <1>1, <1>2, <1>3

-----------------------------------------------------------------------------
(* store_block(): block 0 is never stored before the numbers have wrapped,  *)
(* so that no offset lies before the load address.                          *)
LEMMA NumberType ==
    ASSUME NEW m, m.block \in Nat
    PROVE  Number(m) \in Nat
BY TftpAssumption DEF Number

(* The file size never shrinks, and a block that is not empty makes it      *)
(* positive.                                                                *)
LEMMA StoreBlockOk ==
    ASSUME LoopTypes, NEW m, m.block \in Nat,
           IF First THEN Number(m) = 1 ELSE Number(m) # tftp_prev_block,
           StoreBlock(m, Number(m) + WrapAt(m) * SeqSize - 1)
    PROVE  /\ WrapAt(m) \in Nat /\ net_boot_file_size' \in Nat
           /\ net_boot_file_size' >= net_boot_file_size
           /\ Length(m.block) > 0 => net_boot_file_size' > 0
<1>1. Number(m) \in Nat
  BY NumberType
<1>2. WrapAt(m) \in Nat /\ (Number(m) = 0 => WrapAt(m) >= 1)
  BY <1>1 DEF WrapAt, WrapsNow, LoopTypes
<1> DEFINE offset == Number(m) + WrapAt(m) * SeqSize - 1
<1>3. offset \in Nat
  <2>1. WrapAt(m) * SeqSize \in Nat /\ (WrapAt(m) >= 1 => WrapAt(m) * SeqSize >= 1)
    <3>1. \A w, q \in Nat : w * q \in Nat /\ (w >= 1 /\ q >= 1 => w * q >= 1)
      OBVIOUS
    <3> QED
      BY <1>2, <3>1, TftpAssumption
  <2> QED
    BY <1>1, <1>2, <2>1
<1> HIDE DEF offset
<1> DEFINE end == 2 * offset + Length(m.block)
<1>4. end \in Nat /\ end >= Length(m.block) /\ Length(m.block) \in Nat
  <2>1. Length(m.block) \in Nat
    BY DEF Length, LoopTypes
  <2> QED
    BY <1>3, <2>1
<1>5. net_boot_file_size' = Max({net_boot_file_size, end})
  BY DEF StoreBlock, offset
<1> HIDE DEF end
<1>6. net_boot_file_size \in Nat
  BY DEF LoopTypes
<1>7. LET larger == Max({net_boot_file_size, end})
      IN  larger \in {net_boot_file_size, end} /\ larger >= net_boot_file_size /\ larger >= end
  <2>1. net_boot_file_size \in Int /\ end \in Int
    BY <1>4, <1>6
  <2> QED
    BY <2>1, MaxOfTwo, Zenon
<1> QED
  BY <1>2, <1>4, <1>5, <1>6, <1>7

(* The first block of a transfer holds data, or the file is empty, or the   *)
(* block is late.                                                           *)
LEMMA FirstBlock ==
    ASSUME LoopTypes, NEW m, m.block \in Nat, First
    PROVE  TooLate(m) \/ file = 0 \/ Length(m.block) > 0
BY DEF LoopTypes, TooLate, Length, Blocks

(* What a step that leaves these variables alone cannot break.              *)
LEMMA SuccessKept ==
    ASSUME IInv, ret = "running",
           UNCHANGED <<protocol, autoload, ret, file, late, net_dev_exists>>,
           net_ip' = net_ip, net_boot_file_size' = net_boot_file_size,
           net_state' \in {"CONTINUE", "FAIL", "RESTART", net_state},
           time_handler' \in {"tftp", "start_again", None, time_handler},
           udp_handler' \in {None, udp_handler}
    PROVE  SuccessInv'
BY DEF IInv, SuccessInv, Stored, NothingToLoad, ZeroMeansNothingToLoad, None

(* What a handler of a packet must show.                                    *)
LEMMA PlaceKept ==
    ASSUME IInv, place = "loop", UNCHANGED <<place, net_dev_exists>>,
           udp_handler' \in {None, udp_handler},
           Hears' /\ udp_handler' = "tftp" /\ tftp_state' = "DATA" => Stored'
    PROVE  PlaceInv'
BY DEF IInv, PlaceInv

(* A lease and an address that stay as they are go together as before.      *)
LEMMA LeaseKept ==
    ASSUME IInv, UNCHANGED <<net_ip, leased>>, WireOk(wire', leased)
    PROVE  LeaseInv'
BY DEF IInv, LeaseInv, BoundToLease, WireOk

(* The TFTP handler.                                                        *)
LEMMA TftpReceiveInv ==
    ASSUME IInv, NEW m \in wire, TftpReceive(m)
    PROVE  IInv'
<1>1. /\ UNCHANGED <<protocol, autoload, ret, file, net_ip, leased, net_dev_exists, place>>
      /\ ret = "running" /\ place = "loop" /\ Hears
      /\ LoopTypes /\ WireOk(wire \ {m}, leased)
  <2>1. Receives(m) /\ UNCHANGED place
    BY Zenon DEF TftpReceive, TftpOack, TftpFirstBlockBad, TftpSameBlock, TftpBlock, TftpError,
           ArpReceive, TftpReceives
  <2> QED
    BY <2>1, WireShrinks DEF TftpReceive, Outer, setting, Receives, Hears, IInv, LeaseInv
<1>2. CASE TftpOack(m)
  <2>1. m.src \in Sessions
    BY <1>2 DEF IInv, LeaseInv, WireOk, TftpOack, TftpReceives
  <2>2. WireOk(wire', leased) /\ session' \in Transfers /\ net_tx_packet' \in TxPackets
    BY <1>1, <1>2, <2>1, SendAckOk DEF TftpOack, LoopTypes
  <2>3. LoopTypes'
    BY <1>1, <1>2, <2>1, <2>2 DEF LoopTypes, TftpOack, image, loop
  <2>4. SuccessInv'
    BY <1>1, <1>2, SuccessKept DEF TftpOack, image, loop
  <2>5. PlaceInv'
    BY <1>1, <1>2, PlaceKept, Zenon DEF TftpOack, loop
  <2> QED
    BY <1>1, <2>2, <2>3, <2>4, <2>5, LeaseKept DEF IInv
<1>3. CASE TftpFirstBlockBad(m)
  <2>1. m.src \in Sessions /\ Number(m) \in Nat /\ udp_handler = "tftp"
    BY <1>3, NumberType DEF IInv, LeaseInv, WireOk, TftpFirstBlockBad, TftpReceives
  <2>2. /\ WireOk(wire', leased) /\ net_state' \in {"FAIL", "RESTART", net_state}
        /\ time_handler' \in {"start_again", time_handler} /\ udp_handler' \in {None, udp_handler}
        /\ net_try_count' \in Nat \ {0}
        /\ \/ udp_handler' = None \/ net_state' = "RESTART"
           \/ ~eth_active' \/ ~net_dev_exists
    BY <1>1, <1>3, StartAgainOk DEF TftpFirstBlockBad
  <2>3. LoopTypes'
    BY <1>1, <1>3, <2>1, <2>2, Zenon DEF LoopTypes, TftpFirstBlockBad, image
  <2>4. SuccessInv'
    BY <1>1, <1>3, <2>2, SuccessKept DEF TftpFirstBlockBad, image
  <2>5. PlaceInv'
    <3>1. net_dev_exists
      BY <2>1 DEF IInv, PlaceInv, None
    <3>2. ~(Hears' /\ udp_handler' = "tftp")
      BY <2>2, <3>1 DEF Hears, None
    <3> QED
      BY <1>1, <2>2, <3>2, PlaceKept
  <2> QED
    BY <1>1, <2>2, <2>3, <2>4, <2>5, LeaseKept DEF IInv
<1>4. CASE TftpSameBlock(m)
  <2>1. Number(m) \in Nat
    BY <1>4, NumberType, Zenon DEF IInv, LeaseInv, WireOk, TftpSameBlock, TftpReceives
  <2>2. WrapAt(m) \in Nat
    BY <1>1 DEF WrapAt, LoopTypes
  <2>3. LoopTypes'
    BY <1>1, <1>4, <2>1, <2>2, Zenon DEF LoopTypes, TftpSameBlock, image, loop
  <2>4. SuccessInv'
    BY <1>1, <1>4, SuccessKept, Zenon DEF TftpSameBlock, image, loop
  <2>5. PlaceInv'
    BY <1>1, <1>4, PlaceKept, Zenon DEF TftpSameBlock, image, loop, IInv, PlaceInv, Stored
  <2> QED
    BY <1>1, <1>4, <2>3, <2>4, <2>5, LeaseKept DEF IInv, TftpSameBlock
<1>5. CASE TftpBlock(m)
  <2>1. m.src \in Sessions /\ m.block \in Nat /\ Number(m) \in Nat /\ udp_handler = "tftp"
    BY <1>5, NumberType, Zenon DEF IInv, LeaseInv, WireOk, TftpBlock, TftpReceives
  <2>2. /\ WrapAt(m) \in Nat /\ net_boot_file_size' \in Nat
        /\ net_boot_file_size' >= net_boot_file_size
        /\ Length(m.block) > 0 => net_boot_file_size' > 0
    BY <1>1, <1>5, <2>1, StoreBlockOk, Zenon DEF TftpBlock
  <2>3. WireOk(wire', leased) /\ session' \in Transfers /\ net_tx_packet' \in TxPackets
    BY <1>1, <1>5, <2>1, SendAckOk, Zenon DEF TftpBlock
  <2>4. LoopTypes'
    BY <1>1, <1>5, <2>1, <2>2, <2>3, Zenon DEF LoopTypes, TftpBlock
  <2>5. Stored'
    <3>1. late' = (late \/ TooLate(m))
      BY <1>5 DEF TftpBlock
    <3>2. CASE First
      BY <1>1, <2>1, <2>2, <3>1, <3>2, FirstBlock, Zenon DEF Stored
    <3>3. CASE ~First
      <4>1. tftp_state = "DATA" => Stored
        BY <1>1, <2>1 DEF IInv, PlaceInv
      <4>2. tftp_state = "DATA"
        BY <3>3 DEF First, IInv, LoopTypes
      <4>3. net_boot_file_size \in Nat
        BY <1>1 DEF LoopTypes
      <4>4. CASE net_boot_file_size > 0
        BY <2>2, <4>3, <4>4 DEF Stored
      <4>5. CASE file = 0
        BY <1>1, <4>5 DEF Stored
      <4>6. CASE late
        BY <3>1, <4>6, Zenon DEF Stored
      <4> QED
        BY <4>1, <4>2, <4>4, <4>5, <4>6 DEF Stored
    <3> QED
      BY <3>2, <3>3
  <2>6. SuccessInv'
    BY <1>1, <1>5, <2>5, Zenon DEF IInv, SuccessInv, ZeroMeansNothingToLoad, None, TftpBlock
  <2>7. PlaceInv'
    BY <1>1, <1>5, <2>5, PlaceKept, Zenon DEF TftpBlock
  <2> QED
    BY <1>1, <2>3, <2>4, <2>6, <2>7, LeaseKept DEF IInv
<1>6. CASE TftpError(m)
  <2>1. /\ WireOk(wire', leased) /\ net_state' \in {"FAIL", "RESTART", net_state}
        /\ time_handler' \in {"start_again", time_handler} /\ udp_handler' \in {None, udp_handler}
        /\ net_try_count' \in Nat \ {0}
        /\ \/ udp_handler' = None \/ net_state' = "RESTART"
           \/ ~eth_active' \/ ~net_dev_exists
    BY <1>1, <1>6, StartAgainOk, Zenon DEF TftpError, LoopTypes
  <2>2. LoopTypes'
    BY <1>1, <1>6, <2>1, Zenon DEF LoopTypes, TftpError, tftp, image
  <2>3. SuccessInv'
    BY <1>1, <1>6, <2>1, SuccessKept, Zenon DEF TftpError, image
  <2>4. PlaceInv'
    <3>1. net_dev_exists
      BY <1>6 DEF IInv, PlaceInv, None, TftpError, TftpReceives
    <3>2. ~(Hears' /\ udp_handler' = "tftp")
      BY <2>1, <3>1 DEF Hears, None
    <3> QED
      BY <1>1, <2>1, <3>2, PlaceKept
  <2> QED
    BY <1>1, <2>1, <2>2, <2>3, <2>4, LeaseKept DEF IInv
<1>7. CASE ArpReceive(m)
  <2>1. WireOk(wire', leased) /\ session' \in Transfers
    BY <1>1, <1>7, TransmitOk, Zenon DEF ArpReceive, LoopTypes
  <2>2. LoopTypes'
    BY <1>1, <1>7, <2>1, Zenon DEF LoopTypes, ArpReceive, tftp, image, loop
  <2>3. SuccessInv'
    BY <1>1, <1>7, SuccessKept, Zenon DEF ArpReceive, image, loop
  <2>4. PlaceInv'
    BY <1>1, <1>7, PlaceKept, Zenon DEF ArpReceive, tftp, image, loop, IInv, PlaceInv, Stored
  <2> QED
    BY <1>1, <2>1, <2>2, <2>3, <2>4, LeaseKept DEF IInv
<1> QED
  BY <1>2, <1>3, <1>4, <1>5, <1>6, <1>7 DEF TftpReceive

(* The DHCP handler: a request makes the server it goes to lease its        *)
(* address before the acknowledgement is on its way.                        *)
LEMMA DhcpSelectInv ==
    ASSUME IInv, NEW m \in wire, DhcpSelect(m), UNCHANGED Outer
    PROVE  IInv'
<1>1. /\ UNCHANGED <<protocol, autoload, ret, file, net_dev_exists, net_ip, place>>
      /\ ret = "running" /\ place = "loop"
      /\ LoopTypes /\ WireOk(wire \ {m}, leased) /\ BoundToLease
      /\ m.server \in DhcpServers /\ protocol = "DHCP" /\ udp_handler = "dhcp"
  BY WireShrinks, Zenon
     DEF Outer, setting, DhcpSelect, DhcpReceives, Receives, IInv, LeaseInv, WireOk,
                     SuccessInv
<1>2. LeaseInv'
  <2>1. RequestAddress(m.id, m.server, wire \ {m}) /\ net_ip' = net_ip
    BY Zenon DEF DhcpSelect
  <2>2. CASE wire' = wire \ {m} /\ UNCHANGED leased
    BY <1>1, <2>1, <2>2 DEF LeaseInv, BoundToLease
  <2>3. CASE /\ wire' = (wire \ {m}) \cup {DhcpMessage("ACK", m.id, m.server)}
             /\ leased' = leased \cup {m.server}
    BY <1>1, <2>1, <2>3 DEF LeaseInv, BoundToLease, WireOk, DhcpMessage
  <2>4. CASE /\ wire' = (wire \ {m}) \cup {DhcpMessage("NAK", m.id, m.server)}
             /\ UNCHANGED leased
    BY <1>1, <2>1, <2>4 DEF LeaseInv, BoundToLease, WireOk, DhcpMessage
  <2> QED
    BY <2>1, <2>2, <2>3, <2>4, Zenon DEF RequestAddress
<1>3. LoopTypes'
  BY <1>1, Zenon DEF LoopTypes, DhcpSelect, tftp, image, TxPackets
<1>4. SuccessInv'
  <2>1. net_dev_exists'
    BY <1>1 DEF IInv, PlaceInv, None
  <2> QED
    BY <1>1, <2>1, Zenon
       DEF IInv, SuccessInv, Stored, NothingToLoad, ZeroMeansNothingToLoad, DhcpSelect,
                      image, None
<1>5. PlaceInv'
  BY <1>1, PlaceKept, Zenon DEF DhcpSelect
<1> QED
  BY <1>2, <1>3, <1>4, <1>5 DEF IInv

(* The DHCP handler: an acknowledgement of the server binds its address.    *)
LEMMA DhcpBindInv ==
    ASSUME IInv, NEW m \in wire, DhcpBind(m), UNCHANGED Outer
    PROVE  IInv'
<1>1. /\ UNCHANGED <<protocol, autoload, ret, file, net_dev_exists, place, net_try_count>>
      /\ ret = "running" /\ place = "loop" /\ net_dev_exists /\ udp_handler = "dhcp"
      /\ LoopTypes /\ WireOk(wire, leased) /\ m.server \in DhcpServers \cap leased
      /\ protocol = "DHCP" /\ net_ip' = m.server /\ leased' = leased \cap {m.server}
  BY Zenon DEF Outer, setting, DhcpBind, DhcpReceives, IsAck, Receives, IInv, LeaseInv, WireOk,
         SuccessInv, PlaceInv, None
<1>2. WireOk(NotDhcp(wire), leased')
  BY <1>1, NotDhcpOk
<1>3. CASE autoload
  <2>1. TftpStart(m.server, NotDhcp(wire)) /\ UNCHANGED <<net_state, image>>
    BY <1>3, Zenon DEF DhcpBind
  <2>2. /\ WireOk(wire', leased') /\ session' \in Transfers
        /\ net_tx_packet' \in TxPackets /\ tftp_our_port' \in PortNames
    BY <1>1, <1>2, <2>1, TftpStartOk, Zenon
  <2>3. LoopTypes'
    BY <1>1, <2>1, <2>2, Zenon DEF LoopTypes, TftpStart, image
  <2>4. SuccessInv'
    BY <1>1, <1>3, <2>1, Zenon
       DEF IInv, SuccessInv, Stored, NothingToLoad, ZeroMeansNothingToLoad,
                            TftpStart, image, None
  <2>5. PlaceInv'
    BY <1>1, <2>1, Zenon DEF PlaceInv, TftpStart
  <2> QED
    BY <1>1, <2>2, <2>3, <2>4, <2>5, Zenon DEF IInv, LeaseInv, BoundToLease
<1>4. CASE ~autoload
  <2>1. /\ wire' = NotDhcp(wire) /\ net_state' = "SUCCESS" /\ time_handler' = None
        /\ UNCHANGED <<tftp, session, net_tx_packet, udp_handler, image>>
    BY <1>4, Zenon DEF DhcpBind
  <2>2. LoopTypes'
    BY <1>1, <2>1, Zenon DEF LoopTypes, tftp, image
  <2>3. SuccessInv'
    BY <1>1, <1>4, <2>1, Zenon
       DEF IInv, SuccessInv, NothingToLoad, ZeroMeansNothingToLoad, None
  <2>4. PlaceInv'
    BY <1>1, <2>1, Zenon DEF PlaceInv
  <2> QED
    BY <1>1, <1>2, <2>1, <2>2, <2>3, <2>4, Zenon DEF IInv, LeaseInv, BoundToLease
<1> QED
  BY <1>3, <1>4

(* The timers: the iteration ends, or goes on as before, or without a       *)
(* handler.                                                                 *)
LEMMA TimerPlace ==
    ASSUME IInv, ret = "running", InLoop, LastInIteration,
           UNCHANGED <<ret, file, net_dev_exists, image, tftp_state>>,
           net_state' \in {"FAIL", "RESTART", net_state},
           udp_handler' \in {None, udp_handler},
           \/ UNCHANGED <<net_state, eth_active>>
           \/ net_state' \notin {"FAIL", "RESTART"} => udp_handler' = None
    PROVE  PlaceInv'
BY DEF IInv, PlaceInv, InLoop, LastInIteration, Hears, Stored, image, None

(* The timeout of TFTP.                                                     *)
LEMMA RunTftpTimeoutInv == IInv /\ RunTftpTimeout => IInv'
<1> SUFFICES ASSUME IInv, RunTftpTimeout PROVE IInv'
  OBVIOUS
<1>1. /\ UNCHANGED <<protocol, autoload, ret, file, net_ip, leased, net_dev_exists, image,
                      tftp_state>>
      /\ ret = "running" /\ InLoop /\ LastInIteration /\ LoopTypes /\ WireOk(wire, leased)
  BY Zenon DEF RunTftpTimeout, TftpTimeout, Expires, Outer, setting, IInv, LeaseInv
<1>2. CASE timeout_count + 1 > TimeoutCountMax
  <2>1. NetStartAgain(None, wire) /\ UNCHANGED <<session, net_tx_packet>>
    BY <1>2, Zenon DEF RunTftpTimeout, TftpTimeout
  <2>2. /\ WireOk(wire', leased) /\ net_state' \in {"FAIL", "RESTART", net_state}
        /\ time_handler' \in {"start_again", None} /\ udp_handler' \in {None, udp_handler}
        /\ net_try_count' \in Nat \ {0}
        /\ net_state' \notin {"FAIL", "RESTART"} => udp_handler' = None
    BY <1>1, <2>1, StartAgainOk, Zenon
  <2>3. LoopTypes'
    BY <1>1, <2>1, <2>2, Zenon DEF LoopTypes, RunTftpTimeout, TftpTimeout, image
  <2>4. SuccessInv'
    BY <1>1, <2>2, SuccessKept, Zenon DEF image
  <2>5. PlaceInv'
    BY <1>1, <2>2, TimerPlace, Zenon
  <2> QED
    BY <1>1, <2>2, <2>3, <2>4, <2>5, LeaseKept, Zenon DEF IInv
<1>3. CASE ~(timeout_count + 1 > TimeoutCountMax)
  <2>1. Resend /\ UNCHANGED loop
    BY <1>3, Zenon DEF RunTftpTimeout, TftpTimeout
  <2>2. PICK packet \in TxPackets : Transmit(packet, wire) /\ net_tx_packet' = packet
    <3>1. /\ ReadRequest(tftp_our_port) \in TxPackets
          /\ Ack(tftp_cur_block, tftp_remote_port) \in TxPackets
      BY <1>1, Zenon DEF LoopTypes, ReadRequest, Ack, TxPackets
    <3> QED
      BY <2>1, <3>1 DEF Resend
  <2>3. WireOk(wire', leased) /\ session' \in Transfers
    BY <1>1, <2>2, TransmitOk, Zenon DEF LoopTypes
  <2>4. LoopTypes'
    BY <1>1, <2>1, <2>2, <2>3, Zenon DEF LoopTypes, RunTftpTimeout, TftpTimeout, image, loop
  <2>5. SuccessInv'
    BY <1>1, <2>1, SuccessKept, Zenon DEF image, loop
  <2>6. PlaceInv'
    BY <1>1, <2>1, TimerPlace, Zenon DEF loop
  <2> QED
    BY <1>1, <2>3, <2>4, <2>5, <2>6, LeaseKept, Zenon DEF IInv
<1> QED
  BY <1>2, <1>3

(* The timeout of DHCP.                                                     *)
LEMMA RunBootpTimeoutInv == IInv /\ RunBootpTimeout => IInv'
<1> SUFFICES ASSUME IInv, RunBootpTimeout PROVE IInv'
  OBVIOUS
<1>1. /\ UNCHANGED <<protocol, autoload, ret, file, net_ip, leased, net_dev_exists, tftp,
                      image, session>>
      /\ ret = "running" /\ InLoop /\ LastInIteration
      /\ LoopTypes /\ WireOk(wire, leased) /\ protocol = "DHCP"
  BY Zenon
     DEF RunBootpTimeout, BootpTimeout, Expires, Outer, setting, IInv, LeaseInv, SuccessInv
<1>2. CASE bootp_try >= MaxBootpTry
  <2>1. NetStartAgain(None, wire) /\ UNCHANGED net_tx_packet
    BY <1>2, Zenon DEF RunBootpTimeout, BootpTimeout
  <2>2. /\ WireOk(wire', leased) /\ net_state' \in {"FAIL", "RESTART", net_state}
        /\ time_handler' \in {"start_again", None} /\ udp_handler' \in {None, udp_handler}
        /\ net_try_count' \in Nat \ {0}
        /\ net_state' \notin {"FAIL", "RESTART"} => udp_handler' = None
    BY <1>1, <2>1, StartAgainOk, Zenon
  <2>3. LoopTypes'
    BY <1>1, <2>1, <2>2, Zenon DEF LoopTypes, tftp, image
  <2>4. SuccessInv'
    BY <1>1, <2>2, SuccessKept, Zenon DEF image
  <2>5. PlaceInv'
    BY <1>1, <2>2, TimerPlace, Zenon DEF tftp
  <2> QED
    BY <1>1, <2>2, <2>3, <2>4, <2>5, LeaseKept, Zenon DEF IInv
<1>3. CASE ~(bootp_try >= MaxBootpTry)
  <2>1. /\ BootpRequest(bootp_ids, bootp_num_ids, bootp_try, wire)
        /\ UNCHANGED <<net_state, net_try_count>>
    BY <1>3, Zenon DEF RunBootpTimeout, BootpTimeout
  <2>2. WireOk(wire', leased) /\ net_tx_packet' \in TxPackets
    BY <1>1, <2>1, BootpRequestOk, Zenon
  <2>3. LoopTypes'
    BY <1>1, <2>1, <2>2, Zenon DEF LoopTypes, tftp, image
  <2>4. net_dev_exists' /\ udp_handler' = "dhcp" /\ time_handler' = "bootp"
    <3>1. net_dev_exists
      BY Zenon DEF RunBootpTimeout, BootpTimeout, Expires, IInv, SuccessInv
    <3> QED
      BY <1>1, <2>1, <3>1, Zenon DEF BootpRequest
  <2>5. SuccessInv'
    BY <1>1, <2>1, <2>4, Zenon
       DEF IInv, SuccessInv, Stored, NothingToLoad, ZeroMeansNothingToLoad, image,
                            None
  <2>6. PlaceInv'
    BY <1>1, <2>1, <2>4, Zenon DEF IInv, PlaceInv, InLoop, LastInIteration
  <2> QED
    BY <1>1, <2>2, <2>3, <2>5, <2>6, LeaseKept, Zenon DEF IInv
<1> QED
  BY <1>2, <1>3

(* The timeouts of a restart and of ARP.                                    *)
LEMMA OtherTimersInv == IInv /\ (RunStartAgainTimeout \/ RunArpTimeout) => IInv'
<1>1. ASSUME IInv, RunStartAgainTimeout PROVE IInv'
  <2>1. LoopTypes'
    BY <1>1, Zenon DEF IInv, LoopTypes, RunStartAgainTimeout, Quiet, setting, tftp, image
  <2>2. LeaseInv'
    BY <1>1, Zenon DEF IInv, LeaseInv, BoundToLease, RunStartAgainTimeout, Quiet
  <2>3. SuccessInv'
    BY <1>1, SuccessKept
      , Zenon DEF RunStartAgainTimeout, StartAgainTimeout, Expires, Quiet, setting, image
  <2>4. PlaceInv'
    BY <1>1, Zenon
       DEF RunStartAgainTimeout, StartAgainTimeout, LastInIteration, IInv, PlaceInv, Hears
  <2> QED
    BY <2>1, <2>2, <2>3, <2>4 DEF IInv
<1>2. ASSUME IInv, RunArpTimeout PROVE IInv'
  <2>1. WireOk(wire, leased)
    BY <1>2, Zenon DEF IInv, LeaseInv
  <2>2. WireOk(wire', leased)
    BY <1>2, <2>1, ArpRequestOk, Zenon DEF RunArpTimeout, ArpTimeout
  <2>3. LoopTypes'
    BY <1>2, Zenon DEF IInv, LoopTypes, RunArpTimeout, Outer, setting, tftp, image
  <2>4. SuccessInv'
    BY <1>2, SuccessKept, Zenon DEF RunArpTimeout, ArpTimeout, Outer, setting, image
  <2>5. PlaceInv'
    <3>1. /\ place = "arp" \/ (place = "loop" /\ net_state = "CONTINUE")
          /\ AfterArpCheck /\ net_state' \in {"FAIL", net_state}
          /\ UNCHANGED <<ret, net_dev_exists, udp_handler, eth_active, tftp_state, file, late,
                         net_boot_file_size>>
      BY <1>2, Zenon DEF RunArpTimeout, ArpTimeout, Outer, setting, tftp, image
    <3> QED
      BY <1>2, <3>1, Zenon DEF IInv, PlaceInv, AfterArpCheck, Hears, Stored, None
  <2> QED
    BY <1>2, <2>2, <2>3, <2>4, <2>5, LeaseKept, Zenon DEF IInv, RunArpTimeout
<1> QED
  BY <1>1, <1>2

-----------------------------------------------------------------------------
(* net_loop() up to `restart:'.                                             *)
LEMMA CommandInv ==
    ASSUME IInv, NEW p \in Protocols, NEW load \in BOOLEAN, Command(p, load)
    PROVE  IInv'
<1>1. /\ ret = None /\ protocol' = p /\ file' \in FileSizes[p]
      /\ ret' \in {"running", "error"} /\ place' \in {place, "restart"}
      /\ UNCHANGED <<net_state, time_handler, udp_handler, net_try_count, net_dev_exists, net_ip,
                     net_tx_packet, wire, tftp, image, session, leased>>
  BY Zenon DEF Command
<1>2. net_state = "CONTINUE" /\ udp_handler = None /\ time_handler = None
  BY <1>1, Zenon DEF IInv, SuccessInv
<1>3. LoopTypes'
  <2>1. file' \in Nat
    BY <1>1, TftpAssumption, Zenon
  <2> QED
    BY <1>1, <2>1, Zenon DEF IInv, LoopTypes, tftp, image
<1>4. LeaseInv'
  BY <1>1, LeaseKept, Zenon DEF IInv, LeaseInv
<1>5. SuccessInv'
  BY <1>1, <1>2, Zenon DEF SuccessInv, ZeroMeansNothingToLoad, None
<1>6. PlaceInv'
  BY <1>1, <1>2, Zenon DEF IInv, PlaceInv, None
<1> QED
  BY <1>3, <1>4, <1>5, <1>6 DEF IInv

(* net_check_prereq(): the network is not configured.                       *)
LEMMA StartRefusedInv == IInv /\ StartRefused => IInv'
<1> SUFFICES ASSUME IInv, StartRefused PROVE IInv'
  OBVIOUS
<1>1. /\ ret' = "nodev" /\ place' = "loop" /\ ret = "running"
      /\ UNCHANGED <<setting, net_state, time_handler, udp_handler, net_try_count, net_dev_exists,
                     net_ip, net_tx_packet, wire, tftp, image, session, leased>>
  BY Zenon DEF StartRefused, AtRestart
<1>2. LoopTypes' /\ LeaseInv'
  BY <1>1, Zenon DEF IInv, LoopTypes, LeaseInv, BoundToLease, setting, tftp, image
<1>3. SuccessInv'
  BY <1>1, Zenon
     DEF IInv, SuccessInv, Stored, NothingToLoad, ZeroMeansNothingToLoad, setting, image, None
<1>4. PlaceInv'
  BY <1>1, Zenon DEF IInv, PlaceInv, Hears
<1> QED
  BY <1>2, <1>3, <1>4 DEF IInv

(* net_check_prereq(): the interface has no hardware address.               *)
LEMMA StartSkippedInv == IInv /\ StartSkipped => IInv'
<1> SUFFICES ASSUME IInv, StartSkipped PROVE IInv'
  OBVIOUS
<1>1. /\ UNCHANGED <<setting, ret, net_dev_exists, net_ip, net_tx_packet, tftp, image, session,
                     leased>>
      /\ ret = "running" /\ place' = "arp" /\ LoopTypes /\ WireOk(wire, leased)
      /\ NetStartAgain(time_handler, wire)
  BY Zenon DEF StartSkipped, AtRestart, IInv, LeaseInv
<1>2. /\ WireOk(wire', leased) /\ net_state' \in {"FAIL", "RESTART", net_state}
      /\ time_handler' \in {"start_again", time_handler} /\ udp_handler' \in {None, udp_handler}
      /\ net_try_count' \in Nat \ {0}
      /\ net_state' \notin {"FAIL", "RESTART"} => udp_handler' = None
  BY <1>1, StartAgainOk, Zenon
<1>3. LoopTypes'
  BY <1>1, <1>2, Zenon DEF LoopTypes, setting, tftp, image
<1>4. SuccessInv'
  BY <1>1, <1>2, SuccessKept, Zenon DEF setting, image
<1>5. PlaceInv'
  BY <1>1, <1>2, Zenon DEF IInv, PlaceInv, Hears
<1> QED
  BY <1>1, <1>2, <1>3, <1>4, <1>5, LeaseKept, Zenon DEF IInv

(* net_loop() starts the protocol: the size is cleared, and with DHCP the   *)
(* address too.                                                             *)
LEMMA StartProtocolInv == IInv /\ StartProtocol => IInv'
<1> SUFFICES ASSUME IInv, StartProtocol PROVE IInv'
  OBVIOUS
<1>1. /\ LoopTypes /\ WireOk(wire, leased) /\ BoundToLease /\ ret = "running"
      /\ protocol \in Protocols /\ net_state = "CONTINUE"
  BY Zenon DEF IInv, LeaseInv, SuccessInv, PlaceInv, StartProtocol, AtRestart
<1>2. /\ UNCHANGED <<protocol, ret, file, net_state, net_try_count>> /\ net_boot_file_size' = 0
      /\ place' = "loop" /\ net_dev_exists' = TRUE
  BY Zenon DEF StartProtocol, setting
<1>3. CASE protocol = "TFTPGET"
  <2>1. TftpStart(net_ip, NotDhcp(wire)) /\ UNCHANGED <<leased, net_ip>>
    BY <1>3, Zenon DEF StartProtocol
  <2>2. /\ WireOk(wire', leased) /\ session' \in Transfers
        /\ net_tx_packet' \in TxPackets /\ tftp_our_port' \in PortNames
    BY <1>1, <2>1, NotDhcpOk, TftpStartOk, Zenon
  <2>3. LoopTypes'
    BY <1>1, <1>2, <2>1, <2>2, Zenon DEF LoopTypes, TftpStart
  <2>4. SuccessInv'
    BY <1>1, <1>2, <2>1, Zenon DEF SuccessInv, ZeroMeansNothingToLoad, TftpStart, None
  <2>5. PlaceInv'
    BY <1>2, <2>1, Zenon DEF PlaceInv, TftpStart
  <2> QED
    BY <2>1, <2>2, <2>3, <2>4, <2>5, LeaseKept, Zenon DEF IInv
<1>4. CASE protocol = "DHCP"
  <2>1. DhcpStart(wire) /\ TftpForgotten /\ UNCHANGED session
    BY <1>4, Zenon DEF StartProtocol
  <2>2. WireOk(wire', {}) /\ net_tx_packet' \in TxPackets
    BY <1>1, <2>1, NotDhcpOk, BootpRequestOk, Zenon DEF DhcpStart
  <2>3. LoopTypes'
    BY <1>1, <1>2, <2>1, <2>2, Zenon DEF LoopTypes, TftpForgotten, PortNames
  <2>4. LeaseInv'
    BY <2>1, <2>2, BootpAssumption, Zenon DEF LeaseInv, BoundToLease, DhcpStart
  <2>5. SuccessInv'
    BY <1>1, <1>2, <1>4, <2>1, Zenon DEF SuccessInv, ZeroMeansNothingToLoad, None
  <2>6. PlaceInv'
    BY <1>2, <2>1, Zenon DEF PlaceInv, TftpForgotten
  <2> QED
    BY <2>3, <2>4, <2>5, <2>6 DEF IInv
<1> QED
  BY <1>1, <1>3, <1>4 DEF Protocols

(* The first iteration after net_check_prereq() gave 2.                     *)
LEMMA EnterLoopInv == IInv /\ EnterLoop => IInv'
<1> SUFFICES ASSUME IInv, EnterLoop PROVE IInv'
  OBVIOUS
<1>1. /\ UNCHANGED <<setting, ret, net_dev_exists, net_ip, net_tx_packet, tftp, image, session,
                     leased, wire, loop>>
      /\ ret = "running" /\ place = "arp" /\ AfterArpCheck
  BY Zenon DEF EnterLoop, Quiet
<1>2. LoopTypes' /\ LeaseInv'
  BY <1>1, Zenon DEF IInv, LoopTypes, LeaseInv, BoundToLease, setting, tftp, image, loop
<1>3. SuccessInv'
  BY <1>1, SuccessKept, Zenon DEF setting, image, loop
<1>4. PlaceInv'
  <2>1. UNCHANGED <<net_state, udp_handler, net_dev_exists>> /\ PlaceInv
    BY <1>1, Zenon DEF IInv, loop
  <2>2. CASE net_state = "CONTINUE"
    BY <1>1, <2>1, <2>2, Zenon DEF PlaceInv, AfterArpCheck, None
  <2>3. CASE net_state # "CONTINUE"
    BY <1>1, <2>1, <2>3 DEF PlaceInv, AfterArpCheck, Hears
  <2> QED
    BY <2>2, <2>3
<1> QED
  BY <1>2, <1>3, <1>4 DEF IInv

(* The end of an iteration in state RESTART.                                *)
LEMMA LoopRestartInv == IInv /\ LoopRestart => IInv'
<1> SUFFICES ASSUME IInv, LoopRestart PROVE IInv'
  OBVIOUS
<1>1. /\ UNCHANGED <<setting, ret, net_dev_exists, net_ip, net_tx_packet, tftp, image, session,
                     leased, wire, time_handler, udp_handler, net_try_count>>
      /\ ret = "running" /\ net_state' = "CONTINUE" /\ place' = "restart"
  BY Zenon DEF LoopRestart, AtSwitch, Quiet
<1>2. LoopTypes' /\ LeaseInv'
  BY <1>1, Zenon DEF IInv, LoopTypes, LeaseInv, BoundToLease, setting, tftp, image
<1>3. SuccessInv'
  BY <1>1, SuccessKept, Zenon DEF setting, image
<1>4. PlaceInv'
  BY <1>1, Zenon DEF IInv, PlaceInv, Hears
<1> QED
  BY <1>2, <1>3, <1>4 DEF IInv

(* The end of an iteration in state SUCCESS.                                *)
LEMMA LoopSuccessInv == IInv /\ LoopSuccess => IInv'
<1> SUFFICES ASSUME IInv, LoopSuccess PROVE IInv'
  OBVIOUS
<1>1. /\ UNCHANGED <<setting, net_dev_exists, net_ip, net_tx_packet, tftp, image, leased,
                     net_state, net_try_count>>
      /\ udp_handler' = None /\ time_handler' = None /\ place' = "loop" /\ wire' = {}
      /\ session' = [k \in Sessions |-> Idle]
      /\ ret' = (IF net_boot_file_size > 0 THEN "loaded" ELSE "zero")
      /\ net_state = "SUCCESS"
  BY Zenon DEF LoopSuccess, NetCleanup, NetworkForgotten, Quiet
<1>2. LoopTypes' /\ LeaseInv'
  BY <1>1, Zenon
     DEF IInv, LoopTypes, LeaseInv, WireOk, BoundToLease, Transfers, Idle, PortNames,
              setting, tftp, image
<1>3. SuccessInv'
  BY <1>1, Zenon
     DEF IInv, SuccessInv, Stored, NothingToLoad, ZeroMeansNothingToLoad, setting, image, None
<1>4. PlaceInv'
  BY <1>1, Zenon DEF PlaceInv, Hears
<1> QED
  BY <1>2, <1>3, <1>4 DEF IInv

(* The end of an iteration in state FAIL.                                   *)
LEMMA LoopFailInv == IInv /\ LoopFail => IInv'
<1> SUFFICES ASSUME IInv, LoopFail PROVE IInv'
  OBVIOUS
<1>1. /\ UNCHANGED <<setting, net_dev_exists, net_ip, net_tx_packet, tftp, image, leased>>
      /\ net_state = "FAIL" /\ ret = "running" /\ LoopTypes
      /\ WireOk(wire, leased) /\ WireOk({}, leased)
  BY DEF LoopFail, AtSwitch, Quiet, IInv, LeaseInv, WireOk
<1>2. PICK r \in Rotations :
         /\ RestartEth(r, IF StateAfterRestart(r) = "RESTART" THEN wire ELSE {})
         /\ net_state' = StateAfterRestart(r)
         /\ IF net_state' = "RESTART"
              THEN /\ place' = "switch"
                   /\ UNCHANGED <<ret, time_handler, udp_handler, session>>
              ELSE /\ ret' = CASE ~TriesLeft -> "timedout"
                               [] TriesLeft /\ r.up -> "zero"
                               [] TriesLeft /\ ~r.up -> "error"
                   /\ NetCleanup /\ place' = "loop" /\ NetworkForgotten
  BY DEF LoopFail
<1>3. WireOk(wire', leased) /\ net_try_count' \in Nat \ {0}
  BY <1>1, <1>2, RestartOk
<1>4. net_state' \in {"FAIL", "RESTART"}
  BY <1>1, <1>2 DEF StateAfterRestart
<1>5. LoopTypes'
  BY <1>1, <1>2, <1>3
     DEF LoopTypes, NetworkForgotten, Transfers, Idle, PortNames, setting, tftp,
                image
<1>6. LeaseInv'
  BY <1>1, <1>3, LeaseKept, Zenon
<1>7. SuccessInv' /\ PlaceInv'
  <2>1. CASE net_state' = "RESTART"
    BY <1>1, <1>2, <2>1, SuccessKept DEF IInv, PlaceInv, Hears, setting, image
  <2>2. CASE net_state' = "FAIL"
    <3>1. /\ udp_handler' = None /\ time_handler' = None /\ place' = "loop"
          /\ ret' \in {"timedout", "zero", "error"} /\ (ret' = "zero" => TriesLeft)
      BY <1>2, <2>2 DEF NetCleanup
    <3>2. TriesLeft => RetryCnt > 1
      BY <1>1, NetAssumption DEF TriesLeft, LoopTypes
    <3>3. SuccessInv'
      BY <1>1, <2>2, <3>1, <3>2, Zenon
         DEF IInv, SuccessInv, ZeroMeansNothingToLoad, setting, None
    <3>4. PlaceInv'
      BY <2>2, <3>1, Zenon DEF PlaceInv, Hears, None
    <3> QED
      BY <3>3, <3>4
  <2> QED
    BY <1>4, <2>1, <2>2
<1> QED
  BY <1>5, <1>6, <1>7 DEF IInv

(* ctrl-c in the loop.                                                      *)
LEMMA CtrlCInv == IInv /\ CtrlC => IInv'
<1> SUFFICES ASSUME IInv, CtrlC PROVE IInv'
  OBVIOUS
<1>1. /\ UNCHANGED <<setting, net_dev_exists, net_ip, net_tx_packet, tftp, image, leased,
                     net_state, net_try_count, place>>
      /\ udp_handler' = None /\ time_handler' = None /\ wire' = {} /\ ret' = "intr"
      /\ session' = [k \in Sessions |-> Idle]
  BY Zenon DEF CtrlC, NetCleanup, NetworkForgotten
<1>2. LoopTypes' /\ LeaseInv'
  BY <1>1, Zenon
     DEF IInv, LoopTypes, LeaseInv, WireOk, BoundToLease, Transfers, Idle, PortNames,
              setting, tftp, image
<1>3. SuccessInv'
  BY <1>1, Zenon
     DEF IInv, SuccessInv, Stored, NothingToLoad, ZeroMeansNothingToLoad, setting, image, None
<1>4. PlaceInv'
  BY <1>1, Zenon DEF IInv, PlaceInv, Hears, None
<1> QED
  BY <1>2, <1>3, <1>4 DEF IInv

(* The network.                                                             *)
LEMMA LoseInv ==
    ASSUME IInv, NEW m \in wire, Lose(m)
    PROVE  IInv'
<1>1. LoopTypes'
  BY Zenon DEF IInv, LoopTypes, Lose, Quiet, setting, loop, tftp, image
<1>2. LeaseInv'
  BY WireShrinks, LeaseKept, Zenon DEF IInv, LeaseInv, Lose, Quiet
<1>3. SuccessInv'
  BY SuccessKept, Zenon DEF Lose, Quiet, setting, loop, image
<1>4. PlaceInv'
  BY Zenon DEF IInv, PlaceInv, Hears, Stored, Lose, Quiet, setting, loop, tftp, image
<1> QED
  BY <1>1, <1>2, <1>3, <1>4 DEF IInv

(* The server repeats a packet or gives up.                                 *)
LEMMA ServerInv ==
    ASSUME IInv, NEW k \in Sessions, Server(k)
    PROVE  IInv'
<1>1. session[k].sent \in Nat /\ session \in Transfers /\ WireOk(wire, leased)
  BY Zenon DEF IInv, LoopTypes, Transfers, LeaseInv
<1>2. session' \in Transfers
  BY <1>1 DEF Server, ServerAborts, Transfers, Idle, PortNames
<1>3. WireOk(wire', leased)
  <2>1. CASE ServerResends(k)
    BY <1>1, <2>1, FromServerOk, Zenon DEF ServerResends, ServerSends
  <2>2. CASE ServerAborts(k)
    BY <1>1, <2>2, ErrorFromOk, Zenon DEF ServerAborts, ServerSends
  <2> QED
    BY <2>1, <2>2, Zenon DEF Server
<1>4. LoopTypes'
  BY <1>2, Zenon DEF IInv, LoopTypes, Server, Outer, setting, loop, tftp, image
<1>5. SuccessInv'
  BY SuccessKept, Zenon DEF Server, Outer, setting, loop, image
<1>6. PlaceInv'
  BY Zenon DEF IInv, PlaceInv, Hears, Stored, Server, Outer, setting, loop, tftp, image
<1> QED
  BY <1>3, <1>4, <1>5, <1>6, LeaseKept, Zenon DEF IInv, Server

-----------------------------------------------------------------------------
(* What earlier commands leave behind.                                      *)
LEMMA Initial == Init => IInv
<1> SUFFICES ASSUME Init PROVE IInv
  OBVIOUS
<1>1. LoopTypes
  BY DEF Init, LoopTypes, TxPackets, Transfers, Idle, PortNames
<1>2. LeaseInv
  BY StaticAssumption, BootpAssumption, Zenon DEF Init, LeaseInv, WireOk, BoundToLease
<1>3. SuccessInv
  BY Zenon DEF Init, SuccessInv, ZeroMeansNothingToLoad, Protocols, None
<1>4. PlaceInv
  BY Zenon DEF Init, PlaceInv, Hears, None
<1> QED
  BY <1>1, <1>2, <1>3, <1>4 DEF IInv

(* Every step of the loop and of the network keeps the invariant.           *)
LEMMA Invariance == IInv /\ [Next]_vars => IInv'
<1> SUFFICES ASSUME IInv, [Next]_vars PROVE IInv'
  BY Zenon
<1>1. ASSUME NEW p \in Protocols, NEW load \in BOOLEAN, Command(p, load) PROVE IInv'
  BY <1>1, CommandInv
<1>2. CASE Start
  BY <1>2, StartRefusedInv, StartSkippedInv, StartProtocolInv DEF Start
<1>3. ASSUME NEW m \in wire, TftpReceive(m) \/ DhcpReceive(m) \/ Lose(m) PROVE IInv'
  BY <1>3, TftpReceiveInv, DhcpSelectInv, DhcpBindInv, LoseInv, Zenon DEF DhcpReceive
<1>4. CASE Timers
  BY <1>4, RunTftpTimeoutInv, RunBootpTimeoutInv, OtherTimersInv, Zenon DEF Timers
<1>5. CASE EnterLoop \/ LoopRestart \/ LoopSuccess \/ LoopFail \/ CtrlC
  BY <1>5, EnterLoopInv, LoopRestartInv, LoopSuccessInv, LoopFailInv, CtrlCInv, Zenon
<1>6. ASSUME NEW k \in Sessions, Server(k) PROVE IInv'
  BY <1>6, ServerInv, Zenon
<1>7. CASE UNCHANGED vars
  <2>1. LoopTypes' /\ LeaseInv'
    BY <1>7, Zenon DEF IInv, LoopTypes, LeaseInv, BoundToLease, vars, setting, loop, tftp,
                image
  <2>2. SuccessInv'
    BY <1>7, Zenon DEF IInv, SuccessInv, Stored, NothingToLoad, ZeroMeansNothingToLoad,
                vars, setting, loop, tftp, image
  <2>3. PlaceInv'
    BY <1>7, Zenon DEF IInv, PlaceInv, Hears, Stored, vars, setting, loop, tftp, image
  <2> QED
    BY <2>1, <2>2, <2>3, Zenon DEF IInv
<1>8. "TFTPGET" \in Protocols /\ "DHCP" \in Protocols /\ TRUE \in BOOLEAN
  BY DEF Protocols
<1> QED
  BY <1>1, <1>2, <1>3, <1>4, <1>5, <1>6, <1>7, <1>8, Zenon DEF Next, LoopEnd

(* Every state of net_loop() satisfies the inductive invariant.             *)
THEOREM InvariantHolds == Spec => []IInv
BY Initial, Invariance, PTL DEF Spec

(* The address that store_net_params() keeps has been leased to the board,  *)
(* for any number of DHCP servers and requests and any size of the cache of *)
(* identifiers.                                                             *)
THEOREM LeaseCorrect == Spec => []BoundToLease
<1>1. IInv => BoundToLease
  BY DEF IInv, LeaseInv
<1> QED
  BY InvariantHolds, <1>1, PTL

(* net_loop() returns 0 only when there was nothing to load, when the file  *)
(* is empty (or a block came late), or when the transfer has failed and     *)
(* netretry allows more than one try: for files of any length, any number   *)
(* of interfaces and any limits.                                            *)
THEOREM ZeroCorrect == Spec => []ZeroMeansNothingToLoad
<1>1. IInv => ZeroMeansNothingToLoad
  BY Zenon DEF IInv, SuccessInv
<1> QED
  BY InvariantHolds, <1>1, PTL
=============================================================================
