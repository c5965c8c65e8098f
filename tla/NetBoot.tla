------------------------------ MODULE NetBoot ------------------------------
(***************************************************************************)
(* One of the commands `tftpboot' and `dhcp': net_loop() with its          *)
(* protocols, on a network that loses, repeats and reorders packets.       *)
(* Earlier commands have left their traces in the static variables.        *)
(***************************************************************************)
EXTENDS Bootp

vars == <<setting, ret, loop, place, net_restarted, net_dev_exists, net_ip,
          net_server_ethaddr, net_tx_packet, arp, wire, tftp, image, session,
          bootp, leased>>

Static == "static"      \* the address of the environment variable ipaddr

ASSUME StaticAssumption == Static \notin DhcpServers

\* The interfaces are numbered from the one that eth_init() starts first.  One
\* whose variable ethaddr was deleted has no hardware address.
Boards == UNION {[ndev : {n}, addressed : SUBSET (1 .. n)] : n \in 1 .. MaxDev}

Nothing == [o \in 0 .. MaxOffset |-> 0]

TypeOK ==
    /\ board \in Boards /\ protocol \in Protocols /\ file \in {0} \cup FileSizes[protocol]
    /\ ret \in {"running", "loaded", "zero", "timedout", "intr", "error", "nodev", None}
    /\ place \in {"restart", "arp", "skip", "loop", "switch"} /\ net_dev_exists \in BOOLEAN
    /\ net_state \in {"CONTINUE", "RESTART", "SUCCESS", "FAIL"}
    /\ time_handler \in {"tftp", "bootp", "start_again", None}
    /\ udp_handler \in {"tftp", "dhcp", None}
    /\ net_try_count \in 1 .. Max({1, RetryCnt})
    /\ net_restarted \in BOOLEAN /\ net_restart_wrap \in BOOLEAN
    /\ dev \in 1 .. board.ndev /\ first_failed \in 0 .. board.ndev
    /\ net_ip \in DhcpServers \cup {Static, None}
    /\ arp_waiting \in BOOLEAN /\ arp_wait_try \in 0 .. Max({1, ArpTimeoutCount - 1})
    /\ tftp_state \in {"SEND_RRQ", "OACK", "DATA"}
    /\ tftp_cur_block \in 0 .. SeqSize - 1 /\ tftp_prev_block \in 0 .. SeqSize - 1
    /\ timeout_count \in 0 .. TimeoutCountMax + 1
    /\ memory \in [0 .. MaxOffset -> 0 .. Blocks]
    /\ bootp_num_ids \in 0 .. IdCacheSize /\ bootp_try \in 0 .. MaxBootpTry
    /\ leased \subseteq DhcpServers /\ Fits(wire)

\* Before the command.  Earlier commands may have left behind an ARP wait, the
\* interface that had failed first, and the mark that it was reached again; the
\* variable ipaddr may not be set.
Init ==
    /\ board \in Boards /\ protocol = "TFTPGET" /\ autoload = TRUE /\ file = 0
    /\ ret = None /\ place = "loop"
    /\ net_state = "CONTINUE" /\ time_handler = None /\ udp_handler = None
    /\ net_try_count = 1 /\ net_restarted = FALSE /\ net_dev_exists = FALSE
    /\ dev = 1 /\ first_failed = 0 /\ net_restart_wrap \in BOOLEAN
    /\ eth_active = FALSE
    /\ net_ip \in {Static, None} /\ net_server_ethaddr = FALSE
    /\ net_tx_packet = [op |-> None] /\ arp_waiting \in BOOLEAN /\ arp_wait_try = 0
    /\ wire = {}
    /\ tftp_state = "SEND_RRQ" /\ tftp_remote_port = None /\ tftp_our_port = None
    /\ tftp_cur_block = 0 /\ tftp_prev_block = 0 /\ tftp_block_wrap = 0
    /\ timeout_count = 0
    /\ memory = Nothing /\ net_boot_file_size = 0
    /\ newest = 0 /\ late = FALSE /\ overtaken = FALSE
    /\ session = [k \in Sessions |-> Idle]
    /\ dhcp_state = "INIT" /\ bootp_ids = NoIds
    /\ bootp_num_ids = 0 /\ bootp_try = 0 /\ leased = {}

\* Not a step of the code: what nothing reads before tftp_start() or
\* new_transfer() sets it is forgotten, to keep the state space small.
TftpForgotten ==
    /\ tftp_state' = "SEND_RRQ" /\ tftp_remote_port' = None /\ tftp_our_port' = None
    /\ tftp_cur_block' = 0 /\ tftp_block_wrap' = 0 /\ timeout_count' = 0

\* net_loop() up to `restart:'.  When eth_init() starts no interface, that is all.
Command(p, load) ==
    /\ ret = None
    /\ protocol' = p /\ autoload' = load /\ file' \in FileSizes[p]
    /\ eth_active' \in BOOLEAN
    /\ IF eth_active' THEN ret' = "running" /\ place' = "restart"
                      ELSE ret' = "error" /\ UNCHANGED place
    /\ UNCHANGED <<board, net_state, time_handler, udp_handler, net_try_count,
                   net_restart_wrap, dev, first_failed, net_restarted, net_dev_exists,
                   net_ip, net_server_ethaddr, net_tx_packet, arp, wire, tftp, image,
                   session, bootp, leased>>

(***************************************************************************)
(* From `restart:' to the reception loop: net_check_prereq(), and the      *)
(* protocol.                                                               *)
(***************************************************************************)
AtRestart == ret = "running" /\ place = "restart"
NoAddress == protocol = "TFTPGET" /\ net_ip = None

\* Case 1: the network is not configured.
StartRefused ==
    /\ AtRestart /\ NoAddress
    /\ ret' = "nodev" /\ place' = "loop" /\ eth_active' = FALSE
    /\ UNCHANGED <<setting, net_state, time_handler, udp_handler, net_try_count,
                   net_restart_wrap, dev, first_failed, net_restarted, net_dev_exists,
                   net_ip, net_server_ethaddr, net_tx_packet, arp, wire, tftp, image,
                   session, bootp, leased>>

\* Case 2: the interface has no hardware address.  No protocol is started.
StartSkipped ==
    /\ AtRestart /\ ~NoAddress /\ dev \notin board.addressed
    /\ NetStartAgain(time_handler, wire) /\ place' = "arp"
    /\ UNCHANGED <<setting, ret, net_restarted, net_dev_exists, net_ip, net_server_ethaddr,
                   net_tx_packet, arp, tftp, image, session, bootp, leased>>

StartProtocol ==
    /\ AtRestart /\ ~NoAddress /\ dev \in board.addressed
    /\ place' = "loop" /\ net_dev_exists' = TRUE
    /\ net_boot_file_size' = 0 /\ newest' = 0 /\ UNCHANGED <<memory, late, overtaken>>
    /\ IF protocol = "TFTPGET"
         THEN /\ TftpStart(net_ip, NotDhcp(wire))
              /\ UNCHANGED <<bootp, leased, net_ip>>
         ELSE /\ DhcpStart(wire)
              /\ TftpForgotten
              /\ UNCHANGED <<tftp_prev_block, session, arp, net_server_ethaddr>>
    /\ UNCHANGED <<setting, ret, net_state, net_try_count, net_restart_wrap, dev,
                   first_failed, eth_active, net_restarted>>

Start == StartRefused \/ StartSkipped \/ StartProtocol

(***************************************************************************)
(* The end of an iteration.                                                *)
(***************************************************************************)
Quiet == <<setting, net_ip, net_server_ethaddr, net_tx_packet, arp, tftp, image,
           bootp, leased>>

\* What the network does after the command is of no interest.
NetworkForgotten == session' = [k \in Sessions |-> Idle]

AtSwitch == ret = "running" /\ (InLoop \/ place = "switch")

LoopRestart ==
    /\ AtSwitch /\ net_state = "RESTART"
    /\ net_restarted' = TRUE /\ place' = "restart" /\ net_state' = "CONTINUE"
    /\ UNCHANGED <<Quiet, session, ret, time_handler, udp_handler, net_try_count,
                   net_restart_wrap, net_dev_exists, dev, first_failed, eth_active, wire>>

LoopSuccess ==
    /\ AtSwitch /\ net_state = "SUCCESS"
    /\ ret' = IF net_boot_file_size > 0 THEN "loaded" ELSE "zero"
    /\ NetCleanup /\ eth_active' = FALSE /\ place' = "loop"
    /\ wire' = {} /\ NetworkForgotten
    /\ UNCHANGED <<Quiet, net_state, net_try_count, net_restarted, net_dev_exists,
                   net_restart_wrap, dev, first_failed>>

\* net_loop() calls net_start_again() itself.  Its result is that of eth_init(),
\* whatever becomes of net_state.
LoopFail ==
    /\ AtSwitch /\ net_state = "FAIL"
    /\ \E r \in Rotations :
         /\ RestartEth(r, IF StateAfterRestart(r) = "RESTART" THEN wire ELSE {})
         /\ net_state' = StateAfterRestart(r)
         /\ IF net_state' = "RESTART"
              THEN /\ place' = "switch"
                   /\ UNCHANGED <<ret, time_handler, udp_handler, session>>
              ELSE /\ ret' = CASE ~TriesLeft -> "timedout"
                               [] TriesLeft /\ r.up -> "zero"
                               [] TriesLeft /\ ~r.up -> "error"
                   /\ NetCleanup /\ place' = "loop" /\ NetworkForgotten
    /\ UNCHANGED <<Quiet, net_restarted, net_dev_exists>>

CtrlC ==
    /\ ret = "running" /\ InLoop
    /\ ret' = "intr" /\ arp_waiting' = FALSE
    /\ NetCleanup /\ eth_active' = FALSE
    /\ wire' = {} /\ NetworkForgotten
    /\ UNCHANGED <<setting, net_ip, net_server_ethaddr, net_tx_packet, arp_wait_try,
                   tftp, image, bootp, leased, net_state, place, net_try_count,
                   net_restarted, net_dev_exists, net_restart_wrap, dev, first_failed>>

\* The first arp_timeout_check() after case 2 finds nothing due.
EnterLoop ==
    /\ ret = "running" /\ place = "arp"
    /\ UNCHANGED <<Quiet, session, ret, loop, net_restarted, net_dev_exists, wire>>
    /\ AfterArpCheck

\* A packet is lost, or dropped by the filters of a handler.
Lose(m) ==
    /\ ret = "running" /\ m \in wire /\ wire' = wire \ {m}
    /\ UNCHANGED <<Quiet, session, ret, loop, place, net_restarted, net_dev_exists>>

(***************************************************************************)
(* The steps of the other modules leave the rest of the stack alone.       *)
(***************************************************************************)
Outer == <<setting, ret, net_restarted, net_dev_exists>>

TftpReceive(m) ==
    /\ \/ TftpOack(m) \/ TftpFirstBlockBad(m) \/ TftpSameBlock(m) \/ TftpBlock(m)
       \/ TftpError(m) \/ ArpReceive(m)
    /\ UNCHANGED <<Outer, net_ip, bootp, leased>>

DhcpReceive(m) == (DhcpSelect(m) \/ DhcpBind(m)) /\ UNCHANGED Outer

\* While nobody takes a packet of TFTP, the server may as well act later.
Server(k) ==
    /\ ret = "running" /\ udp_handler = "tftp"
    /\ (ServerResends(k) /\ UNCHANGED session) \/ ServerAborts(k)
    /\ UNCHANGED <<Outer, loop, place, net_ip, net_server_ethaddr, net_tx_packet, arp,
                   tftp, image, bootp, leased>>

RunTftpTimeout == TftpTimeout /\ UNCHANGED <<Outer, net_ip, bootp, leased>>
RunBootpTimeout == BootpTimeout /\ UNCHANGED Outer
RunStartAgainTimeout ==
    /\ StartAgainTimeout
    /\ UNCHANGED <<Quiet, session, ret, udp_handler, net_try_count, net_restarted,
                   net_dev_exists, net_restart_wrap, dev, first_failed, eth_active, wire>>
RunArpTimeout ==
    /\ ArpTimeout
    /\ UNCHANGED <<Outer, net_ip, net_server_ethaddr, net_tx_packet, arp_waiting, tftp,
                   image, session, bootp, leased, time_handler, udp_handler, net_try_count,
                   net_restart_wrap, dev, first_failed, eth_active>>

Timers == RunTftpTimeout \/ RunBootpTimeout \/ RunStartAgainTimeout \/ RunArpTimeout
LoopEnd == Start \/ EnterLoop \/ LoopRestart \/ LoopSuccess \/ LoopFail

Next ==
    \/ Command("TFTPGET", TRUE) \/ \E load \in BOOLEAN : Command("DHCP", load)
    \/ \E m \in wire : TftpReceive(m) \/ DhcpReceive(m) \/ Lose(m)
    \/ \E k \in Sessions : Server(k)
    \/ Timers \/ LoopEnd \/ CtrlC

Spec == Init /\ [][Next]_vars

\* net_loop() polls its timers in every iteration, and leaves an iteration
\* whatever the network does.
FairSpec == Spec /\ WF_vars(Timers) /\ WF_vars(LoopEnd)


\* net_loop() returns 0, which netboot_common() reports as success, in three
\* cases.  There was nothing to load: DHCP has bound an address and autoload is
\* off.  The file that was loaded is empty (or its empty last block came `late',
\* in place of block 1).  Or the transfer has failed, other than by a timeout of
\* the protocol, and net_start_again() has found an interface that starts but no
\* untried one: never when netretry allows one try.
ZeroMeansNothingToLoad ==
    ret = "zero" =>
        \/ net_state = "SUCCESS" /\ protocol = "DHCP" /\ ~autoload /\ net_ip \in DhcpServers
        \/ net_state = "SUCCESS" /\ (file = 0 \/ late)
        \/ net_state = "FAIL" /\ RetryCnt > 1

\* The address the board uses after DHCP is one that its server has leased to
\* it, although dhcp_handler() takes any late answer to one of its requests,
\* and any answer in state SELECTING for an offer.
BoundToLease == net_ip \in DhcpServers => net_ip \in leased

\* A command ends by itself: the retry counters of TFTP, DHCP, ARP and
\* net_start_again() run out, also when a timer of one protocol is held up
\* by an ARP request that is never answered.
LoopEnds == (ret = "running") ~> (ret # "running")
=============================================================================
