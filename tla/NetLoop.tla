------------------------------ MODULE NetLoop ------------------------------
(***************************************************************************)
(* The part of U-Boot's network stack that every protocol shares: the      *)
(* state of net_loop(), net_start_again() with the rotation of the         *)
(* interfaces, the timeout handler, and ARP.  The protocols are Tftp and   *)
(* Bootp; NetBoot puts them together.                                      *)
(*                                                                         *)
(* One iteration of the loop looks at the ARP timer, processes the packets *)
(* that have arrived, looks at the timeout, and then at `net_state'.  Time *)
(* is left out: a timer that is armed may expire.                          *)
(*                                                                         *)
(* The network and the servers are external.  `wire' holds the packets on  *)
(* their way to the board.  They arrive in any order or not at all.        *)
(***************************************************************************)
EXTENDS Naturals, FiniteSets, FiniteSetsExt

CONSTANTS
    MaxDev,             \* bound: the interfaces of a board
    RetryCnt,           \* the environment variable netretry, as a number
    ArpTimeoutCount,    \* ARP_TIMEOUT_COUNT
    MaxWire             \* bound: packets on their way at one time

ASSUME NetAssumption ==
    /\ MaxDev \in Nat \ {0} /\ RetryCnt \in Nat
    /\ ArpTimeoutCount \in Nat \ {0} /\ MaxWire \in Nat \ {0}

VARIABLES
    board,              \* [ndev, addressed]: the interfaces, and those whose
                        \*   hardware address is not zero
    protocol,           \* the argument of net_loop()
    autoload,           \* the environment variable, for DHCP
    file,               \* the length of the file, in half blocks
    ret,                \* what net_loop() returned, "running" before that
    net_state,
    place,              \* where net_loop() is: at "restart", in the "loop", at
                        \*   the "switch" behind the timeout handler; when
                        \*   net_check_prereq() gave 2, at the first "arp" check,
                        \*   and then in the one iteration that follows, "skip"
    time_handler,
    udp_handler,
    net_try_count,
    net_restarted,
    net_dev_exists,
    net_restart_wrap,
    dev,                \* the current interface
    first_failed,       \* eth_try_another()'s static, 0 when it is NULL
    eth_active,         \* the interface has not been halted
    net_ip,             \* our address; None is 0.0.0.0
    net_server_ethaddr, \* the server's hardware address is not zero
    net_tx_packet,      \* the packet in the one transmit buffer
    arp_waiting,        \* net_arp_wait_packet_ip is not zero
    arp_wait_try,
    wire

loop == <<net_state, time_handler, udp_handler, net_try_count,
          net_restart_wrap, dev, first_failed, eth_active>>
arp == <<arp_waiting, arp_wait_try>>
setting == <<board, protocol, autoload, file>>

None == "none"
Protocols == {"TFTPGET", "DHCP"}

(***************************************************************************)
(* The interfaces.  eth_set_current_to_next() rotates.  eth_init() rotates *)
(* on until an interface starts, after so many hops; a full turn means     *)
(* that none has started.  An interface may start one time and not         *)
(* another.                                                                *)
(***************************************************************************)
Rotate(d, n) == ((d - 1 + n) % board.ndev) + 1

Hops == 0 .. board.ndev
Started(hops) == hops < board.ndev

\* eth_try_another() wraps when it comes back to the first that failed.
WrapsBetween(d, n, first) == \E i \in 1 .. n : Rotate(d, i) = first

(***************************************************************************)
(* net_start_again(): what it makes of the loop, given the timeout handler *)
(* at the call.  When every interface has failed once, net_state stays as  *)
(* it is for the ten seconds until the restart, unless no protocol was     *)
(* ever started.                                                           *)
(***************************************************************************)
TriesLeft == net_try_count < RetryCnt

\* eth_try_another() and eth_init(), with each of its outcomes.
Rotations ==
    LET first == IF net_restarted THEN first_failed ELSE dev
        next  == Rotate(dev, 1)
    IN  {[first |-> first, dev |-> Rotate(next, hops), up |-> Started(hops),
          wrap  |-> net_restart_wrap \/ next = first \/ WrapsBetween(next, hops, first)] :
             hops \in Hops}

StateAfterRestart(r) ==
    CASE ~TriesLeft -> "FAIL"
      [] TriesLeft /\ ~r.wrap -> "RESTART"
      [] TriesLeft /\ r.wrap -> IF net_dev_exists THEN net_state ELSE "FAIL"

\* The interfaces, and the packets on their way to one that is now halted.
RestartEth(r, rest) ==
    IF TriesLeft
      THEN /\ net_try_count' = net_try_count + 1
           /\ first_failed' = r.first /\ dev' = r.dev /\ eth_active' = r.up
           /\ net_restart_wrap' = FALSE
           /\ wire' = IF r.dev = dev THEN rest ELSE {}
      ELSE /\ eth_active' = FALSE /\ wire' = rest
           /\ UNCHANGED <<net_try_count, first_failed, dev, net_restart_wrap>>

NetStartAgain(pending, rest) ==
    \E r \in Rotations :
        /\ RestartEth(r, rest)
        /\ net_state' = StateAfterRestart(r)
        /\ IF TriesLeft /\ r.wrap /\ net_dev_exists
             THEN time_handler' = "start_again" /\ udp_handler' = None
             ELSE time_handler' = pending /\ UNCHANGED udp_handler

(***************************************************************************)
(* ARP.  An answer is addressed to the address that asked.                 *)
(***************************************************************************)
ArpReply(ip) == [type |-> "ARP", ip |-> ip]

Fits(packets) == Cardinality(packets) <= MaxWire

\* arp_request() from address ip: it is lost, or an answer is on its way.
ArpRequest(ip, rest) ==
    \/ wire' = rest
    \/ /\ eth_active /\ Fits(rest \cup {ArpReply(ip)})
       /\ wire' = rest \cup {ArpReply(ip)}

\* net_send_udp_packet() when the hardware address is still zero: the packet
\* waits in the transmit buffer.
SendAfterArp(packet, ip, rest) ==
    /\ net_tx_packet' = packet
    /\ arp_waiting' = TRUE /\ arp_wait_try' = 1
    /\ ArpRequest(ip, rest)

\* Mutant for LoopEnds: the tries are not counted.
ArpTries_Stuck == arp_wait_try

ArpTries == arp_wait_try + 1

\* net_check_prereq() may already have asked to leave the loop.
AfterArpCheck == place' = IF net_state = "CONTINUE" THEN "loop" ELSE "skip"

\* An iteration begins with arp_timeout_check(), while nothing has yet asked
\* to leave the loop, but for net_check_prereq().  Giving up does not end the
\* wait.
ArpTimeout ==
    /\ ret = "running" /\ arp_waiting
    /\ place = "arp" \/ (place = "loop" /\ net_state = "CONTINUE")
    /\ IF ArpTries >= ArpTimeoutCount
         THEN /\ arp_wait_try' = 0 /\ net_state' = "FAIL"
              /\ UNCHANGED wire
         ELSE /\ arp_wait_try' = ArpTries
              /\ ArpRequest(net_ip, wire)
              /\ UNCHANGED net_state
    /\ AfterArpCheck

(***************************************************************************)
(* Guards of an iteration.  eth_rx() takes no packet from an interface     *)
(* that is halted or about to be restarted; nothing is addressed to the    *)
(* next one before it has sent a packet.  While an ARP answer is awaited   *)
(* net_loop() restarts the protocol's timer in every iteration.  Only one  *)
(* handler is run per iteration.                                           *)
(***************************************************************************)
InLoop == place \in {"loop", "skip"}

Receives(m) ==
    /\ ret = "running" /\ place = "loop" /\ eth_active /\ net_state # "RESTART"
    /\ m \in wire

Expires(handler) ==
    /\ ret = "running" /\ InLoop /\ time_handler = handler /\ ~arp_waiting
    /\ net_state # "SUCCESS"

\* The timeout is the last thing an iteration looks at before net_state.
LastInIteration == place' = IF net_state' = "CONTINUE" THEN "loop" ELSE "switch"

\* start_again_timeout_handler()
StartAgainTimeout ==
    /\ Expires("start_again")
    /\ time_handler' = None /\ net_state' = "RESTART"
    /\ LastInIteration

\* net_cleanup_loop()
NetCleanup == time_handler' = None /\ udp_handler' = None
=============================================================================
