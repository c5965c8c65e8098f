------------------------------- MODULE Bootp -------------------------------
(***************************************************************************)
(* The DHCP client (net/bootp.c built with CONFIG_CMD_DHCP) and, external, *)
(* the DHCP servers.  A server stands for the one address it leases.       *)
(*                                                                         *)
(* A request is identified by a number derived from the time, so that no   *)
(* two are equal.  The model counts the requests since bootp_reset(); the  *)
(* answers to earlier ones match no identifier any more and are dropped.   *)
(***************************************************************************)
EXTENDS Tftp

CONSTANTS
    DhcpServers,
    IdCacheSize,        \* CONFIG_BOOTP_ID_CACHE_SIZE
    IdWords,            \* sizeof(ulong) / sizeof(u32)
    MaxBootpTry         \* requests sent before time_taken_max has passed

ASSUME BootpAssumption ==
    /\ None \notin DhcpServers
    /\ IdCacheSize \in Nat /\ IdWords \in {1, 2} /\ IdWords <= IdCacheSize
    /\ MaxBootpTry \in Nat \ {0}

VARIABLES
    dhcp_state,
    bootp_ids,
    bootp_num_ids,
    bootp_try,
    leased              \* external: the servers that have leased their address

bootp == <<dhcp_state, bootp_ids, bootp_num_ids, bootp_try>>

DhcpTypes == {"OFFER", "ACK", "NAK"}
DhcpMessage(type, id, server) == [type |-> type, id |-> id, server |-> server]

NoIds == [i \in 0 .. IdCacheSize - 1 |-> 0]

\* bootp_add_id().  In a full cache memmove() leaves out sizeof(id) bytes, and
\* an id is a ulong here but a u32 in the array.
AddId(ids, num, id) ==
    [i \in 0 .. IdCacheSize - 1 |->
        IF i = Min({num, IdCacheSize - 1}) THEN id
        ELSE IF num >= IdCacheSize /\ i < IdCacheSize - IdWords THEN ids[i + 1]
        ELSE ids[i]]

\* bootp_match_id()
Matches(id) == \E i \in 0 .. bootp_num_ids - 1 : bootp_ids[i] = id

NotDhcp(packets) == {m \in packets : m.type \notin DhcpTypes}

\* A broadcast DHCPDISCOVER: each server may make an offer.
Discover(id, rest) ==
    \E answers \in SUBSET {DhcpMessage("OFFER", id, s) : s \in DhcpServers} :
        /\ answers # {} => eth_active
        /\ Fits(rest \cup answers) /\ wire' = rest \cup answers

\* A DHCPREQUEST to server s: it is lost, accepted or refused.
RequestAddress(id, s, rest) ==
    \/ wire' = rest /\ UNCHANGED leased
    \/ /\ eth_active /\ Fits(rest \cup {DhcpMessage("ACK", id, s)})
       /\ wire' = rest \cup {DhcpMessage("ACK", id, s)}
       /\ leased' = leased \cup {s}
    \/ /\ eth_active /\ Fits(rest \cup {DhcpMessage("NAK", id, s)})
       /\ wire' = rest \cup {DhcpMessage("NAK", id, s)}
       /\ UNCHANGED leased

\* bootp_request(), with the cache as it was at the call.
BootpRequest(ids, num, try, rest) ==
    /\ bootp_try' = try + 1
    /\ bootp_ids' = AddId(ids, num, try + 1)
    /\ bootp_num_ids' = Min({num + 1, IdCacheSize})
    /\ dhcp_state' = "SELECTING"
    /\ time_handler' = "bootp" /\ udp_handler' = "dhcp"
    /\ net_tx_packet' = [op |-> "DHCP"]
    /\ Discover(try + 1, rest)

\* bootp_reset() and dhcp_request(), from net_loop().  The identifiers and
\* leases of an earlier round are of no use to anyone.
DhcpStart(rest) ==
    /\ net_ip' = None
    /\ BootpRequest(NoIds, 0, 0, NotDhcp(rest))
    /\ leased' = {}

BootpTimeout ==
    /\ Expires("bootp")
    /\ IF bootp_try >= MaxBootpTry
         THEN /\ NetStartAgain(None, wire)
              /\ UNCHANGED <<bootp, net_tx_packet>>
         ELSE /\ BootpRequest(bootp_ids, bootp_num_ids, bootp_try, wire)
              /\ UNCHANGED <<net_state, net_try_count, net_restart_wrap, dev,
                             first_failed, eth_active>>
    /\ LastInIteration
    /\ UNCHANGED <<tftp, image, session, arp, net_server_ethaddr, net_ip, leased>>

(***************************************************************************)
(* dhcp_handler().  A NAK carries no address and is dropped at once.       *)
(***************************************************************************)
DhcpReceives(m) ==
    /\ Receives(m) /\ udp_handler = "dhcp" /\ m.type \in {"OFFER", "ACK"}
    /\ Matches(m.id)

\* Whatever comes first is taken for an offer.
DhcpSelect(m) ==
    /\ DhcpReceives(m) /\ dhcp_state = "SELECTING"
    /\ dhcp_state' = "REQUESTING" /\ time_handler' = "bootp"
    /\ net_tx_packet' = [op |-> "DHCP"]
    /\ RequestAddress(m.id, m.server, wire \ {m})
    /\ UNCHANGED <<net_state, udp_handler, net_try_count, net_restart_wrap, dev,
                   first_failed, eth_active, bootp_ids, bootp_num_ids, bootp_try,
                   tftp, image, session, arp, net_server_ethaddr, net_ip, place>>

\* Mutant for BoundToLease: dhcp_message_type() is not looked at.
IsAck_Any(m) == TRUE

IsAck(m) == m.type = "ACK"

\* store_net_params() and net_auto_load().  Bound, the client does not look at
\* its requests or their answers again before bootp_reset(), nor are the leases
\* of other servers of interest; they are forgotten here.
DhcpBind(m) ==
    /\ DhcpReceives(m) /\ dhcp_state = "REQUESTING" /\ IsAck(m)
    /\ dhcp_state' = "BOUND" /\ net_ip' = m.server
    /\ bootp_ids' = NoIds /\ bootp_num_ids' = 0 /\ bootp_try' = 0
    /\ leased' = leased \cap {m.server}
    /\ IF autoload
         THEN /\ TftpStart(m.server, NotDhcp(wire))
              /\ UNCHANGED net_state
         ELSE /\ net_state' = "SUCCESS" /\ net_server_ethaddr' = TRUE
              /\ time_handler' = None /\ wire' = NotDhcp(wire)
              /\ UNCHANGED <<tftp, session, arp, net_tx_packet, udp_handler>>
    /\ UNCHANGED <<net_try_count, net_restart_wrap, dev, first_failed, eth_active,
                   image, place>>
=============================================================================
