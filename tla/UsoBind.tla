------------------------------ MODULE UsoBind ------------------------------
(***************************************************************************)
(* The Windows client before its first batch: the choice of the local      *)
(* address and interface (resolve_uso_bind_address) and the set-up of the  *)
(* socket (create_uso_udp_socket, uso_socket_local_endpoint).              *)
(*                                                                         *)
(* The host is external: the unicast addresses of its adapters, in the     *)
(* order of GetAdaptersAddresses, each with its adapter's IfIndex and      *)
(* Ipv6IfIndex, and the interface that GetBestInterfaceEx names for an     *)
(* IPv4 address.                                                           *)
(***************************************************************************)
EXTENDS Naturals, Sequences, FiniteSetsExt

CONSTANTS
  Hosts,        \* hosts the client may run on
  Sources,      \* addresses of --source
  Destinations, \* addresses of --dest
  Unspecified,  \* 0.0.0.0, as which "*" and "0" are parsed too
  Loopback,     \* set of addresses
  IPv6          \* set of addresses

\* No interface has this index: of an adapter without IPv4 or without IPv6;
\* here also: GetBestInterfaceEx fails.
NoInterface == 0

ASSUME BindAssumption ==
  \A h \in Hosts :
    /\ Len(h.unicast) \in Nat /\ DOMAIN h.unicast = 1 .. Len(h.unicast)
    /\ \A k \in DOMAIN h.unicast :
         h.unicast[k].address \notin IPv6 => h.unicast[k].if_index # NoInterface
    /\ Destinations \ IPv6 \subseteq DOMAIN h.route

VARIABLES
  host, source, dest,
  pc,
  bind_info,      \* UsoBindInfo
  native_socket   \* "none", "open", "bound" or "closed"

setup_vars == <<host, source, dest, pc, bind_info, native_socket>>

BindInit ==
  /\ host \in Hosts /\ source \in Sources /\ dest \in Destinations
  /\ pc = "resolve"
  /\ bind_info = [bind_address |-> source, interface_index |-> NoInterface,
                  auto_selected |-> FALSE]
  /\ native_socket = "none"

-----------------------------------------------------------------------------
bind_option_is_wildcard == source = Unspecified

\* `IfIndex != if_index && Ipv6IfIndex != if_index` skips an adapter.
IndexMatches(k, if_index) ==
  if_index \in {host.unicast[k].if_index, host.unicast[k].ipv6_if_index}

\* An IPv4 address that the client may be bound to
Eligible(k) ==
  host.unicast[k].address \notin {Unspecified} \cup Loopback \cup IPv6

\* Mutant: an adapter that is down is taken too.
UsableOnDown(if_index) ==
  {k \in DOMAIN host.unicast : IndexMatches(k, if_index) /\ Eligible(k)}

\* The addresses ipv4_on_interface_index may take; it takes the first.
UsableOn(if_index) ==
  {k \in DOMAIN host.unicast :
     host.unicast[k].up /\ IndexMatches(k, if_index) /\ Eligible(k)}

ipv4_on_interface_index(if_index) ==
  host.unicast[Min(UsableOn(if_index))].address

ipv4_interface_index(address) ==
  IF address = Unspecified THEN NoInterface ELSE host.route[address]

\* ipv4_egress_for_destination finds an interface and an address on it.
HasEgress ==
  /\ dest \notin IPv6
  /\ host.route[dest] # NoInterface
  /\ UsableOn(host.route[dest]) # {}

\* Mutant: the interface of the route to --dest, whatever --source is.
interface_of_route ==
  IF HasEgress THEN host.route[dest] ELSE NoInterface

\* The interface of a given --source, else the one of the route to --dest.
interface_of_source ==
  IF source \notin IPv6 /\ ipv4_interface_index(source) # NoInterface
  THEN ipv4_interface_index(source)
  ELSE IF HasEgress THEN host.route[dest] ELSE NoInterface

resolve_uso_bind_address ==
  IF ~bind_option_is_wildcard
  THEN [bind_address |-> source, interface_index |-> interface_of_source,
        auto_selected |-> FALSE]
  ELSE IF HasEgress
  THEN [bind_address    |-> ipv4_on_interface_index(host.route[dest]),
        interface_index |-> host.route[dest],
        auto_selected   |-> TRUE]
  ELSE [bind_address |-> source, interface_index |-> NoInterface,
        auto_selected |-> FALSE]

-----------------------------------------------------------------------------
Resolve ==
  /\ pc = "resolve"
  /\ bind_info' = resolve_uso_bind_address
  /\ pc' = "create"
  /\ UNCHANGED <<host, source, dest, native_socket>>

\* WSASocket: an error leaves no socket.
CreateSocket ==
  /\ pc = "create"
  /\ \/ native_socket' = "open" /\ pc' = "reuse_addr"
     \/ native_socket' = "none" /\ pc' = "failed"
  /\ UNCHANGED <<host, source, dest, bind_info>>

\* bind(2), external: the address must be one of the host's.
Bindable ==
  \/ bind_info.bind_address = Unspecified
  \/ \E k \in DOMAIN host.unicast :
       host.unicast[k].address = bind_info.bind_address

\* Every error after that closes the socket before it is thrown.
CloseAndThrow ==
  /\ native_socket' = "closed"
  /\ pc' = "failed"
  /\ UNCHANGED <<host, source, dest, bind_info>>

GoesOn(label) ==
  /\ pc' = label
  /\ UNCHANGED <<host, source, dest, bind_info, native_socket>>

\* SO_REUSEADDR
SetReuseAddr == pc = "reuse_addr" /\ (GoesOn("send_buffer") \/ CloseAndThrow)

\* SO_SNDBUF
SetSendBuffer == pc = "send_buffer" /\ (GoesOn("bind") \/ CloseAndThrow)

\* Mutant: one of the errors is thrown without closesocket.
RefuseIPv6Open ==
  /\ pc = "bind"
  /\ bind_info.bind_address \in IPv6
  /\ GoesOn("failed")

RefuseIPv6 ==
  /\ pc = "bind"
  /\ bind_info.bind_address \in IPv6
  /\ CloseAndThrow

BindFails ==
  /\ pc = "bind"
  /\ bind_info.bind_address \notin IPv6
  /\ CloseAndThrow

BindSocket ==
  /\ pc = "bind"
  /\ bind_info.bind_address \notin IPv6
  /\ Bindable
  /\ native_socket' = "bound"
  /\ pc' = "name"
  /\ UNCHANGED <<host, source, dest, bind_info>>

\* getsockname: an error ends the client with the socket open.
NameSocket ==
  /\ pc = "name"
  /\ pc' \in {"build", "failed"}
  /\ UNCHANGED <<host, source, dest, bind_info, native_socket>>

SetUp ==
  \/ Resolve
  \/ CreateSocket \/ SetReuseAddr \/ SetSendBuffer
  \/ RefuseIPv6 \/ BindFails \/ BindSocket
  \/ NameSocket

-----------------------------------------------------------------------------
(***************************************************************************)
(* Properties                                                              *)
(***************************************************************************)

\* An index that GetBestInterfaceEx returns for an IPv4 address is not the IPv6
\* index of another adapter.
IndicesDistinct ==
  \A k \in DOMAIN host.unicast : \A address \in DOMAIN host.route :
    /\ host.route[address] # NoInterface
    /\ host.unicast[k].ipv6_if_index = host.route[address]
    => host.unicast[k].if_index = host.route[address]

\* uso_send.hpp:52: "When --source is 0.0.0.0, bind to the IPv4 on the
\* interface that routes to dest".  The client does so exactly when there is
\* such an address, and sends over that interface, where interfaces have
\* distinct indices (uso_send_win.cpp:185-267, 793-822).
RoutesToDest(k) ==
  /\ host.unicast[k].up
  /\ host.unicast[k].if_index = host.route[dest]
  /\ Eligible(k)

OnEgress ==
  IF \E k \in DOMAIN host.unicast : RoutesToDest(k)
  THEN /\ bind_info.auto_selected
       /\ bind_info.interface_index = host.route[dest]
       /\ \E k \in DOMAIN host.unicast :
            /\ RoutesToDest(k)
            /\ host.unicast[k].address = bind_info.bind_address
  ELSE bind_info.bind_address = Unspecified

ChoosesEgress == source = Unspecified /\ dest \notin IPv6 /\ pc # "resolve"

BoundToEgress == IndicesDistinct /\ ChoosesEgress => OnEgress

\* IP_PKTINFO never names an interface that does not have the address it
\* names, on a multi-homed host neither, when indices are distinct and the host
\* routes its own addresses to their interfaces (uso_send_win.cpp:476-489,
\* 800-821).
RoutesItself ==
  \A k \in DOMAIN host.unicast :
    host.unicast[k].address \notin IPv6 =>
      host.route[host.unicast[k].address] = host.unicast[k].if_index

PktinfoConsistent ==
  /\ native_socket = "bound" /\ IndicesDistinct /\ RoutesItself
  /\ bind_info.bind_address # Unspecified /\ bind_info.interface_index # NoInterface
  => \E k \in DOMAIN host.unicast :
       /\ host.unicast[k].address = bind_info.bind_address
       /\ host.unicast[k].if_index = bind_info.interface_index

\* create_uso_udp_socket either returns a bound socket or leaves none behind,
\* and a run that ends well has closed it (uso_send_win.cpp:684-749,
\* client.cpp:135).
SocketReleased ==
  /\ pc = "failed" => native_socket # "open"
  /\ pc = "finished" => native_socket = "closed"

=============================================================================
