------------------------------ MODULE IpAddress ------------------------------
(***************************************************************************)
(* potato/net/IpAddress.{h,cpp}: the socket address of a port on all        *)
(* interfaces or on the loopback one.  The address of an ipv6 one is the C  *)
(* library's constant; that of an ipv4 one lies in memory as the kernel     *)
(* reads it, most significant byte first, like the port.                    *)
(***************************************************************************)
EXTENDS Endian

\* 127.0.0.1 as an integer: 127 is half of a byte's values less one.
INADDR_LOOPBACK == (Radix \div 2 - 1) * Capacity(3) + 1
INADDR_ANY == 0

\* IpAddress(port, loopBack, ipv6): sin_family, sin_port and the address.
IpAddressOf(port, loopBack, ipv6, littleEndian) ==
  [family |-> IF ipv6 THEN "AF_INET6" ELSE "AF_INET",
   port   |-> HostToNetwork(port, 2, littleEndian),
   addr   |-> CASE ipv6 /\ loopBack -> "in6addr_loopback"
                [] ipv6 /\ ~loopBack -> "in6addr_any"
                [] ~ipv6 /\ loopBack ->
                     HostToNetwork(INADDR_LOOPBACK, 4, littleEndian)
                [] OTHER -> INADDR_ANY]

\* ipv6 and Port.
Ipv6(address) == address.family = "AF_INET6"
Port(address, littleEndian) == NetworkToHost(address.port, 2, littleEndian)
=============================================================================
