-------------------------------- MODULE Inet --------------------------------
(***************************************************************************)
(* netpoll/net/inet_address.{h,cc}: the constructors, the port in network  *)
(* byte order, and isIntranetIp and isLoopbackIp for the two families.  A  *)
(* 32-bit word is kept as the pair of its 16-bit halves, because TLC's     *)
(* integers have 32 bits with a sign; an address is the four words of      *)
(* sin6_addr, in host order, of which IPv4 uses the first.                 *)
(***************************************************************************)
EXTENDS Integers, Sequences

CONSTANTS Halves,    \* bound: the 16-bit halves that addresses are built from
          Ports      \* bound: ports

VARIABLE ep          \* the InetAddress

Word == Halves \X Halves
Zero == <<0, 0>>

(* The sockaddr: what family says, not m_isIpv6, tells the union's members apart. *)
Endpoint(v6, words, port, unspecified) ==
  [family |-> IF v6 THEN "AF_INET6" ELSE "AF_INET", m_isIpv6 |-> v6,
   ip |-> words, sin_port |-> port, m_isUnspecified |-> unspecified]

htons(p) == (p % 256) * 256 + p \div 256
ntohs(p) == htons(p)

kInaddrLoopback == <<32512, 1>>      \* 0x7f000001

(* InetAddress(port, loopbackOnly, ipv6) *)
FromPort(port, loopbackOnly, ipv6) ==
  Endpoint(ipv6,
           CASE ipv6  -> <<Zero, Zero, Zero, IF loopbackOnly THEN <<0, 1>> ELSE Zero>>
             [] ~ipv6 -> <<IF loopbackOnly THEN kInaddrLoopback ELSE Zero, Zero, Zero, Zero>>,
           htons(port), FALSE)

(* InetAddress(ip, port, ipv6): a text inet_pton refuses leaves the zeroed *)
(* sockaddr, with its port, and m_isUnspecified.                           *)
FromText(words, valid, port, ipv6) ==
  IF valid THEN Endpoint(ipv6, words, htons(port), FALSE)
           ELSE Endpoint(ipv6, <<Zero, Zero, Zero, Zero>>, htons(port), TRUE)

(* setSockAddrInet6, with the sockaddr that accept or getpeername filled in, *)
(* and the constructors from a sockaddr.                                     *)
setSockAddrInet6(v6, words, netPort) == Endpoint(v6, words, netPort, FALSE)

toPort(e) == ntohs(e.sin_port)
-----------------------------------------------------------------------------
(* a <= b as unsigned 32-bit numbers *)
LE(a, b) == a[1] < b[1] \/ (a[1] = b[1] /\ a[2] <= b[2])
Between(w, lo, hi) == LE(lo, w) /\ LE(w, hi)

(* Mutant: 172.16.0.0/12 is taken for a /16. *)
PrivateV4Short(w) ==
  \/ Between(w, <<2560, 0>>, <<2815, 65535>>)
  \/ Between(w, <<44048, 0>>, <<44048, 65535>>)
  \/ Between(w, <<49320, 0>>, <<49320, 65535>>)
  \/ w = kInaddrLoopback

(* The ranges 0x0A000000.., 0xAC100000.., 0xC0A80000.. and 0x7f000001 *)
PrivateV4(w) ==
  \/ Between(w, <<2560, 0>>, <<2815, 65535>>)
  \/ Between(w, <<44048, 0>>, <<44063, 65535>>)
  \/ Between(w, <<49320, 0>>, <<49320, 65535>>)
  \/ w = kInaddrLoopback

(* & 0xffc00000 keeps the upper ten bits. *)
Top10(w) == (w[1] \div 64) * 64

V6Loopback(ip) == ip[1] = Zero /\ ip[2] = Zero /\ ip[3] = Zero /\ ip[4] = <<0, 1>>
V4Mapped(ip)   == ip[1] = Zero /\ ip[2] = Zero /\ ip[3] = <<0, 65535>>

isIntranetIp(e) ==
  IF e.family = "AF_INET" THEN PrivateV4(e.ip[1])
  ELSE \/ V6Loopback(e.ip)
       \/ Top10(e.ip[1]) \in {65216, 65152}          \* fec0, fe80
       \/ V4Mapped(e.ip) /\ PrivateV4(e.ip[4])

isLoopbackIp(e) ==
  IF ~e.m_isIpv6 THEN e.ip[1] = kInaddrLoopback
  ELSE V6Loopback(e.ip) \/ (V4Mapped(e.ip) /\ e.ip[4] = kInaddrLoopback)
-----------------------------------------------------------------------------
V4Words == {<<w, Zero, Zero, Zero>> : w \in Word}
V6Words == {<<w, Zero, Zero, Zero>> : w \in Word}
           \cup {<<Zero, Zero, x, w>> : x \in {Zero, <<0, 65535>>, <<0, 1>>}, w \in Word}
Texts(v6) == IF v6 THEN V6Words ELSE V4Words

InetInit ==
  \E port \in Ports, v6 \in BOOLEAN :
    \/ \E b \in BOOLEAN : ep = FromPort(port, b, v6)
    \/ \E words \in Texts(v6), valid \in BOOLEAN :
         ep = FromText(words, valid, port, v6)

(* accept() reads the peer's address into a default InetAddress. *)
Accepted ==
  /\ ep = FromPort(0, FALSE, FALSE)
  /\ \E port \in Ports, v6 \in BOOLEAN : \E words \in Texts(v6) :
       ep' = setSockAddrInet6(v6, words, htons(port))

InetNext == Accepted

(* The classification in terms of the octets of RFC 1918 and RFC 4291. *)
Octets(w) == <<w[1] \div 256, w[1] % 256, w[2] \div 256, w[2] % 256>>
ReservedV4(w) ==
  LET o == Octets(w)
  IN  \/ o[1] = 10
      \/ o[1] = 172 /\ o[2] \in 16 .. 31
      \/ o[1] = 192 /\ o[2] = 168
      \/ o = <<127, 0, 0, 1>>

(* The range comparisons and masks of isIntranetIp agree with the octets of *)
(* the private prefixes for both families, an IPv4-mapped address is judged *)
(* as the IPv4 address it carries, a loopback address is an intranet one,   *)
(* and an address that was refused is unspecified, not intranet, and keeps  *)
(* its port.                                                                *)
InetLaws ==
  /\ isLoopbackIp(ep) => isIntranetIp(ep)
  /\ ep.family = "AF_INET" => (isIntranetIp(ep) <=> ReservedV4(ep.ip[1]))
  /\ ep.family = "AF_INET6" =>
       (isIntranetIp(ep) <=>
          \/ V6Loopback(ep.ip)
          \/ V4Mapped(ep.ip) /\ ReservedV4(ep.ip[4])
          \/ LET o == Octets(ep.ip[1]) IN o[1] = 254 /\ o[2] \in 128 .. 255)
  /\ ep.m_isUnspecified => ~isIntranetIp(ep)
  /\ toPort(ep) \in Ports
=============================================================================
