---------------------------- MODULE AddressRanges ----------------------------
(***************************************************************************)
(* IPRange, and the TCP listener that admits clients by it.  An address is  *)
(* a number of its family's width; a block of the configuration is an       *)
(* address, or a text that is none, with what stands behind the slash.      *)
(***************************************************************************)
EXTENDS Integers, Sequences, SequencesExt

CONSTANTS
  Width,    \* Width[f]: bits of an address of the family f; 32 and 128
  NoPrefix, \* the block has no slash
  NoNumber, \* a text that is no number stands behind it
  Loopback  \* 127.0.0.1

Families == DOMAIN Width
Addresses == UNION {[family : {f}, number : 0..(2^Width[f] - 1)] : f \in Families}

ASSUME AddressAssumption == Width \in [Families -> Nat] /\ Loopback \in Addresses

Thrown == [thrown |-> TRUE]

Bits(number, width) == {i \in 0..(width - 1) : (number \div (2^i)) % 2 = 1}

(* Mutant: the mask begins one bit too high.                                *)
MaskShort(width, size) == {i \in 0..(width - 1) : i > width - size}

(* The loop that sets the bits of the mask.                                 *)
Mask(width, size) == {i \in 0..(width - 1) : i >= width - size}

(* The constructors.                                                        *)
IPRange(family, number, size) ==
  LET width == Width[family]
  IN IF size \notin 0..width THEN Thrown
     ELSE [thrown |-> FALSE, family |-> family, mask |-> Mask(width, size),
           network |-> Bits(number, width) \cap Mask(width, size)]

RangeContains(range, peer) ==
  peer.family = range.family /\ Bits(peer.number, Width[peer.family]) \cap range.mask = range.network

(* atoi() gives 0 for what is no number.                                    *)
MaskSize(block) ==
  CASE block.prefix = NoPrefix -> Width[block.family]
    [] block.prefix = NoNumber -> 0
    [] OTHER -> block.prefix

ParseCIDRBlock(block) ==
  IF block.family \notin Families THEN Thrown
  ELSE IPRange(block.family, block.number, MaskSize(block))

(* Mutant: the first block that cannot be read ends the list.               *)
AclUpToBad(blocks) ==
  LET ranges == [i \in DOMAIN blocks |-> ParseCIDRBlock(blocks[i])]
      read == {ranges[i] : i \in {j \in DOMAIN ranges : \A k \in 1..j : ~ranges[k].thrown}}
  IN IF read = {} THEN {IPRange(Loopback.family, Loopback.number, Width[Loopback.family])} ELSE read

(* The constructor of TCPListener: blocks that cannot be read are skipped,  *)
(* and without any other the loopback address is admitted.                  *)
Acl(blocks) ==
  LET read == {r \in {ParseCIDRBlock(b) : b \in ToSet(blocks)} : ~r.thrown}
  IN IF read = {} THEN {IPRange(Loopback.family, Loopback.number, Width[Loopback.family])} ELSE read

(* accept(): a client that is not admitted is closed at once.               *)
Admits(acl, peer) == \E range \in acl : RangeContains(range, peer)

USHRT_MAX == 65535
UnsignedShort(i) == i % (USHRT_MAX + 1)

(* Mutant: the environment is not looked at for a port that wraps to 0.     *)
PortUnchecked(attribute, environment) ==
  IF attribute = 0 THEN (IF UnsignedShort(environment) = 0 THEN 1600 ELSE UnsignedShort(environment))
  ELSE UnsignedShort(attribute)

(* m_port, an unsigned short, from the attribute or SHIBSP_LISTENER_PORT.   *)
Port(attribute, environment) ==
  IF UnsignedShort(attribute) # 0 THEN UnsignedShort(attribute)
  ELSE IF UnsignedShort(environment) # 0 THEN UnsignedShort(environment)
  ELSE 1600

-----------------------------------------------------------------------------
(* The leading bits of an address, by division.                             *)
Leading(number, width, size) == number \div (2^(width - size))
Covers(block, peer) ==
  LET size == MaskSize(block)
  IN /\ block.family \in Families /\ peer.family = block.family
     /\ size \in 0..Width[block.family]
     /\ Leading(block.number, Width[peer.family], size) = Leading(peer.number, Width[peer.family], size)

(* A client is admitted exactly if a block that can be read names a prefix  *)
(* of its address, or there is no such block and it is the loopback address *)
(* (TCPListener.cpp:122-137, 280, IPRange.cpp:73-154): whatever stands      *)
(* beside it in the list, and whichever families the two are of.            *)
AdmitsTheListed(blocks, peer) ==
  LET readable == {b \in ToSet(blocks) : \E p \in [family : Families, number : {b.number}] : Covers(b, p)}
  IN Admits(Acl(blocks), peer) <=>
       IF readable = {} THEN peer = Loopback ELSE \E b \in readable : Covers(b, peer)

(* The port is one to which a socket can be bound, the configured one if it *)
(* is that (TCPListener.cpp:114-120).                                       *)
PortUsable(attribute, environment) ==
  /\ Port(attribute, environment) \in 1..USHRT_MAX
  /\ attribute \in 1..USHRT_MAX => Port(attribute, environment) = attribute
  /\ attribute = 0 /\ environment \in 1..USHRT_MAX => Port(attribute, environment) = environment
=============================================================================
