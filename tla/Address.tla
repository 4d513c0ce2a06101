------------------------------ MODULE Address ------------------------------
(***************************************************************************)
(* Addresses (address.go): a header byte, whose high four bits say what    *)
(* the address is made of and whose low four bits say which network it is  *)
(* for, and a hash.  Bech32 is external: a string is a prefix and the      *)
(* bytes.  SetType and SetNetwork go through an array of the eight bits.   *)
(***************************************************************************)
EXTENDS Naturals, Sequences, Functions

CONSTANTS
    Key,       \* public keys
    NoAddress  \* no address

(* The bits of a byte, most significant first, and what each is worth. *)
BitValue == <<128, 64, 32, 16, 8, 4, 2, 1>>
ToBytes(header) == [i \in 1..8 |-> (header \div BitValue[i]) % 2]

FromBytes(bits) ==
    128 * bits[1] + 64 * bits[2] + 32 * bits[3] + 16 * bits[4]
      + 8 * bits[5] + 4 * bits[6] + 2 * bits[7] + bits[8]

(* AddressTypeMap: the type bits of each of the ten types, from 0. *)
AddressType == 0..9
AddressTypeMap ==
    <<<<0, 0, 0, 0>>, <<0, 0, 0, 1>>, <<0, 0, 1, 0>>, <<0, 0, 1, 1>>, <<0, 1, 0, 0>>,
      <<0, 1, 0, 1>>, <<0, 1, 1, 0>>, <<0, 1, 1, 1>>, <<1, 1, 1, 0>>, <<1, 1, 1, 1>>>>
AddressHeaderType(typ) == AddressTypeMap[typ + 1]
HeaderNetworks == [Testnet |-> <<0, 0, 0, 0>>, Mainnet |-> <<0, 0, 0, 1>>]

SetType(header, typ) == FromBytes(AddressHeaderType(typ) \o SubSeq(ToBytes(header), 5, 8))
SetNetwork(header, net) == FromBytes(SubSeq(ToBytes(header), 1, 4) \o HeaderNetworks[net])

(* The types and networks whose bits the header has. *)
TypesOf(header) == {t \in AddressType : SubSeq(ToBytes(header), 1, 4) = AddressHeaderType(t)}
NetworksOf(header) == {n \in DOMAIN HeaderNetworks : SubSeq(ToBytes(header), 5, 8) = HeaderNetworks[n]}

(* Network parameters *)
Network == {"mainnet", "preprod", "privnet"}
AddressPrefix == [mainnet |-> "addr", preprod |-> "addr", privnet |-> "addr_test"]
DelegationPrefix == [mainnet |-> "stake", preprod |-> "stake", privnet |-> "stake_test"]

HeaderNetwork(net) == IF net = "mainnet" THEN "Mainnet" ELSE "Testnet"

IsForNetwork(header, net) == NetworksOf(header) = {HeaderNetwork(net)}

EncodeAddress(key, net, typ) ==
    [header |-> SetNetwork(SetType(0, typ), HeaderNetwork(net)), hash |-> key]

Bech32String(addr, net) == [prefix |-> AddressPrefix[net], addr |-> addr]

(* Faulty variant: the prefix is not looked at. *)
AcceptsAny(string, net) == TypesOf(string.addr.header) # {}

(* ParseBech32String: whether a string passes for an address of a network. *)
Accepts(string, net) ==
    /\ TypesOf(string.addr.header) # {}
    /\ string.prefix \in {AddressPrefix[net], DelegationPrefix[net]}

-----------------------------------------------------------------------------
VARIABLES
    string,    \* an address that was encoded for a network and written out
    encodedBy, \* history: the key, network and type it was encoded from
    parsed     \* the address read back, on any network

addressVars == <<string, encodedBy, parsed>>

AddressInit == string = NoAddress /\ encodedBy = NoAddress /\ parsed = NoAddress

(* postPubkeyToAddress and addr_build: the public key becomes an address   *)
(* of the network, as a string.                                            *)
PubkeyToAddress(key, net, typ) ==
    /\ string' = Bech32String(EncodeAddress(key, net, typ), net)
    /\ encodedBy' = [key |-> key, net |-> net, typ |-> typ]
    /\ parsed' = NoAddress

(* DecodeAddress, as getUtxoForAddress calls it. *)
DecodeAddress(net) ==
    /\ string # NoAddress
    /\ Accepts(string, net)
    /\ parsed' = [net |-> net, addr |-> string.addr]
    /\ UNCHANGED <<string, encodedBy>>

AddressNext ==
    \/ \E key \in Key, net \in Network, typ \in AddressType : PubkeyToAddress(key, net, typ)
    \/ \E net \in Network : DecodeAddress(net)

AddressSpec == AddressInit /\ [][AddressNext]_addressVars

-----------------------------------------------------------------------------
(* Properties *)

(* An address that was written for a network and read back has its type    *)
(* and key.  Read back on a network other than its own it is refused, or   *)
(* its header tells (IsForNetwork), except between preprod and privnet,    *)
(* whose headers are alike and whose prefixes are not.                     *)
AddressRoundTrip ==
    parsed # NoAddress =>
        /\ parsed.addr.hash = encodedBy.key
        /\ TypesOf(parsed.addr.header) = {encodedBy.typ}
        /\ IsForNetwork(parsed.addr.header, parsed.net) <=> parsed.net = encodedBy.net
=============================================================================
