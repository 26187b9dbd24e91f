------------------------------ MODULE HeaderCodec ------------------------------
(***************************************************************************)
(* The CONNECT header byte for byte: what the client encodes, and what the *)
(* exit node makes of it while it arrives in pieces of any size.  Tunnel   *)
(* takes from here that a header's parts can be told apart.                *)
(*                                                                         *)
(*    version | timestamp (LE) | atyp | [length] address | port (BE) | MAC *)
(*                                                                         *)
(* The lengths of the fields are constants, so that a small instance has   *)
(* every case of the real one.  A byte of a MAC names what it was computed *)
(* from, which is all a MAC promises.                                      *)
(***************************************************************************)
EXTENDS Bytes

CONSTANTS
  TsLen,         \* bytes of the timestamp: 8
  V4Len, V6Len,  \* bytes of the addresses: 4 and 16
  PortLen,       \* bytes of the port: 2
  MacLen,        \* bytes of the MAC: 32
  MaxDomainLen,  \* 253
  MaxHeader,     \* the exit node's limit on what it buffers: 512
  MaxSkew,       \* its max_skew
  Utf8,          \* the byte strings that are UTF-8
  Targets,       \* the destinations asked for: [atyp, addr, port]
  Stamps,        \* the timestamps and the exit node's clock readings
  Payloads       \* what may follow the header at once

Version == 1
AtypV4 == 1
AtypDomain == 3
AtypV6 == 4
FixedLen == 1 + TsLen + 1
MaxHeaderLen == FixedLen + 1 + MaxDomainLen + PortLen + MacLen

(* The longest header fits the buffer (the comment of MAX_HEADER), and a   *)
(* length byte can tell a domain that is too long.  What is asked for has  *)
(* the types of the code, u64, u16 and String, and a domain comes from     *)
(* SOCKS5, whose length is one byte.                                       *)
ASSUME HeaderAssumption ==
  /\ {TsLen, V4Len, V6Len, PortLen, MacLen, Base} \subseteq Nat \ {0}
  /\ MaxDomainLen \in Nat /\ MaxDomainLen < Base /\ MaxSkew \in Nat
  /\ V4Len <= MaxDomainLen /\ V6Len <= MaxDomainLen
  /\ MaxHeader \in Nat /\ MaxHeaderLen <= MaxHeader
  /\ Stamps \subseteq 0..Power[TsLen] - 1
  /\ \A target \in Targets :
       /\ target \in [atyp : {AtypV4, AtypDomain, AtypV6}, addr : Seq({ Byte(b) : b \in 0..Base - 1 }),
                      port : 0..Power[PortLen] - 1]
       /\ target.atyp = AtypV4 => Len(target.addr) = V4Len
       /\ target.atyp = AtypV6 => Len(target.addr) = V6Len
       /\ target.atyp = AtypDomain => Len(target.addr) < Base /\ target.addr \in Utf8
  /\ Payloads \subseteq Seq({ Byte(b) : b \in 0..Base - 1 })

VARIABLES
  sent,      \* what the client put on the wire, NotSent before
  wire,      \* the bytes the exit node has not read
  buffer,    \* its buf
  outcome,   \* its last parse: [err, ...], or why it hung up
  clock      \* its clock at that parse

headerVars == <<sent, wire, buffer, outcome, clock>>

NotSent == <<>>

HeaderInit ==
  /\ sent = NotSent
  /\ wire = <<>>
  /\ buffer = <<>>
  /\ outcome = [err |-> "idle"]
  /\ clock = 0

-----------------------------------------------------------------------------
(* Encoding.                                                               *)

EncodeAddr(target) ==
  <<Byte(target.atyp)>>
    \o (IF target.atyp = AtypDomain THEN <<Byte(Len(target.addr) % Base)>> ELSE <<>>)
    \o target.addr \o BE(target.port, PortLen)

Mac(key, preceding) == [i \in 1..MacLen |-> <<"mac", key, preceding, i>>]

EncodeRequest(version, key, timestamp, target) ==
  LET signed == <<Byte(version)>> \o LE(timestamp, TsLen) \o EncodeAddr(target)
  IN  signed \o Mac(key, signed)

-----------------------------------------------------------------------------
(* Parsing.                                                                *)

Truncated(n) == [err |-> "truncated", needed |-> n]
Refused(why) == [err |-> why]

(* Faulty: the port is read in the timestamp's byte order.                 *)
PortOfLE(bytes) == FromLE(bytes)

PortOf(bytes) == FromBE(bytes)

(* An address of len bytes from `from` on, once they are there.            *)
Address(buf, atyp, from, len) ==
  IF Len(buf) < from + len - 1 THEN Truncated(from + len - 1 - Len(buf))
  ELSE LET addr == SubSeq(buf, from, from + len - 1)
       IN  IF atyp = AtypDomain /\ addr \notin Utf8 THEN Refused("badDomain")
           ELSE [err |-> "none", addr |-> addr, next |-> from + len]

(* Faulty: the longest domain is refused.                                  *)
ParseDomainExclusive(buf) ==
  IF Len(buf) <= FixedLen THEN Truncated(1)
  ELSE LET len == buf[FixedLen + 1][1]
       IN  IF len >= MaxDomainLen THEN Refused("domainTooLong")
           ELSE Address(buf, AtypDomain, FixedLen + 2, len)

ParseDomain(buf) ==
  IF Len(buf) <= FixedLen THEN Truncated(1)
  ELSE LET len == buf[FixedLen + 1][1]
       IN  IF len > MaxDomainLen THEN Refused("domainTooLong")
           ELSE Address(buf, AtypDomain, FixedLen + 2, len)

ParseHost(buf) ==
  LET atyp == buf[FixedLen][1]
  IN  CASE atyp = AtypV4 -> Address(buf, AtypV4, FixedLen + 1, V4Len)
        [] atyp = AtypV6 -> Address(buf, AtypV6, FixedLen + 1, V6Len)
        [] atyp = AtypDomain -> ParseDomain(buf)
        [] OTHER -> Refused("badAtyp")

Fresh(timestamp, now) == now - timestamp \in -MaxSkew..MaxSkew

(* Faulty: the MAC's end is counted from one byte too far.                *)
TailNeededOneMore(buf, next) == next + PortLen + MacLen

(* How long the buffer must be for port and MAC to be there.               *)
TailNeeded(buf, next) ==
  IF Len(buf) < next + PortLen - 1 THEN next + PortLen - 1 ELSE next + PortLen + MacLen - 1

(* Port, MAC and freshness, once the host is known and ends before `next`. *)
ParseTail(buf, key, now, host) ==
  LET next == host.next
      needed == TailNeeded(buf, next)
      end == next + PortLen
      signed == SubSeq(buf, 1, end - 1)
      timestamp == FromLE(SubSeq(buf, 2, 1 + TsLen))
  IN  IF Len(buf) < needed THEN Truncated(needed - Len(buf))
      ELSE IF SubSeq(buf, end, end + MacLen - 1) # Mac(key, signed) THEN Refused("badMac")
      ELSE IF ~Fresh(timestamp, now) THEN Refused("stale")
      ELSE [err |-> "none",
            target |-> [atyp |-> buf[FixedLen][1], addr |-> host.addr,
                        port |-> PortOf(SubSeq(buf, next, end - 1))],
            timestamp |-> timestamp,
            consumed |-> end + MacLen - 1]

ParseRequest(buf, key, now) ==
  IF Len(buf) < FixedLen THEN Truncated(FixedLen - Len(buf))
  ELSE IF buf[1] # Byte(Version) THEN Refused("badVersion")
  ELSE LET host == ParseHost(buf)
       IN  IF host.err = "none" THEN ParseTail(buf, key, now, host) ELSE host

-----------------------------------------------------------------------------
(* Client and exit node.                                                   *)

(* One connection; then the next one, on a stream of its own.              *)
SendRequest ==
  /\ outcome.err \notin {"reading", "truncated"}
  /\ \E version \in {Version, Version + 1}, key \in {"secret", "other"},
        stamp \in Stamps, target \in Targets, payload \in Payloads :
       LET header == EncodeRequest(version, key, stamp, target)
       IN  /\ sent' = <<[version |-> version, key |-> key, stamp |-> stamp,
                         target |-> target, payload |-> payload, len |-> Len(header)]>>
           /\ wire' = header \o payload
  /\ buffer' = <<>>
  /\ outcome' = [err |-> "reading"]
  /\ clock' = 0

(* One turn of the loop: a read returns some of what is there, at most     *)
(* MaxHeader bytes, and everything read so far is parsed.                  *)
ReadBytes ==
  /\ outcome.err \in {"reading", "truncated"}
  /\ IF Len(buffer) >= MaxHeader
     THEN /\ outcome' = Refused("headerTooLong")
          /\ UNCHANGED <<wire, buffer, clock>>
     ELSE \E n \in 1..(IF Len(wire) < MaxHeader THEN Len(wire) ELSE MaxHeader), now \in Stamps :
            /\ buffer' = buffer \o SubSeq(wire, 1, n)
            /\ wire' = SubSeq(wire, n + 1, Len(wire))
            /\ outcome' = ParseRequest(buffer', "secret", now)
            /\ clock' = now
  /\ UNCHANGED sent

(* The connection ends before the header does.                             *)
ConnectionLost ==
  /\ outcome.err \in {"reading", "truncated"}
  /\ outcome' = Refused("closed")
  /\ UNCHANGED <<sent, wire, buffer, clock>>

HeaderNext == SendRequest \/ ReadBytes \/ ConnectionLost

HeaderSpec == HeaderInit /\ [][HeaderNext]_headerVars

-----------------------------------------------------------------------------
(* Properties.                                                             *)

(* The parser never asks for a byte the header does not have: a client     *)
(* that waits for its reply after the header does not wait for a server    *)
(* that waits for more of it.                                              *)
AsksForWhatIsMissing ==
  outcome.err = "truncated" =>
    outcome.needed \in 1..(sent[1].len - Len(buffer))

(* What is accepted is what was sent, with the secret and within the skew  *)
(* of the clock at the read that completed it; what was read past the      *)
(* header is the beginning of the payload and nothing else.                *)
AcceptsWhatWasSent ==
  outcome.err = "none" =>
    /\ sent[1].key = "secret" /\ sent[1].version = Version
    /\ outcome.target = sent[1].target
    /\ outcome.timestamp = sent[1].stamp
    /\ clock <= outcome.timestamp + MaxSkew /\ outcome.timestamp <= clock + MaxSkew
    /\ SubSeq(buffer, outcome.consumed + 1, Len(buffer)) \o wire = sent[1].payload

(* Each refusal has its cause, and none has to do with how the bytes were  *)
(* cut up: another version, a domain too long, another secret, a clock;    *)
(* and no header is too long for the buffer.                               *)
RefusalHasItsCause ==
  CASE outcome.err = "badVersion" -> sent[1].version # Version
    [] outcome.err = "domainTooLong" ->
         sent[1].target.atyp = AtypDomain /\ Len(sent[1].target.addr) > MaxDomainLen
    [] outcome.err = "badMac" -> sent[1].key # "secret"
    [] outcome.err = "stale" ->
         /\ sent[1].key = "secret"
         /\ clock > sent[1].stamp + MaxSkew \/ sent[1].stamp > clock + MaxSkew
    [] outcome.err \in {"badAtyp", "badDomain", "headerTooLong"} -> FALSE
    [] OTHER -> TRUE
=============================================================================
