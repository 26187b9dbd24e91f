------------------------------ MODULE RealityAuth ------------------------------
(***************************************************************************)
(* reality-tls: a client takes the time, connects, seals its proof into    *)
(* the session id of its ClientHello, and the server opens it.             *)
(*                                                                         *)
(* Key agreement, HKDF and AES-GCM are what they promise: a key is the     *)
(* pair of key halves and the salt, and a sealed text opens under the same *)
(* key, nonce and associated data only.  The patched TLS stack that        *)
(* implements RealityInjector and the Xray server that calls the equivalent*)
(* of `open` are not in the repository; they are modelled from the trait's *)
(* contract and from the configuration the repository renders for them.    *)
(***************************************************************************)
EXTENDS Bytes, FiniteSets

CONSTANTS
  VersionLen,     \* bytes of the version triple: 3
  StampLen,       \* bytes of the sealed timestamp: 4
  ShortIdField,   \* bytes of a short id that travel: 8
  MaxShortId,     \* the longest short id the client's config may have: 32
  ShortIds,       \* the short ids an operator may write
  ServerKeys,     \* private keys an operator has generated
  ServerKey,      \* the one the server has
  ServerIds,      \* the server's shortIds
  MaxTimeDiff,    \* the server's maxTimeDiff
  Skews,          \* how far the server's clock may be ahead of the client's
  Times           \* bound: the readings of the client's clock

(* The short ids are bytes.  maxTimeDiff and the difference of the clocks  *)
(* are far from the range of a 32-bit timestamp.                           *)
ASSUME AuthAssumption ==
  /\ Base \in Nat \ {0}
  /\ VersionLen \in Nat /\ StampLen \in Nat /\ ShortIdField \in Nat
  /\ ShortIds \subseteq Seq({ Byte(b) : b \in 0..Base - 1 })
  /\ ServerIds \subseteq Seq({ Byte(b) : b \in 0..Base - 1 })
  /\ Times \subseteq Nat /\ Skews \subseteq Int /\ MaxTimeDiff \in Nat
  /\ \A s \in Skews : MaxTimeDiff - s < Power[StampLen]

VARIABLES
  time,      \* the client's clock
  skew,      \* what the server's clock is ahead of it
  client,    \* the client: [pbk, sids, injector], or <<>> when it could not be built
  stamp,     \* connect's timestamp
  started,   \* history: the clock when connect was called
  hello,     \* the ClientHello the client put on the way, if any
  arriving,  \* what of it arrives, if anything
  result     \* "idle", "connecting", "connected", "sent", or how connect ended

authVars == <<time, skew, client, stamp, started, hello, arriving, result>>

NoHello == <<>>
NoClient == <<>>
Busy == {"connecting", "connected", "sent"}
Stamp32 == Power[StampLen]
DefaultVersion == [i \in 1..VersionLen |-> Byte(1)]

AuthInit ==
  /\ time \in Times
  /\ skew \in Skews
  /\ client = NoClient
  /\ stamp = 0 /\ started = 0
  /\ hello = NoHello /\ arriving = NoHello
  /\ result = "idle"

-----------------------------------------------------------------------------
(* The proof.                                                              *)

PublicFromPrivate(key) == <<"public", key>>

(* The same secret from either side.                                       *)
Shared(private, public) == {private, public[2]}

(* The random of the ClientHello gives the salt and the nonce.             *)
DeriveAuthKey(shared, random) == [shared |-> shared, salt |-> random]

Pad(sid) == [i \in 1..ShortIdField |-> IF i <= Len(sid) THEN sid[i] ELSE Byte(0)]

(* Faulty: the timestamp is little endian, like the tunnel's.              *)
BuildPlaintextLE(version, timestamp, sid) ==
  version \o <<Byte(0)>> \o LE(timestamp, StampLen) \o Pad(sid)

BuildPlaintext(version, timestamp, sid) ==
  version \o <<Byte(0)>> \o BE(timestamp, StampLen) \o Pad(sid)

ParsePlaintext(text) ==
  [timestamp |-> FromBE(SubSeq(text, VersionLen + 2, VersionLen + 1 + StampLen)),
   shortId |-> SubSeq(text, VersionLen + StampLen + 2, Len(text))]

Seal(ephemeral, pbk, sid, timestamp, random, rest) ==
  [key |-> DeriveAuthKey(Shared(ephemeral, pbk), random),
   nonce |-> random,
   aad |-> <<random, PublicFromPrivate(ephemeral), rest>>,
   text |-> BuildPlaintext(DefaultVersion, timestamp, sid)]

(* Faulty: the rest of the ClientHello is not bound.                       *)
OpensUnbound(private, ch) ==
  /\ ch.sessionId.key = DeriveAuthKey(Shared(private, ch.keyShare), ch.random)
  /\ ch.sessionId.nonce = ch.random

Opens(private, ch) ==
  /\ ch.sessionId.key = DeriveAuthKey(Shared(private, ch.keyShare), ch.random)
  /\ ch.sessionId.nonce = ch.random
  /\ ch.sessionId.aad = <<ch.random, ch.keyShare, ch.rest>>

-----------------------------------------------------------------------------
(* The client.                                                             *)

(* RealityConfig::new.                                                     *)
ShortIdTooLong(sids) == \E i \in DOMAIN sids : Len(sids[i]) > MaxShortId

(* The TLS library may refuse the fingerprint; the client has the bundled  *)
(* injector unless it is given another.                                    *)
BuildClient ==
  /\ result \notin Busy
  /\ \E key \in ServerKeys, sids \in {<<>>} \cup { <<s>> : s \in ShortIds },
        injector \in {"unsupported", "patched"} :
       IF ShortIdTooLong(sids)
       THEN client' = NoClient /\ result' = "shortIdTooLong"
       ELSE \/ client' = NoClient /\ result' = "boringBuild"
            \/ /\ client' = [pbk |-> PublicFromPrivate(key), sids |-> sids, injector |-> injector]
               /\ result' = "idle"
  /\ hello' = NoHello /\ arriving' = NoHello
  /\ UNCHANGED <<time, skew, stamp, started>>

PickShortId == IF client.sids = <<>> THEN <<>> ELSE client.sids[1]

(* The time is taken before the connection is made, and cut to 32 bits.    *)
BeginConnect ==
  /\ client # NoClient /\ result \notin Busy
  /\ started' = time
  /\ stamp' = time % Stamp32
  /\ hello' = NoHello /\ arriving' = NoHello
  /\ result' = "connecting"
  /\ UNCHANGED <<time, skew, client>>

TcpConnect ==
  /\ result = "connecting"
  /\ result' \in {"connected", "tcpConnect"}
  /\ UNCHANGED <<time, skew, client, stamp, started, hello, arriving>>

(* UnsupportedInjector.                                                    *)
CannotInstall(injector) == injector = "unsupported"

(* A patched stack seals the bytes it is about to send, under a key made   *)
(* for them.                                                               *)
SealedHello ==
  [random |-> "fresh", keyShare |-> PublicFromPrivate("ephemeral"), rest |-> "chrome",
   sessionId |-> Seal("ephemeral", client.pbk, PickShortId, stamp, "fresh", "chrome")]

(* The TLS library's configuration, which may fail, the injector, and then *)
(* the handshake: nothing is sent before.                                  *)
Handshake ==
  /\ result = "connected"
  /\ \/ hello' = NoHello /\ result' = "boringConfig"
     \/ /\ CannotInstall(client.injector)
        /\ hello' = NoHello /\ result' = "sessionIdInjectionUnsupported"
     \/ /\ ~CannotInstall(client.injector)
        /\ hello' = SealedHello /\ result' = "sent"
  /\ arriving' = hello'
  /\ UNCHANGED <<time, skew, client, stamp, started>>

-----------------------------------------------------------------------------
(* The network, the server and the clock.                                  *)

(* Something on the way rebuilds the ClientHello around the session id.    *)
Rewrite ==
  /\ result = "sent" /\ arriving = hello
  /\ arriving' \in { [hello EXCEPT !.rest = "other"], [hello EXCEPT !.random = "other"],
                 [hello EXCEPT !.keyShare = PublicFromPrivate("other")] }
  /\ UNCHANGED <<time, skew, client, stamp, started, hello, result>>

(* The server accepts a proof that opens, has one of its short ids and is  *)
(* of its time; every other connection it relays to `dest`.                *)
Answer ==
  /\ result = "sent"
  /\ LET payload == ParsePlaintext(arriving.sessionId.text)
         ok == /\ Opens(ServerKey, arriving)
               /\ payload.shortId \in { Pad(sid) : sid \in ServerIds }
               /\ time + skew - payload.timestamp \in -MaxTimeDiff..MaxTimeDiff
     IN  result' = IF ok THEN "accepted" ELSE "relayed"
  /\ UNCHANGED <<time, skew, client, stamp, started, hello, arriving>>

(* The handshake fails, or is given up.                                    *)
HandshakeFails ==
  /\ result = "sent"
  /\ result' = "handshake"
  /\ UNCHANGED <<time, skew, client, stamp, started, hello, arriving>>

AuthTick ==
  /\ result \in Busy \cup {"idle"} /\ time + 1 \in Times
  /\ time' = time + 1
  /\ UNCHANGED <<skew, client, stamp, started, hello, arriving, result>>

AuthNext ==
  \/ BuildClient \/ BeginConnect \/ TcpConnect \/ Handshake
  \/ Rewrite \/ Answer \/ HandshakeFails \/ AuthTick

AuthSpec == AuthInit /\ [][AuthNext]_authVars

-----------------------------------------------------------------------------
(* Properties.                                                             *)

(* Two short ids are one to the server when their first bytes are the      *)
(* same, a missing byte being a zero.                                      *)
SameField(a, b) ==
  \A i \in 1..ShortIdField :
    (IF i \in DOMAIN a THEN a[i] ELSE Byte(0)) = (IF i \in DOMAIN b THEN b[i] ELSE Byte(0))

AgeOfStart == time + skew - started

(* An accepted connection is one the client made for this server, arrived  *)
(* as it was sent, with a short id the server knows by its first bytes,    *)
(* and was asked for within maxTimeDiff of the server's clock: the seal    *)
(* cannot be lifted into another ClientHello.                              *)
AcceptedMeans ==
  result = "accepted" =>
    /\ client.injector = "patched" /\ client.pbk = PublicFromPrivate(ServerKey)
    /\ arriving = hello
    /\ \E sid \in ServerIds : SameField(sid, PickShortId)
    /\ AgeOfStart \in -MaxTimeDiff..MaxTimeDiff

(* A connection is relayed away for a cause: another key, an unknown short *)
(* id, bytes changed on the way, too long a time between the client's      *)
(* clock at the call (it is read before the connection is made) and the    *)
(* server's when it answers, or a date past the last one 32 bits can tell. *)
(* What is too long for the field, or shorter, is no cause.                *)
RelayedForCause ==
  result = "relayed" =>
    \/ client.pbk # PublicFromPrivate(ServerKey)
    \/ ~ \E sid \in ServerIds : SameField(sid, PickShortId)
    \/ arriving # hello
    \/ AgeOfStart \notin -MaxTimeDiff..MaxTimeDiff
    \/ started >= Stamp32
=============================================================================
