-------------------------------- MODULE Tunnel --------------------------------
(***************************************************************************)
(* One proxied connection, end to end:                                     *)
(*                                                                         *)
(*    application --app-- client --tunnel-- exit node --dest-- destination *)
(*                                                                         *)
(* The client task is handle_connection without its choice of SNI (see     *)
(* Pipeline), the exit node's task is the one serve_on spawns.  A link is  *)
(* two FIFO halves, "up" towards the destination and "down" back.  A       *)
(* socket that is dropped ends its half with Eof; a Cut loses everything   *)
(* in flight and makes both ends' reads and writes fail.  Payloads and     *)
(* SOCKS5 messages are opaque; the CONNECT header is three segments, the   *)
(* grain at which parse_request can tell its results apart.                *)
(***************************************************************************)
EXTENDS Integers, Sequences, SequencesExt, FiniteSets

CONSTANTS
  AppData,   \* the payload the application sends
  DestData,  \* the payload the destination sends
  MaxSkew,   \* the exit node's max_skew, in ticks
  Skews,     \* the possible client clocks, relative to the exit node's
  MaxClock   \* bound on the exit node's clock

(* Payloads are opaque, and none looks like a mark of this model.          *)
ASSUME TunnelAssumption ==
  /\ MaxSkew \in Nat
  /\ MaxClock \in Nat
  /\ Skews \subseteq Int
  /\ AppData \in Seq(Range(AppData))
  /\ DestData \in Seq(Range(DestData))
  /\ {"eof", "method", "success", "refused"} \cap (Range(AppData) \cup Range(DestData)) = {}

Eof == "eof"
Header == <<"fixed", "addr", "mac">>
Requests == {"short", "long", "unsupported"}  \* "long": a domain of 254 or 255 bytes
ClientFailures ==
  {"socksError", "connectError", "tlsError", "ioError", "authFail", "dialFail",
   "killed"}
ServerFailures == {"killed", "lost", "tooLong", "badMac", "stale", "unreachable"}

Link == {"app", "tunnel", "dest"}
Dir == {"up", "down"}
Half == Link \X Dir
AppUp == <<"app", "up">>
AppDown == <<"app", "down">>
TunUp == <<"tunnel", "up">>
TunDown == <<"tunnel", "down">>
DestUp == <<"dest", "up">>
DestDown == <<"dest", "down">>

Node == {"client", "server"}
Input == [n \in Node |-> [d \in Dir |->
            IF n = "client" THEN IF d = "up" THEN AppUp ELSE TunDown
                            ELSE IF d = "up" THEN TunUp ELSE DestDown]]
Output == [n \in Node |-> [d \in Dir |->
            IF n = "client" THEN IF d = "up" THEN TunUp ELSE AppDown
                            ELSE IF d = "up" THEN DestUp ELSE TunDown]]

VARIABLES
  pc,        \* where each task stands; a terminal value says how it ended
  link,      \* "closed" (not opened yet), "open" or "cut"
  wire,      \* what is in flight on each half
  shut,      \* the halves whose writer has closed them
  running,   \* the directions copy_bidirectional still copies, per task
  buf,       \* the exit node's header buffer
  request,   \* the request the client read, "none" before that
  stamp,     \* the timestamp in the header
  now,       \* the exit node's clock
  skew,      \* the client's clock minus the exit node's
  sameKey,   \* the two ends hold the same master_secret
  appSent,   \* messages the application has sent, the two of SOCKS5 included
  destSent,  \* chunks the destination has sent
  appGot,    \* what the application has received
  destGot    \* what the destination has received

setting == <<skew, sameKey>>
ends == <<appSent, destSent, appGot, destGot>>
header == <<buf, request, stamp>>
vars == <<pc, link, wire, shut, running, header, now, setting, ends>>

Init ==
  /\ pc = [client |-> "greeting", server |-> "idle"]
  /\ link = [l \in Link |-> IF l = "app" THEN "open" ELSE "closed"]
  /\ wire = [h \in Half |-> <<>>]
  /\ shut = {}
  /\ running = [n \in Node |-> Dir]
  /\ buf = <<>>
  /\ request = "none"
  /\ stamp = 0
  /\ now = 0
  /\ skew \in Skews
  /\ sameKey \in BOOLEAN
  /\ appSent = 0
  /\ destSent = 0
  /\ appGot = <<>>
  /\ destGot = <<>>

-----------------------------------------------------------------------------
(* Sockets.                                                                *)

Up(h) == link[h[1]] = "open"
Cutoff(h) == link[h[1]] = "cut"
Arrives(h, m) == wire[h] # <<>> /\ Head(wire[h]) = m
Ended(h) == Cutoff(h) \/ Arrives(h, Eof)

Put(h, ms, w) == [w EXCEPT ![h] = @ \o ms]
Take(h, w) == [w EXCEPT ![h] = Tail(@)]

(* Closing a set of halves, as a shutdown or a drop of the socket does.    *)
CloseAll(hs, w) ==
  /\ wire' = [h \in Half |-> IF h \in hs \ shut /\ Up(h) THEN Append(w[h], Eof) ELSE w[h]]
  /\ shut' = shut \cup hs

Outputs(n) == { Output[n][d] : d \in Dir }

(* A task returns: both its sockets are dropped.                           *)
Return(n, how, w) ==
  /\ pc' = [pc EXCEPT ![n] = how]
  /\ CloseAll(Outputs(n), w)

Goto(n, where, w) ==
  /\ pc' = [pc EXCEPT ![n] = where]
  /\ wire' = w
  /\ UNCHANGED shut

-----------------------------------------------------------------------------
(* The client: the SOCKS5 handshake, then TunnelClient::open, then relay.  *)

ReadGreeting ==
  /\ pc.client = "greeting"
  /\ \/ /\ Arrives(AppUp, "greeting")
        /\ Goto("client", "request", Put(AppDown, <<"method">>, Take(AppUp, wire)))
     \/ /\ Ended(AppUp) \/ Arrives(AppUp, "badGreeting")
        /\ Return("client", "socksError", wire)
  /\ UNCHANGED <<link, running, header, now, setting, ends>>

(* The success reply goes out before the tunnel is even attempted.         *)
ReadRequest ==
  /\ pc.client = "request"
  /\ \/ \E r \in {"short", "long"} :
          /\ Arrives(AppUp, r)
          /\ request' = r
          /\ Goto("client", "connect", Put(AppDown, <<"success">>, Take(AppUp, wire)))
     \/ /\ Arrives(AppUp, "unsupported")
        /\ Return("client", "socksError", Put(AppDown, <<"refused">>, wire))
        /\ UNCHANGED request
     \/ /\ Ended(AppUp)
        /\ Return("client", "socksError", wire)
        /\ UNCHANGED request
  /\ UNCHANGED <<link, running, buf, stamp, now, setting, ends>>

(* TcpStream::connect, answered by the exit node's accept and spawn.       *)
ConnectServer ==
  /\ pc.client = "connect"
  /\ \/ /\ link' = [link EXCEPT !.tunnel = "open"]
        /\ pc' = [client |-> "tls", server |-> "tls"]
        /\ UNCHANGED <<wire, shut>>
     \/ /\ Return("client", "connectError", wire)
        /\ UNCHANGED link
  /\ UNCHANGED <<running, header, now, setting, ends>>

(* The pin decides; without one any certificate does.                      *)
ConnectTls ==
  /\ pc.client = "tls"
  /\ \/ /\ Up(TunUp) /\ ~Arrives(TunDown, Eof)
        /\ Goto("client", "header", Put(TunUp, <<"finished">>, wire))
     \/ Return("client", "tlsError", wire)
  /\ UNCHANGED <<link, running, header, now, setting, ends>>

(* Faulty: relaying right away, without waiting for the reply.             *)
AfterHeaderRelay == "relay"

AfterHeader == "reply"

SendHeader ==
  /\ pc.client = "header"
  /\ stamp' = now + skew
  /\ \/ /\ Up(TunUp)
        /\ Goto("client", AfterHeader, Put(TunUp, Header, wire))
     \/ /\ Cutoff(TunUp)
        /\ Return("client", "ioError", wire)
  /\ UNCHANGED <<link, running, buf, request, now, setting, ends>>

(* Faulty: any reply byte opens the tunnel.                                *)
AcceptingReplyAny == {"ok", "authFail", "dialFail"}

AcceptingReply == {"ok"}

AwaitReply ==
  /\ pc.client = "reply"
  /\ \/ \E r \in {"ok", "authFail", "dialFail"} :
          /\ Arrives(TunDown, r)
          /\ IF r \in AcceptingReply
             THEN Goto("client", "relay", Take(TunDown, wire))
             ELSE Return("client", r, Take(TunDown, wire))
     \/ /\ Ended(TunDown)
        /\ Return("client", "ioError", wire)
  /\ UNCHANGED <<link, running, header, now, setting, ends>>

-----------------------------------------------------------------------------
(* The exit node.                                                          *)

AcceptTls ==
  /\ pc.server = "tls"
  /\ \/ /\ Arrives(TunUp, "finished")
        /\ Goto("server", "reading", Take(TunUp, wire))
     \/ /\ Ended(TunUp)
        /\ Return("server", "lost", wire)
  /\ UNCHANGED <<link, running, header, now, setting, ends>>

(* Faulty: only headers from the future are refused.                       *)
FreshFromThePast == stamp - now <= MaxSkew

Fresh == now - stamp \in -MaxSkew..MaxSkew

(* parse_request: the domain's length is refused as soon as it is read,    *)
(* before the MAC can be; the freshness only after the MAC.                *)
ParseResult(b) ==
  CASE Len(b) < 2 -> "truncated"
    [] Len(b) >= 2 /\ request = "long" -> "tooLong"
    [] Len(b) = 2 /\ request # "long" -> "truncated"
    [] OTHER -> IF ~sameKey THEN "badMac" ELSE IF ~Fresh THEN "stale" ELSE "valid"

(* Faulty: a read that returns nothing is taken for data.                  *)
ReadsNothingNever(m) == FALSE

ReadsNothing(m) == m = Eof

(* One turn of the read loop: a read returns any part of what has arrived  *)
(* and the whole buffer is parsed again, against the clock of that moment. *)
ReadHeader ==
  /\ pc.server = "reading"
  /\ \/ \E k \in 1..Len(wire[TunUp]) :
          LET got == SubSeq(wire[TunUp], 1, k)
              rest == [wire EXCEPT ![TunUp] = SubSeq(@, k + 1, Len(@))]
              result == ParseResult(buf \o got)
          IN  /\ ~ReadsNothing(got[k])
              /\ buf' = buf \o got
              /\ CASE result = "truncated" -> Goto("server", "reading", rest)
                   [] result = "valid" -> Goto("server", "dialing", rest)
                   [] OTHER -> Return("server", result, Put(TunDown, <<"authFail">>, rest))
     \/ /\ Ended(TunUp)
        /\ Return("server", "lost", wire)
        /\ UNCHANGED buf
  /\ UNCHANGED <<link, running, request, stamp, now, setting, ends>>

(* Faulty: the outcome of the dial is ignored.                             *)
DialFailedUnnoticed == Goto("server", "dialed", wire)

(* Faulty: the client is left without a reply and without an end.          *)
DialFailedSilently == Goto("server", "unreachable", wire)

DialFailed ==
  Return("server", "unreachable",
         IF Up(TunDown) THEN Put(TunDown, <<"dialFail">>, wire) ELSE wire)

Dial ==
  /\ pc.server = "dialing"
  /\ \/ /\ link' = [link EXCEPT !.dest = "open"]
        /\ Goto("server", "dialed", wire)
     \/ /\ DialFailed
        /\ UNCHANGED link
  /\ UNCHANGED <<running, header, now, setting, ends>>

SendOk ==
  /\ pc.server = "dialed"
  /\ \/ /\ Up(TunDown)
        /\ Goto("server", "early", Put(TunDown, <<"ok">>, wire))
     \/ /\ Cutoff(TunDown)
        /\ Return("server", "lost", wire)
  /\ UNCHANGED <<link, running, header, now, setting, ends>>

(* What was read past the header goes to the destination first.            *)
ForwardEarly ==
  /\ pc.server = "early"
  /\ LET leftover == SubSeq(buf, Len(Header) + 1, Len(buf)) IN
       \/ /\ leftover = <<>> \/ Up(DestUp)
          /\ Goto("server", "relay", Put(DestUp, leftover, wire))
       \/ /\ leftover # <<>> /\ Cutoff(DestUp)
          /\ Return("server", "lost", wire)
  /\ UNCHANGED <<link, running, header, now, setting, ends>>

-----------------------------------------------------------------------------
(* copy_bidirectional, on either side of the tunnel.                       *)

(* Faulty: the first end of input ends both directions.                    *)
RunningAfterEither(n, d) == {}

(* The relay ends with the second end of input.                            *)
RunningAfter(n, d) == running[n] \ {d}

(* An end of input shuts the output down.                                  *)
Copy(n, d) ==
  /\ pc[n] = "relay"
  /\ d \in running[n]
  /\ wire[Input[n][d]] # <<>>
  /\ Up(Output[n][d])
  /\ LET m == Head(wire[Input[n][d]])
         rest == Take(Input[n][d], wire)
         left == RunningAfter(n, d)
     IN  \/ /\ m # Eof
            /\ Goto(n, "relay", Put(Output[n][d], <<m>>, rest))
            /\ UNCHANGED running
         \/ /\ m = Eof
            /\ running' = [running EXCEPT ![n] = left]
            /\ IF left = {} THEN Return(n, "closed", rest)
               ELSE /\ CloseAll({Output[n][d]}, rest)
                    /\ UNCHANGED pc
  /\ UNCHANGED <<link, header, now, setting, ends>>

(* The first read or write that fails ends both directions.                *)
CopyFails(n) ==
  /\ pc[n] = "relay"
  /\ \E d \in running[n] : \/ Cutoff(Input[n][d])
                           \/ /\ Cutoff(Output[n][d])
                              /\ wire[Input[n][d]] # <<>>
  /\ Return(n, "closed", wire)
  /\ UNCHANGED <<link, running, header, now, setting, ends>>

-----------------------------------------------------------------------------
(* The process dies before its relay starts: the kernel closes its sockets *)
(* and nothing of the connection survives a restart.  (A death during the  *)
(* relay is two cuts and CopyFails.)                                       *)
Kill(n) ==
  /\ pc[n] \notin ClientFailures \cup ServerFailures \cup {"idle", "relay", "closed"}
  /\ Return(n, "killed", wire)
  /\ UNCHANGED <<link, running, header, now, setting, ends>>

(* The two ends, the clock and the network.                                *)

AppMessages(i) ==
  CASE i = 1 -> {"greeting", "badGreeting"}
    [] i = 2 -> Requests
    [] OTHER -> {AppData[i - 2]}

AppSend ==
  /\ Up(AppUp) /\ AppUp \notin shut
  /\ appSent < 2 + Len(AppData)
  /\ \E m \in AppMessages(appSent + 1) : wire' = Put(AppUp, <<m>>, wire)
  /\ appSent' = appSent + 1
  /\ UNCHANGED <<pc, link, shut, running, header, now, setting, destSent, appGot, destGot>>

AppClose ==
  /\ Up(AppUp) /\ AppUp \notin shut
  /\ CloseAll({AppUp}, wire)
  /\ UNCHANGED <<pc, link, running, header, now, setting, ends>>

AppRecv ==
  /\ wire[AppDown] # <<>> /\ Head(wire[AppDown]) # Eof
  /\ appGot' = Append(appGot, Head(wire[AppDown]))
  /\ wire' = Take(AppDown, wire)
  /\ UNCHANGED <<pc, link, shut, running, header, now, setting, appSent, destSent, destGot>>

DestSend ==
  /\ Up(DestDown) /\ DestDown \notin shut
  /\ destSent < Len(DestData)
  /\ wire' = Put(DestDown, <<DestData[destSent + 1]>>, wire)
  /\ destSent' = destSent + 1
  /\ UNCHANGED <<pc, link, shut, running, header, now, setting, appSent, appGot, destGot>>

DestClose ==
  /\ Up(DestDown) /\ DestDown \notin shut
  /\ CloseAll({DestDown}, wire)
  /\ UNCHANGED <<pc, link, running, header, now, setting, ends>>

DestRecv ==
  /\ wire[DestUp] # <<>> /\ Head(wire[DestUp]) # Eof
  /\ destGot' = Append(destGot, Head(wire[DestUp]))
  /\ wire' = Take(DestUp, wire)
  /\ UNCHANGED <<pc, link, shut, running, header, now, setting, appSent, destSent, appGot>>

Tick ==
  /\ now < MaxClock
  /\ now' = now + 1
  /\ UNCHANGED <<pc, link, wire, shut, running, header, setting, ends>>

Cut(l) ==
  /\ link[l] = "open"
  /\ link' = [link EXCEPT ![l] = "cut"]
  /\ wire' = [h \in Half |-> IF h[1] = l THEN <<>> ELSE wire[h]]
  /\ UNCHANGED <<pc, shut, running, header, now, setting, ends>>

-----------------------------------------------------------------------------
Client == ReadGreeting \/ ReadRequest \/ ConnectServer \/ ConnectTls \/ SendHeader \/ AwaitReply
Server == AcceptTls \/ ReadHeader \/ Dial \/ SendOk \/ ForwardEarly
Relay == \E n \in Node : CopyFails(n) \/ \E d \in Dir : Copy(n, d)
Environment ==
  \/ AppSend \/ AppClose \/ AppRecv
  \/ DestSend \/ DestClose \/ DestRecv
  \/ Tick
  \/ \E l \in Link : Cut(l)
  \/ \E n \in Node : Kill(n)

Next == Client \/ Server \/ Relay \/ Environment

Spec == Init /\ [][Next]_vars

(* The runtime polls every task that can make progress, and both ends read *)
(* what arrives.  Nobody has to send, to close or to cut anything.         *)
Fairness ==
  /\ WF_vars(Client)
  /\ WF_vars(Server)
  /\ \A n \in Node : WF_vars(CopyFails(n)) /\ \A d \in Dir : WF_vars(Copy(n, d))
  /\ WF_vars(AppRecv)
  /\ WF_vars(DestRecv)

FairSpec == Spec /\ Fairness

-----------------------------------------------------------------------------
(* Properties.                                                             *)

Opened == pc.client \in {"relay", "closed"}
Data(s) == SubSeq(s, 3, Len(s))  \* the two replies of SOCKS5 come first

(* Every variable has its type; in particular an end of stream never       *)
(* enters the header buffer.                                               *)
TypeOK ==
  /\ pc.client \in ClientFailures \cup {"greeting", "request", "connect", "tls",
                                        "header", "reply", "relay", "closed"}
  /\ pc.server \in ServerFailures \cup {"idle", "tls", "reading", "dialing", "dialed",
                                        "early", "relay", "closed"}
  /\ link \in [Link -> {"closed", "open", "cut"}]
  /\ DOMAIN wire = Half
  /\ shut \subseteq Half
  /\ running \in [Node -> SUBSET Dir]
  /\ Eof \notin Range(buf) /\ Len(buf) <= Len(Header) + Len(AppData)
  /\ request \in Requests \cup {"none"}
  /\ stamp \in Int /\ now \in 0..MaxClock /\ skew \in Skews /\ sameKey \in BOOLEAN
  /\ appSent \in 0..(2 + Len(AppData)) /\ destSent \in 0..Len(DestData)

(* The client sends nothing between its header and the reply, so the exit  *)
(* node's header reads are header-only, however the bytes are cut up       *)
(* (the comment at the top of `handle`).                                   *)
OnlyHeaderBeforeReply == IsPrefix(buf, Header)

(* The reply tells the truth: a tunnel the client opened was dialed, an    *)
(* AUTH_FAIL comes from a header the exit node rejected, and a DIAL_FAIL   *)
(* from an authenticated one whose destination it could not reach.         *)
VerdictMatchesServer ==
  /\ Opened => link.dest # "closed" /\ pc.server \in {"early", "relay", "closed", "lost", "killed"}
  /\ pc.client = "authFail" => pc.server \in {"tooLong", "badMac", "stale"}
  /\ pc.client = "dialFail" => pc.server = "unreachable" /\ link.dest = "closed"

(* No delay on the way lets a client with another secret, or with a clock  *)
(* more than max_skew behind, open a tunnel.                               *)
OpenedWithinSkew == Opened => sameKey /\ skew >= -MaxSkew

(* What both ends see is what a Pipe lets them see: nothing is lost,       *)
(* duplicated or reordered on an open tunnel, and a failed one delivers    *)
(* nothing either way.                                                     *)
Phase == CASE Opened -> "open"
           [] pc.client \in ClientFailures -> "failed"
           [] OTHER -> "opening"

AbstractPipe == INSTANCE Pipe WITH
  phase <- Phase, reached <- link.dest # "closed", toDest <- destGot, toApp <- Data(appGot)

ImplementsPipe == AbstractPipe!Spec

(* A client that has told its application "success" learns the outcome of  *)
(* the tunnel, whatever the exit node, the destination and the network do, *)
(* as long as a broken connection is reported.                             *)
VerdictComes == (pc.client = "connect") ~> (Opened \/ pc.client \in ClientFailures)

(* A half-closed connection still delivers: what one end sent before it    *)
(* closed reaches the other end, and then the end of stream, unless a link *)
(* is cut or the exit node is killed.                                      *)
Disturbed == pc.server = "killed" \/ \E l \in Link : link[l] = "cut"

HalfCloseDelivers ==
  /\ (Opened /\ AppUp \in shut) ~>
       (\/ Disturbed
        \/ destGot = SubSeq(AppData, 1, appSent - 2) /\ DestUp \in shut)
  /\ (Opened /\ DestDown \in shut) ~>
       (\/ Disturbed
        \/ Data(appGot) = SubSeq(DestData, 1, destSent) /\ AppDown \in shut)

(* "The header failed authentication or freshness checks" (the comment of  *)
(* reply::AUTH_FAIL): a client told AUTH_FAIL holds another secret or sent *)
(* a header the exit node found stale.                                     *)
AuthFailMeansAuth == pc.client = "authFail" => ~sameKey \/ pc.server = "stale"
=============================================================================
