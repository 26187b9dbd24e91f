--------------------------- MODULE TunnelRefinement ---------------------------
(* The tunnel implements the pipe, for payloads of any length: what is in  *)
(* flight on each half is the part of the payload that the half after it   *)
(* has not had yet.                                                        *)
(*                                                                         *)
(* Of a half beyond which nothing is passed on any more nothing is said:   *)
(* its reader is gone, or may write no further.  The invariant has a part  *)
(* for each of the three halves in each direction, and each part holds as  *)
(* long as the task that reads the half can still act on it.               *)
EXTENDS TunnelProofs

FromApp == wire[AppUp]
ToDest == wire[DestUp]
FromDest == wire[DestDown]
ToApp == wire[AppDown]

Clean(w) == \A j \in 1..Len(w) : w[j] # Eof

(* Up to an end of stream, w is what follows the first n of data; places   *)
(* before the first are for other messages.                                *)
Carries(w, data, n) ==
  \A j \in 1..Len(w) :
    (\A i \in 1..j : w[i] # Eof) /\ n + j >= 1 =>
      n + j <= Len(data) /\ w[j] = data[n + j]

Opening == pc.client \in {"greeting", "request", "connect"} \cup Trying
Serving == {"dialing", "dialed", "early", "relay"}
Payload(data) == IF Opened THEN data ELSE <<>>

(* A direction that is still copied has its output open; and nothing comes *)
(* from an application that was cut off.                                   *)
Live(n) == pc[n] \notin ClientFailures \cup ServerFailures \cup {"closed"}

SocketInv ==
  /\ \A n \in Node, d \in Dir : Live(n) /\ d \in running[n] => Output[n][d] \notin shut
  /\ link.app = "cut" => FromApp = <<>>

-----------------------------------------------------------------------------
(* Towards the destination.                                                *)

AtDest == Len(destGot) + Len(ToDest)
ServerReads == pc.server \in Serving /\ link.dest # "cut" /\ Clean(ToDest)
AtTunnel == CASE pc.client = "greeting" -> -2
              [] pc.client = "request" -> -1
              [] pc.client = "relay" -> AtDest + Len(ToServer)
              [] OTHER -> 0
ClientReads ==
  \/ Opening
  \/ pc.client = "relay" /\ ServerReads /\ link.tunnel # "cut" /\ Clean(ToServer)

UpToDest == /\ Carries(ToDest, Payload(AppData), Len(destGot))
            /\ ~Opened => destGot = <<>>
UpToServer == ServerReads => Carries(ToServer, Payload(AppData), AtDest)
UpFromApp ==
  ClientReads =>
    /\ Carries(FromApp, AppData, AtTunnel)
    /\ link.app # "cut" /\ Clean(FromApp) => AtTunnel + Len(FromApp) = appSent - 2

UpInv == UpToDest /\ UpToServer /\ UpFromApp

(* Towards the application, which gets two replies of SOCKS5 and, behind   *)
(* the tunnel, the exit node's byte before the payload.                    *)

Told == Len(appGot) + Len(ToApp)
ClientWrites == Opening \/ (pc.client = "relay" /\ link.app # "cut" /\ Clean(ToApp))
AtClient == IF pc.client = "relay" THEN Told - 2 ELSE -1
ServerWrites ==
  /\ ClientWrites
  /\ pc.server \in {"idle", "tls", "reading"} \cup Serving
  /\ link.tunnel # "cut" /\ Clean(ToClient)
AtServer == IF pc.server \in {"early", "relay"} THEN AtClient + Len(ToClient) ELSE 0

DownToApp == /\ Carries(ToApp, Payload(DestData), Len(appGot) - 2)
             /\ ~Opened => Len(appGot) <= 2
DownReplies ==
  link.app # "cut" /\ Clean(ToApp) =>
    /\ pc.client = "greeting" => Told = 0
    /\ pc.client = "request" => Told = 1
    /\ pc.client \in {"connect"} \cup Trying => Told = 2
DownToClient == ClientWrites => Carries(ToClient, DestData, AtClient)
DownFromDest ==
  ServerWrites =>
    /\ Carries(FromDest, DestData, AtServer)
    /\ link.dest # "cut" /\ Clean(FromDest) => AtServer + Len(FromDest) = destSent

DownInv == DownToApp /\ DownReplies /\ DownToClient /\ DownFromDest

(* What both ends have received are sequences.                             *)
Gots == appGot \in Seq(Msg) /\ destGot \in Seq(Msg)

FlowInv == Gots /\ SocketInv /\ UpInv /\ DownInv

-----------------------------------------------------------------------------
(* Sequences.                                                              *)

LEMMA CleanAppend ==
  ASSUME NEW w \in Seq(Msg), NEW m \in Msg
  PROVE  Clean(Append(w, m)) <=> Clean(w) /\ m # Eof
<1>1. /\ Append(w, m) \in Seq(Msg) /\ Len(Append(w, m)) = Len(w) + 1
      /\ \A i \in 1..Len(w) : Append(w, m)[i] = w[i]
      /\ Append(w, m)[Len(w) + 1] = m
  BY AppendProperties
<1>2. Len(w) \in Nat
  BY LenProperties
<1>3. Clean(w) /\ m # Eof => Clean(Append(w, m))
  <2> SUFFICES ASSUME Clean(w), m # Eof, NEW j \in 1..Len(Append(w, m))
               PROVE  Append(w, m)[j] # Eof
    BY DEF Clean
  <2>1. j \in 1..Len(w) \/ j = Len(w) + 1
    BY <1>1, <1>2
  <2> QED
    BY <1>1, <2>1 DEF Clean
<1>4. Clean(Append(w, m)) => Clean(w) /\ m # Eof
  <2> SUFFICES ASSUME Clean(Append(w, m)) PROVE Clean(w) /\ m # Eof
    OBVIOUS
  <2>1. Len(w) + 1 \in 1..Len(Append(w, m))
    BY <1>1, <1>2
  <2>2. \A j \in 1..Len(w) : j \in 1..Len(Append(w, m))
    BY <1>1, <1>2
  <2> QED
    BY <1>1, <2>1, <2>2 DEF Clean
<1> QED
  BY <1>3, <1>4

LEMMA CleanTail ==
  ASSUME NEW w \in Seq(Msg), w # <<>>, Head(w) # Eof
  PROVE  Clean(Tail(w)) => Clean(w)
<1>1. /\ Tail(w) \in Seq(Msg) /\ Len(Tail(w)) = Len(w) - 1
      /\ \A i \in 1..Len(Tail(w)) : Tail(w)[i] = w[i + 1]
      /\ Head(w) = w[1]
  BY HeadTailProperties
<1>2. Len(w) \in Nat
  BY LenProperties
<1> SUFFICES ASSUME Clean(Tail(w)), NEW j \in 1..Len(w) PROVE w[j] # Eof
  BY DEF Clean
<1>3. CASE j = 1
  BY <1>1, <1>3
<1>4. CASE j # 1
  <2>1. j - 1 \in 1..Len(Tail(w)) /\ (j - 1) + 1 = j
    BY <1>1, <1>2, <1>4
  <2> QED
    BY <1>1, <2>1 DEF Clean
<1> QED
  BY <1>3, <1>4

(* What comes next may be added, if anything will still be looked at.      *)
LEMMA CarriesNext ==
  ASSUME NEW w \in Seq(Msg), NEW m \in Msg, NEW data, NEW n \in Int, Carries(w, data, n),
         Clean(w) /\ m # Eof /\ n + Len(w) >= 0 =>
           n + Len(w) + 1 <= Len(data) /\ m = data[n + Len(w) + 1]
  PROVE  Carries(Append(w, m), data, n)
<1>1. /\ Append(w, m) \in Seq(Msg) /\ Len(Append(w, m)) = Len(w) + 1
      /\ \A i \in 1..Len(w) : Append(w, m)[i] = w[i]
      /\ Append(w, m)[Len(w) + 1] = m
  BY AppendProperties
<1>2. Len(w) \in Nat
  BY LenProperties
<1> SUFFICES ASSUME NEW j \in 1..Len(w) + 1, \A i \in 1..j : Append(w, m)[i] # Eof, n + j >= 1
             PROVE  n + j <= Len(data) /\ Append(w, m)[j] = data[n + j]
  BY <1>1 DEF Carries
<1>3. CASE j = Len(w) + 1
  <2>1. Clean(w) /\ m # Eof
    <3>1. \A i \in 1..Len(w) : i \in 1..j
      BY <1>2, <1>3
    <3>2. j \in 1..j
      BY <1>2, <1>3
    <3> QED
      BY <1>1, <1>3, <3>1, <3>2 DEF Clean
  <2>2. n + Len(w) >= 0 /\ n + j = n + Len(w) + 1
    BY <1>2, <1>3
  <2> QED
    BY <1>1, <1>3, <2>1, <2>2
<1>4. CASE j # Len(w) + 1
  <2>1. j \in 1..Len(w) /\ \A i \in 1..j : i \in 1..Len(w)
    BY <1>2, <1>4
  <2>2. \A i \in 1..j : w[i] # Eof
    BY <1>1, <2>1
  <2> QED
    BY <1>1, <2>1, <2>2 DEF Carries
<1> QED
  BY <1>3, <1>4

LEMMA CarriesEof ==
  ASSUME NEW w \in Seq(Msg), NEW data, NEW n \in Int, Carries(w, data, n)
  PROVE  Carries(Append(w, Eof), data, n)
  BY CarriesNext, Controls

(* What is read leaves what follows it.                                    *)
LEMMA CarriesTail ==
  ASSUME NEW w \in Seq(Msg), w # <<>>, Head(w) # Eof, NEW data, NEW n \in Int,
         Carries(w, data, n)
  PROVE  /\ Carries(Tail(w), data, n + 1)
         /\ n >= 0 => n + 1 <= Len(data) /\ Head(w) = data[n + 1]
<1>1. /\ Tail(w) \in Seq(Msg) /\ Len(Tail(w)) = Len(w) - 1
      /\ \A i \in 1..Len(Tail(w)) : Tail(w)[i] = w[i + 1]
      /\ Head(w) = w[1]
  BY HeadTailProperties
<1>2. Len(w) \in Nat /\ Len(w) >= 1
  BY LenProperties, EmptySeq
<1>3. Carries(Tail(w), data, n + 1)
  <2> SUFFICES ASSUME NEW j \in 1..Len(Tail(w)), \A i \in 1..j : Tail(w)[i] # Eof,
                      n + 1 + j >= 1
               PROVE  n + 1 + j <= Len(data) /\ Tail(w)[j] = data[n + 1 + j]
    BY DEF Carries
  <2>1. j + 1 \in 1..Len(w) /\ n + (j + 1) = n + 1 + j
    BY <1>1, <1>2
  <2>2. ASSUME NEW i \in 1..j + 1 PROVE w[i] # Eof
    <3>1. CASE i = 1
      BY <1>1, <3>1
    <3>2. CASE i # 1
      <4>1. i - 1 \in 1..j /\ i - 1 \in 1..Len(Tail(w)) /\ (i - 1) + 1 = i
        BY <1>1, <1>2, <3>2
      <4> QED
        BY <1>1, <4>1
    <3> QED
      BY <3>1, <3>2
  <2> QED
    BY <1>1, <2>1, <2>2 DEF Carries
<1>4. n >= 0 => n + 1 <= Len(data) /\ Head(w) = data[n + 1]
  <2>1. 1 \in 1..Len(w) /\ \A i \in 1..1 : w[i] # Eof
    BY <1>1, <1>2
  <2> QED
    BY <1>1, <2>1 DEF Carries
<1> QED
  BY <1>3, <1>4

(* Nothing, or nothing before the end.                                     *)
LEMMA CarriesEmpty ==
  ASSUME NEW data, NEW n \in Int
  PROVE  Carries(<<>>, data, n) /\ Clean(<<>>)
  BY DEF Carries, Clean

LEMMA CarriesNothing ==
  ASSUME NEW w \in Seq(Msg), NEW data, NEW n \in Int, Carries(w, <<>>, n)
  PROVE  /\ Carries(w, data, n)
         /\ Clean(w) /\ n >= 0 => w = <<>>
<1>1. Len(w) \in Nat /\ (Len(w) = 0 => w = <<>>)
  BY LenProperties, EmptySeq
<1>2. Carries(w, data, n)
  BY <1>1 DEF Carries
<1>3. Clean(w) /\ n >= 0 => w = <<>>
  <2> SUFFICES ASSUME Clean(w), n >= 0, Len(w) >= 1 PROVE FALSE
    BY <1>1
  <2>1. 1 \in 1..Len(w) /\ \A i \in 1..1 : w[i] # Eof
    BY <1>1 DEF Clean
  <2> QED
    BY <2>1 DEF Carries
<1> QED
  BY <1>2, <1>3

-----------------------------------------------------------------------------
(* The six halves, and what a step does to each.                           *)

LEMMA Six ==
  /\ AppUp \in Half /\ AppDown \in Half /\ TunUp \in Half
  /\ TunDown \in Half /\ DestUp \in Half /\ DestDown \in Half
  /\ AppUp \notin {AppDown, TunUp, TunDown, DestUp, DestDown}
  /\ AppDown \notin {AppUp, TunUp, TunDown, DestUp, DestDown}
  /\ TunUp \notin {AppUp, AppDown, TunDown, DestUp, DestDown}
  /\ TunDown \notin {AppUp, AppDown, TunUp, DestUp, DestDown}
  /\ DestUp \notin {AppUp, AppDown, TunUp, TunDown, DestDown}
  /\ DestDown \notin {AppUp, AppDown, TunUp, TunDown, DestUp}
<1>1. /\ "up" # "down" /\ "app" # "tunnel" /\ "app" # "dest" /\ "tunnel" # "dest"
  OBVIOUS
<1> QED
  BY <1>1, Halves DEF AppUp, AppDown, TunUp, TunDown, DestUp, DestDown

LEMMA Ports ==
  /\ "client" \in Node /\ "server" \in Node /\ "up" \in Dir /\ "down" \in Dir
  /\ Input["client"]["up"] = AppUp /\ Output["client"]["up"] = TunUp
  /\ Input["client"]["down"] = TunDown /\ Output["client"]["down"] = AppDown
  /\ Input["server"]["up"] = TunUp /\ Output["server"]["up"] = DestUp
  /\ Input["server"]["down"] = DestDown /\ Output["server"]["down"] = TunDown
  /\ Outputs("client") = {TunUp, AppDown} /\ Outputs("server") = {DestUp, TunDown}
<1>1. /\ "client" \in Node /\ "server" \in Node /\ "up" \in Dir /\ "down" \in Dir
      /\ "client" # "server" /\ "up" # "down"
  BY DEF Node, Dir
<1>2. /\ Input["client"]["up"] = AppUp /\ Output["client"]["up"] = TunUp
      /\ Input["client"]["down"] = TunDown /\ Output["client"]["down"] = AppDown
      /\ Input["server"]["up"] = TunUp /\ Output["server"]["up"] = DestUp
      /\ Input["server"]["down"] = DestDown /\ Output["server"]["down"] = TunDown
  BY <1>1 DEF Input, Output
<1>3. Outputs("client") = {TunUp, AppDown} /\ Outputs("server") = {DestUp, TunDown}
  BY <1>2 DEF Outputs, Dir
<1> QED
  BY <1>1, <1>2, <1>3

LEMMA Links ==
  /\ "app" \in Link /\ "tunnel" \in Link /\ "dest" \in Link
  /\ AppUp[1] = "app" /\ AppDown[1] = "app" /\ TunUp[1] = "tunnel"
  /\ TunDown[1] = "tunnel" /\ DestUp[1] = "dest" /\ DestDown[1] = "dest"
  BY DEF Link, AppUp, AppDown, TunUp, TunDown, DestUp, DestDown

LEMMA Flows ==
  ASSUME Typed, Gots
  PROVE  /\ wire \in Wires
         /\ FromApp \in Seq(Msg) /\ ToServer \in Seq(Msg) /\ ToDest \in Seq(Msg)
         /\ FromDest \in Seq(Msg) /\ ToClient \in Seq(Msg) /\ ToApp \in Seq(Msg)
         /\ AtDest \in Nat /\ Told \in Nat
         /\ Len(appGot) \in Nat /\ Len(destGot) \in Nat
         /\ Len(FromApp) \in Nat /\ Len(ToServer) \in Nat /\ Len(ToDest) \in Nat
         /\ Len(FromDest) \in Nat /\ Len(ToClient) \in Nat /\ Len(ToApp) \in Nat
         /\ AtTunnel \in Int /\ AtClient \in Int /\ AtServer \in Int
<1>1. /\ wire \in Wires
      /\ FromApp \in Seq(Msg) /\ ToServer \in Seq(Msg) /\ ToDest \in Seq(Msg)
      /\ FromDest \in Seq(Msg) /\ ToClient \in Seq(Msg) /\ ToApp \in Seq(Msg)
  BY Six DEF Typed, Moved, Wires, FromApp, ToServer, ToDest, FromDest, ToClient, ToApp
<1>2. /\ Len(appGot) \in Nat /\ Len(destGot) \in Nat
      /\ Len(FromApp) \in Nat /\ Len(ToServer) \in Nat /\ Len(ToDest) \in Nat
      /\ Len(FromDest) \in Nat /\ Len(ToClient) \in Nat /\ Len(ToApp) \in Nat
  BY <1>1, LenProperties DEF Gots
<1>3. AtDest \in Nat /\ Told \in Nat
  BY <1>2 DEF AtDest, Told
<1>4. AtTunnel \in Int
  BY <1>2, <1>3 DEF AtTunnel
<1>5. AtClient \in Int
  BY <1>3 DEF AtClient
<1>6. AtServer \in Int
  BY <1>2, <1>5 DEF AtServer
<1> QED
  BY <1>1, <1>2, <1>3, <1>4, <1>5, <1>6

(* Where the tasks stand after one of them moved.                          *)
LEMMA PcMoves ==
  ASSUME Typed, NEW where
  PROVE  /\ pc' = [pc EXCEPT !["client"] = where] =>
              pc'.client = where /\ pc'.server = pc.server
         /\ pc' = [pc EXCEPT !["server"] = where] =>
              pc'.server = where /\ pc'.client = pc.client
  BY DEF Typed, Moved, Node

(* A client that returns may end what it sends, either way.                *)
LEMMA ClientEnds ==
  ASSUME Typed, NEW how, NEW w \in Wires, Return("client", how, w)
  PROVE  /\ pc'.client = how /\ pc'.server = pc.server
         /\ FromApp' = w[AppUp] /\ ToDest' = w[DestUp]
         /\ FromDest' = w[DestDown] /\ ToClient' = w[TunDown]
         /\ ToServer' \in {w[TunUp], Append(w[TunUp], Eof)}
         /\ ToApp' \in {w[AppDown], Append(w[AppDown], Eof)}
         /\ shut' = shut \cup {TunUp, AppDown}
<1>1. shut \subseteq Half /\ "client" \in Node
  BY Ports DEF Typed, Moved
<1>2. /\ pc' = [pc EXCEPT !["client"] = how]
      /\ shut' = shut \cup Outputs("client")
      /\ \A g \in Half : \/ wire'[g] = w[g]
                         \/ /\ g \in Outputs("client") \ shut /\ Up(g)
                            /\ wire'[g] = Append(w[g], Eof)
  BY <1>1, ReturnType
<1> QED
  BY <1>2, Six, Ports, PcMoves DEF FromApp, ToServer, ToDest, FromDest, ToClient, ToApp

(* So may an exit node's task.                                             *)
LEMMA ServerEnds ==
  ASSUME Typed, NEW how, NEW w \in Wires, Return("server", how, w)
  PROVE  /\ pc'.server = how /\ pc'.client = pc.client
         /\ FromApp' = w[AppUp] /\ ToServer' = w[TunUp]
         /\ FromDest' = w[DestDown] /\ ToApp' = w[AppDown]
         /\ ToDest' \in {w[DestUp], Append(w[DestUp], Eof)}
         /\ ToClient' \in {w[TunDown], Append(w[TunDown], Eof)}
         /\ shut' = shut \cup {DestUp, TunDown}
<1>1. shut \subseteq Half /\ "server" \in Node
  BY Ports DEF Typed, Moved
<1>2. /\ pc' = [pc EXCEPT !["server"] = how]
      /\ shut' = shut \cup Outputs("server")
      /\ \A g \in Half : \/ wire'[g] = w[g]
                         \/ /\ g \in Outputs("server") \ shut /\ Up(g)
                            /\ wire'[g] = Append(w[g], Eof)
  BY <1>1, ReturnType
<1> QED
  BY <1>2, Six, Ports, PcMoves DEF FromApp, ToServer, ToDest, FromDest, ToClient, ToApp

(* Reading from one half and writing to another.                           *)
LEMMA Passed ==
  ASSUME NEW g \in Half, NEW h \in Half, g # h, wire \in Wires, wire[g] # <<>>, NEW m \in Msg
  PROVE  LET w == Put(h, <<m>>, Take(g, wire))
         IN  /\ w \in Wires
             /\ w[g] = Tail(wire[g]) /\ w[h] = Append(wire[h], m)
             /\ \A f \in Half \ {g, h} : w[f] = wire[f]
<1> DEFINE r == Take(g, wire)
<1>1. r \in Wires /\ r[g] = Tail(wire[g]) /\ \A f \in Half \ {g} : r[f] = wire[f]
  BY TakeType
<1> HIDE DEF r
<1>2. /\ Put(h, <<m>>, r) \in Wires
      /\ Put(h, <<m>>, r)[h] = Append(r[h], m)
      /\ \A f \in Half \ {h} : Put(h, <<m>>, r)[f] = r[f]
  BY <1>1, PutOne
<1>3. g \in Half \ {h} /\ h \in Half \ {g}
      /\ \A f \in Half \ {g, h} : f \in Half \ {g} /\ f \in Half \ {h}
  OBVIOUS
<1>4. /\ Put(h, <<m>>, r) \in Wires
      /\ Put(h, <<m>>, r)[g] = Tail(wire[g]) /\ Put(h, <<m>>, r)[h] = Append(wire[h], m)
      /\ \A f \in Half \ {g, h} : Put(h, <<m>>, r)[f] = wire[f]
  BY <1>1, <1>2, <1>3
<1> QED
  BY <1>4 DEF r

-----------------------------------------------------------------------------
(* What steps have in common.                                              *)

LEMMA SocketKeeps ==
  ASSUME SocketInv, shut' = shut, running' = running,
         \A n \in Node : Live(n)' => Live(n),
         link'.app = "cut" => FromApp' = <<>>
  PROVE  SocketInv'
  BY DEF SocketInv

LEMMA UpFrame ==
  ASSUME UpInv, UNCHANGED <<pc, link, FromApp, ToServer, ToDest, appSent, destGot>>
  PROVE  UpInv'
<1>1. /\ Opened' <=> Opened
      /\ ServerReads' <=> ServerReads
      /\ ClientReads' <=> ClientReads
  BY DEF Opened, ServerReads, ClientReads, Opening
<1>2. Payload(AppData)' = Payload(AppData) /\ AtDest' = AtDest /\ AtTunnel' = AtTunnel
  BY <1>1 DEF Payload, AtDest, AtTunnel
<1> QED
  BY <1>1, <1>2 DEF UpInv, UpToDest, UpToServer, UpFromApp

LEMMA DownFrame ==
  ASSUME DownInv, UNCHANGED <<pc, link, FromDest, ToClient, ToApp, destSent, appGot>>
  PROVE  DownInv'
<1>1. /\ Opened' <=> Opened
      /\ ClientWrites' <=> ClientWrites
      /\ ServerWrites' <=> ServerWrites
  BY DEF Opened, ServerWrites, ClientWrites, Opening
<1>2. Payload(DestData)' = Payload(DestData) /\ Told' = Told
  BY <1>1 DEF Payload, Told
<1>3. AtClient' = AtClient /\ AtServer' = AtServer
  BY <1>2 DEF AtClient, AtServer
<1> QED
  BY <1>1, <1>2, <1>3 DEF DownInv, DownToApp, DownReplies, DownToClient, DownFromDest

LEMMA Extended ==
  ASSUME NEW w \in Seq(Msg), NEW v, v \in {w, Append(w, Eof)}, NEW data, NEW n \in Int,
         Carries(w, data, n)
  PROVE  Carries(v, data, n)
  BY CarriesEof

Leaving(how) ==
  \/ Opening /\ how \in ClientFailures
  \/ pc.client = "relay" /\ how = "closed"

LEMMA LeftBehind ==
  ASSUME NEW how, Leaving(how), pc'.client = how
  PROVE  /\ ~Opening' /\ pc'.client # "relay"
         /\ Opened' <=> Opened
         /\ ~Live("client")'
         /\ pc'.client \notin {"greeting", "request", "connect"} \cup Trying
  BY DEF Leaving, Opening, Opened, Live, ClientFailures, Trying

(* The client returns: nothing is read or passed on by it any more.        *)
LEMMA FlowClientEnds ==
  ASSUME Typed, FlowInv, NEW how, Leaving(how), NEW w \in Wires, Return("client", how, w),
         w[TunUp] = ToServer, w[DestUp] = ToDest,
         link.app = "cut" => w[AppUp] = <<>>,
         Carries(w[AppDown], Payload(DestData), Len(appGot) - 2),
         running'["server"] = running["server"],
         UNCHANGED <<link, ends>>
  PROVE  FlowInv'
<1>0. UNCHANGED <<appSent, destSent, appGot, destGot>>
  BY DEF ends
<1>1. /\ pc'.client = how /\ pc'.server = pc.server
      /\ FromApp' = w[AppUp] /\ ToDest' = ToDest
      /\ ToServer' \in {ToServer, Append(ToServer, Eof)}
      /\ ToApp' \in {w[AppDown], Append(w[AppDown], Eof)}
      /\ shut' = shut \cup {TunUp, AppDown}
  BY ClientEnds
<1>2. /\ ~Opening' /\ pc'.client # "relay" /\ (Opened' <=> Opened) /\ ~Live("client")'
      /\ pc'.client \notin {"greeting", "request", "connect"} \cup Trying
  BY <1>1, LeftBehind
<1>3. ToServer \in Seq(Msg) /\ w[AppDown] \in Seq(Msg) /\ AtDest \in Nat /\ Len(appGot) - 2 \in Int
  BY Flows, Six DEF FlowInv, Wires
<1>4. UpInv'
  <2>1. (ServerReads' <=> ServerReads) /\ AtDest' = AtDest /\ ~ClientReads'
        /\ Payload(AppData)' = Payload(AppData)
    BY <1>0, <1>1, <1>2 DEF ServerReads, AtDest, ClientReads, Payload
  <2>2. UpToDest'
    BY <1>0, <1>1, <1>2, <2>1 DEF FlowInv, UpInv, UpToDest
  <2>3. UpToServer'
    BY <1>1, <1>3, <2>1, Extended DEF FlowInv, UpInv, UpToServer
  <2>4. UpFromApp'
    BY <2>1 DEF UpFromApp
  <2> QED
    BY <2>2, <2>3, <2>4 DEF UpInv
<1>5. DownInv'
  <2>1. ~ClientWrites' /\ ~ServerWrites' /\ Payload(DestData)' = Payload(DestData)
    BY <1>2 DEF ClientWrites, ServerWrites, Payload
  <2>2. DownToApp'
    BY <1>0, <1>1, <1>2, <1>3, <2>1, Extended DEF FlowInv, DownInv, DownToApp
  <2>3. DownReplies'
    BY <1>2 DEF DownReplies
  <2> QED
    BY <2>1, <2>2, <2>3 DEF DownInv, DownToClient, DownFromDest
<1>6. SocketInv'
  <2>1. \A d \in Dir : Output["server"][d] \notin {TunUp, AppDown}
    BY Ports, Six DEF Dir
  <2>2. Live("server")' <=> Live("server")
    BY <1>1 DEF Live
  <2> QED
    BY <1>1, <1>2, <2>1, <2>2 DEF FlowInv, SocketInv, Node
<1> QED
  BY <1>0, <1>4, <1>5, <1>6 DEF FlowInv, Gots

(* The exit node's task returns.                                           *)
LEMMA FlowServerEnds ==
  ASSUME Typed, FlowInv, NEW how \in ServerFailures \cup {"closed"}, NEW w \in Wires,
         Return("server", how, w),
         w[AppUp] = FromApp, w[DestUp] = ToDest, w[AppDown] = ToApp,
         ClientWrites => Carries(w[TunDown], DestData, AtClient),
         running'["client"] = running["client"],
         UNCHANGED <<link, ends>>
  PROVE  FlowInv'
<1>0. UNCHANGED <<appSent, destSent, appGot, destGot>>
  BY DEF ends
<1>1. /\ pc'.server = how /\ pc'.client = pc.client
      /\ FromApp' = FromApp /\ ToApp' = ToApp
      /\ ToDest' \in {ToDest, Append(ToDest, Eof)}
      /\ ToClient' \in {w[TunDown], Append(w[TunDown], Eof)}
      /\ shut' = shut \cup {DestUp, TunDown}
  BY ServerEnds
<1>2. ~Live("server")' /\ pc'.server \notin {"idle", "tls", "reading"} \cup Serving
  BY <1>1 DEF Live, Serving, ServerFailures
<1>3. /\ ToDest \in Seq(Msg) /\ w[TunDown] \in Seq(Msg) /\ AtClient \in Int
      /\ Len(destGot) \in Int /\ AtTunnel \in Int
  BY Flows, Six DEF FlowInv, Wires
<1>4. (Opened' <=> Opened) /\ (Opening' <=> Opening)
  BY <1>1 DEF Opened, Opening
<1>5. UpInv'
  <2>1. ~ServerReads' /\ (ClientReads' => Opening) /\ Payload(AppData)' = Payload(AppData)
    BY <1>2, <1>4 DEF ServerReads, ClientReads, Payload
  <2>2. UpToDest'
    BY <1>0, <1>1, <1>3, <1>4, <2>1, Extended DEF FlowInv, UpInv, UpToDest
  <2>3. UpToServer'
    BY <2>1 DEF UpToServer
  <2>4. UpFromApp'
    <3>1. Opening => AtTunnel' = AtTunnel /\ ClientReads
      BY <1>1 DEF AtTunnel, Opening, Trying, ClientReads
    <3> QED
      BY <1>0, <1>1, <2>1, <3>1 DEF FlowInv, UpInv, UpFromApp
  <2> QED
    BY <2>2, <2>3, <2>4 DEF UpInv
<1>6. DownInv'
  <2>1. ~ServerWrites' /\ (ClientWrites' <=> ClientWrites)
        /\ Payload(DestData)' = Payload(DestData) /\ Told' = Told
    BY <1>0, <1>1, <1>2, <1>4 DEF ClientWrites, ServerWrites, Payload, Told
  <2>2. AtClient' = AtClient
    BY <1>1, <2>1 DEF AtClient
  <2>3. DownToApp' /\ DownReplies'
    BY <1>0, <1>1, <1>4, <2>1 DEF FlowInv, DownInv, DownToApp, DownReplies
  <2>4. DownToClient'
    BY <1>1, <1>3, <2>1, <2>2, Extended DEF DownToClient
  <2> QED
    BY <2>1, <2>3, <2>4 DEF DownInv, DownFromDest
<1>7. SocketInv'
  <2>1. \A d \in Dir : Output["client"][d] \notin {DestUp, TunDown}
    BY Ports, Six DEF Dir
  <2>2. Live("client")' <=> Live("client")
    BY <1>1 DEF Live
  <2> QED
    BY <1>1, <1>2, <2>1, <2>2 DEF FlowInv, SocketInv, Node
<1> QED
  BY <1>0, <1>5, <1>6, <1>7 DEF FlowInv, Gots

(* A task moves on before anything is passed up.                           *)
LEMMA UpWaits ==
  ASSUME FlowInv, ~Opened, ~Opened', pc'.server \notin Serving,
         Opening' => Opening /\ AtTunnel' = AtTunnel,
         link'.app = link.app, UNCHANGED <<FromApp, ToDest, appSent, destGot>>
  PROVE  UpInv'
<1>1. ~ServerReads' /\ (ClientReads' => Opening') /\ (Opening => ClientReads)
  BY DEF ServerReads, ClientReads
<1>2. Payload(AppData)' = Payload(AppData)
  BY DEF Payload
<1>3. UpToDest'
  BY <1>2 DEF FlowInv, UpInv, UpToDest
<1>4. UpFromApp'
  BY <1>1 DEF FlowInv, UpInv, UpFromApp
<1> QED
  BY <1>1, <1>3, <1>4 DEF UpInv, UpToServer

(* The exit node moves on towards its relay.                               *)
LEMMA UpServes ==
  ASSUME FlowInv, pc'.client = pc.client, pc.server \in Serving, pc'.server \in Serving,
         link'.app = link.app, link'.tunnel = link.tunnel,
         link'.dest # "cut" => link.dest # "cut",
         UNCHANGED <<FromApp, ToServer, ToDest, appSent, destGot>>
  PROVE  UpInv'
<1>1. (Opened' <=> Opened) /\ (Opening' <=> Opening) /\ (ServerReads' => ServerReads)
  BY DEF Opened, Opening, ServerReads
<1>2. Payload(AppData)' = Payload(AppData) /\ AtDest' = AtDest
  BY <1>1 DEF Payload, AtDest
<1>3. (ClientReads' => ClientReads) /\ AtTunnel' = AtTunnel
  BY <1>1, <1>2 DEF ClientReads, AtTunnel
<1> QED
  BY <1>1, <1>2, <1>3 DEF FlowInv, UpInv, UpToDest, UpToServer, UpFromApp

(* A task moves on and passes nothing down.                                *)
LEMMA DownMoves ==
  ASSUME FlowInv,
         \/ pc'.client = pc.client
         \/ pc.client \in {"connect"} \cup Trying /\ pc'.client \in Trying,
         pc'.server \in {"idle", "tls", "reading"} \cup Serving =>
           pc.server \in {"idle", "tls", "reading"} \cup Serving,
         pc'.server \in {"early", "relay"} <=> pc.server \in {"early", "relay"},
         link'.app = link.app,
         link'.tunnel # "cut" => link.tunnel # "cut", link'.dest # "cut" => link.dest # "cut",
         UNCHANGED <<FromDest, ToClient, ToApp, destSent, appGot>>
  PROVE  DownInv'
<1>1. /\ (Opened' <=> Opened) /\ (Opening' <=> Opening)
      /\ pc'.client = "relay" <=> pc.client = "relay"
      /\ pc'.client = "greeting" <=> pc.client = "greeting"
      /\ pc'.client = "request" <=> pc.client = "request"
      /\ pc'.client \in {"connect"} \cup Trying <=> pc.client \in {"connect"} \cup Trying
  BY DEF Opened, Opening, Trying
<1>2. Payload(DestData)' = Payload(DestData) /\ Told' = Told
  BY <1>1 DEF Payload, Told
<1>3. /\ ClientWrites' <=> ClientWrites
      /\ ServerWrites' => ServerWrites
      /\ AtClient' = AtClient
  BY <1>1, <1>2 DEF ClientWrites, ServerWrites, AtClient
<1>4. AtServer' = AtServer
  BY <1>3 DEF AtServer
<1> QED
  BY <1>1, <1>2, <1>3, <1>4 DEF FlowInv, DownInv, DownToApp, DownReplies, DownToClient, DownFromDest

-----------------------------------------------------------------------------
(* The client.                                                             *)

LEMMA TailOf ==
  ASSUME NEW w \in Seq(Msg), w # <<>>
  PROVE  Tail(w) \in Seq(Msg) /\ Len(Tail(w)) = Len(w) - 1 /\ Len(w) \in Nat
  BY HeadTailProperties, LenProperties

LEMMA AppendOf ==
  ASSUME NEW w \in Seq(Msg), NEW m \in Msg
  PROVE  Append(w, m) \in Seq(Msg) /\ Len(Append(w, m)) = Len(w) + 1 /\ Len(w) \in Nat
  BY AppendProperties, LenProperties

(* A message of SOCKS5 is read and answered.                               *)
LEMMA FlowSocks ==
  ASSUME Typed, Core, FlowInv,
         \/ pc.client = "greeting" /\ pc'.client = "request"
         \/ pc.client = "request" /\ pc'.client = "connect",
         pc'.server = pc.server,
         FromApp # <<>>, Head(FromApp) # Eof, FromApp' = Tail(FromApp),
         NEW m \in {"method", "success"}, ToApp' = Append(ToApp, m),
         UNCHANGED <<ToServer, ToDest, FromDest, ToClient, link, shut, running, ends>>
  PROVE  FlowInv'
<1>0. UNCHANGED <<appSent, destSent, appGot, destGot>>
  BY DEF ends
<1>1. /\ ~Opened /\ ~Opened' /\ Opening /\ Opening' /\ ClientReads /\ ClientReads'
      /\ ClientWrites /\ ClientWrites'
      /\ pc.server = "idle" /\ pc.client # "relay" /\ pc'.client # "relay"
  BY DEF Core, ConnectInv, Opened, Opening, ClientReads, ClientWrites
<1>2. m \in Msg /\ m # Eof
  BY Controls DEF Eof
<1>3. /\ FromApp \in Seq(Msg) /\ ToApp \in Seq(Msg) /\ AtTunnel \in Int
      /\ Len(FromApp) \in Nat /\ Len(ToApp) \in Nat /\ Len(appGot) \in Nat
      /\ Told = Len(appGot) + Len(ToApp)
  BY Flows DEF FlowInv, Told
<1>4. Len(FromApp') = Len(FromApp) - 1 /\ Len(ToApp') = Len(ToApp) + 1
  BY <1>2, <1>3, TailOf, AppendOf
<1>5. link.app # "cut"
  BY DEF FlowInv, SocketInv
<1>6. UpInv'
  <2>1. ~ServerReads' /\ Payload(AppData)' = Payload(AppData)
    BY <1>1 DEF ServerReads, Serving, Payload
  <2>2. UpToDest'
    BY <1>0, <1>1, <2>1 DEF FlowInv, UpInv, UpToDest
  <2>3. AtTunnel' = AtTunnel + 1
    BY DEF AtTunnel
  <2>4. /\ Carries(FromApp, AppData, AtTunnel)
        /\ Clean(FromApp) => AtTunnel + Len(FromApp) = appSent - 2
    BY <1>1, <1>5 DEF FlowInv, UpInv, UpFromApp
  <2>5. Carries(FromApp', AppData, AtTunnel')
    BY <1>3, <2>3, <2>4, CarriesTail
  <2>6. Clean(FromApp') => AtTunnel' + Len(FromApp') = appSent' - 2
    <3>1. Clean(FromApp') => Clean(FromApp)
      BY <1>3, CleanTail
    <3>2. AtTunnel' + Len(FromApp') = AtTunnel + Len(FromApp)
      BY <1>3, <1>4, <2>3
    <3> QED
      BY <1>0, <2>4, <3>1, <3>2
  <2> QED
    BY <2>1, <2>2, <2>5, <2>6 DEF UpInv, UpToServer, UpFromApp
<1>7. DownInv'
  <2>1. Payload(DestData)' = Payload(DestData) /\ Told' = Told + 1
    BY <1>0, <1>1, <1>3, <1>4 DEF Payload, Told
  <2>2. Clean(ToApp') => Clean(ToApp)
    BY <1>2, <1>3, CleanAppend
  <2>3. /\ Clean(ToApp) => /\ pc.client = "greeting" => Told = 0
                           /\ pc.client = "request" => Told = 1
    BY <1>5 DEF FlowInv, DownInv, DownReplies
  <2>4. DownReplies'
    BY <2>1, <2>2, <2>3 DEF DownReplies, Trying
  <2>5. DownToApp'
    <3>1. Clean(ToApp) => ~(Len(appGot) - 2 + Len(ToApp) >= 0)
      BY <1>3, <2>3
    <3>2. Carries(ToApp, Payload(DestData), Len(appGot) - 2)
      BY DEF FlowInv, DownInv, DownToApp
    <3>3. Carries(Append(ToApp, m), Payload(DestData), Len(appGot) - 2)
      BY <1>2, <1>3, <3>1, <3>2, CarriesNext
    <3> QED
      BY <1>0, <1>1, <2>1, <3>3 DEF FlowInv, DownInv, DownToApp
  <2>6. AtClient' = AtClient /\ AtServer' = AtServer
    BY <1>1 DEF AtClient, AtServer
  <2>7. DownToClient'
    BY <1>1, <2>6 DEF FlowInv, DownInv, DownToClient
  <2>8. ServerWrites' => ServerWrites
    BY <1>1 DEF ServerWrites
  <2>9. DownFromDest'
    BY <1>0, <2>6, <2>8 DEF FlowInv, DownInv, DownFromDest
  <2> QED
    BY <2>4, <2>5, <2>7, <2>9 DEF DownInv
<1>8. SocketInv'
  <2>1. \A n \in Node : Live(n)' => Live(n)
    BY <1>1 DEF Live, Node, ClientFailures, ServerFailures
  <2> QED
    BY <1>5, <2>1, SocketKeeps DEF FlowInv
<1> QED
  BY <1>0, <1>6, <1>7, <1>8 DEF FlowInv, Gots

(* Nothing of the payload is under way in a tunnel that is being opened.   *)
LEMMA FlowTries ==
  ASSUME Typed, Core, FlowInv,
         pc.client \in {"connect"} \cup Trying, pc'.client \in Trying,
         pc'.server \notin Serving,
         pc'.server = pc.server \/ (pc'.server = "tls" /\ pc.server = "idle"),
         link'.app = link.app, link'.dest = link.dest,
         link'.tunnel # "cut" => link.tunnel # "cut",
         pc.client # "connect" \/ pc'.client = "tls",
         UNCHANGED <<FromApp, ToDest, FromDest, ToClient, ToApp, shut, running, ends>>
  PROVE  FlowInv'
<1>0. UNCHANGED <<appSent, destSent, appGot, destGot>>
  BY DEF ends
<1>1. /\ ~Opened /\ ~Opened' /\ Opening /\ AtTunnel' = AtTunnel
  BY DEF Opened, Opening, Trying, AtTunnel
<1>2. UpInv'
  BY <1>0, <1>1, UpWaits
<1>3. DownInv'
  <2>1. pc'.server \in {"early", "relay"} <=> pc.server \in {"early", "relay"}
    BY DEF Serving
  <2> QED
    BY <1>0, <2>1, DownMoves
<1>4. SocketInv'
  <2>1. \A n \in Node : Live(n)' => Live(n)
    BY DEF Live, Node, ClientFailures, ServerFailures, Trying
  <2> QED
    BY <2>1, SocketKeeps DEF FlowInv, SocketInv
<1> QED
  BY <1>0, <1>2, <1>3, <1>4 DEF FlowInv, Gots

(* The reply is "ok": both payloads begin.                                 *)
LEMMA FlowOpens ==
  ASSUME Typed, Core, FlowInv, pc.client = "reply", pc'.client = "relay",
         pc'.server = pc.server,
         ToClient # <<>>, Head(ToClient) = "ok", ToClient' = Tail(ToClient),
         UNCHANGED <<FromApp, ToServer, ToDest, FromDest, ToApp, link, shut, running, ends>>
  PROVE  FlowInv'
<1>0. UNCHANGED <<appSent, destSent, appGot, destGot>>
  BY DEF ends
<1>1. /\ ~Opened /\ Opened' /\ Opening /\ ~Opening' /\ ClientReads /\ ClientWrites
      /\ AtTunnel = 0 /\ AtClient = -1
  BY DEF Opened, Opening, Trying, ClientReads, ClientWrites, AtTunnel, AtClient
<1>2. pc.server \in {"early", "relay", "closed", "lost", "killed"}
  BY DEF Core, ReplyInv, Judged, Trying
<1>3. /\ FromApp \in Seq(Msg) /\ ToServer \in Seq(Msg) /\ ToDest \in Seq(Msg)
      /\ ToApp \in Seq(Msg) /\ ToClient \in Seq(Msg)
      /\ Len(ToClient) \in Nat /\ AtDest \in Nat /\ Len(appGot) \in Nat /\ Told \in Nat
  BY Flows DEF FlowInv
<1>4. Head(ToClient) # Eof
  BY DEF Eof
<1>5. /\ Payload(AppData) = <<>> /\ Payload(AppData)' = AppData
      /\ Payload(DestData) = <<>> /\ Payload(DestData)' = DestData
  BY <1>1 DEF Payload
<1>6. UpInv'
  <2>1. destGot = <<>> /\ Len(destGot) = 0 /\ Carries(ToDest, <<>>, 0)
    BY <1>1, <1>5, EmptySeq DEF FlowInv, UpInv, UpToDest
  <2>2. Carries(ToDest, AppData, 0) /\ (Clean(ToDest) => ToDest = <<>>)
    BY <1>3, <2>1, CarriesNothing
  <2>3. UpToDest'
    BY <1>0, <1>1, <1>5, <2>1, <2>2 DEF UpToDest
  <2>4. (ServerReads' <=> ServerReads) /\ AtDest' = AtDest
    BY <1>0 DEF ServerReads, AtDest
  <2>5. ServerReads => /\ Carries(ToServer, AppData, AtDest)
                       /\ Clean(ToServer) => ToServer = <<>>
    BY <1>3, <1>5, CarriesNothing DEF FlowInv, UpInv, UpToServer
  <2>6. UpToServer'
    BY <1>5, <2>4, <2>5 DEF UpToServer
  <2>7. ClientReads' => AtTunnel' = AtTunnel
    <3> SUFFICES ASSUME ClientReads' PROVE AtTunnel' = AtTunnel
      OBVIOUS
    <3>1. ServerReads /\ Clean(ToServer) /\ Clean(ToDest)
      BY <1>1, <2>4 DEF ClientReads, ServerReads
    <3>2. Len(ToServer) = 0 /\ Len(ToDest) = 0
      BY <2>2, <2>5, <3>1, EmptySeq
    <3>3. AtDest' = 0 /\ Len(ToServer') = 0
      BY <2>1, <2>4, <3>2 DEF AtDest
    <3> QED
      BY <1>1, <3>3 DEF AtTunnel
  <2>8. UpFromApp'
    BY <1>0, <1>1, <2>7 DEF FlowInv, UpInv, UpFromApp
  <2> QED
    BY <2>3, <2>6, <2>8 DEF UpInv
<1>7. DownInv'
  <2>1. Carries(ToApp, DestData, Len(appGot) - 2)
    BY <1>3, <1>5, CarriesNothing DEF FlowInv, DownInv, DownToApp
  <2>2. DownToApp'
    BY <1>0, <1>1, <1>5, <2>1 DEF DownToApp
  <2>3. DownReplies'
    BY DEF DownReplies, Trying
  <2>4. ClientWrites' => AtClient' = AtClient + 1
    <3>1. ClientWrites' => Told = 2
      BY <1>1 DEF FlowInv, DownInv, DownReplies, ClientWrites, Trying
    <3>2. Told' = Told
      BY <1>0 DEF Told
    <3> QED
      BY <1>1, <3>1, <3>2 DEF AtClient
  <2>5. Carries(ToClient', DestData, AtClient + 1)
    BY <1>1, <1>3, <1>4, CarriesTail DEF FlowInv, DownInv, DownToClient
  <2>6. DownToClient'
    BY <2>4, <2>5 DEF DownToClient
  <2>7. Len(ToClient') = Len(ToClient) - 1
    BY <1>3, TailOf
  <2>8. ServerWrites' => ServerWrites
    BY <1>1, <1>3, <1>4, CleanTail DEF ServerWrites
  <2>9. ServerWrites' => AtServer' = AtServer
    <3> SUFFICES ASSUME ServerWrites' PROVE AtServer' = AtServer
      OBVIOUS
    <3>1. pc.server \in {"early", "relay"} /\ AtClient' = AtClient + 1
      BY <1>2, <2>4 DEF ServerWrites, Serving
    <3> QED
      BY <1>1, <1>3, <2>7, <3>1 DEF AtServer
  <2>10. DownFromDest'
    BY <1>0, <2>8, <2>9 DEF FlowInv, DownInv, DownFromDest
  <2> QED
    BY <2>2, <2>3, <2>6, <2>10 DEF DownInv
<1>8. SocketInv'
  <2>1. \A n \in Node : Live(n)' => Live(n)
    BY DEF Live, Node, ClientFailures, ServerFailures
  <2> QED
    BY <2>1, SocketKeeps DEF FlowInv, SocketInv
<1> QED
  BY <1>0, <1>6, <1>7, <1>8 DEF FlowInv, Gots

LEMMA FlowClientQuits ==
  ASSUME Typed, FlowInv, NEW how, Leaving(how), Return("client", how, wire),
         UNCHANGED <<link, running, ends>>
  PROVE  FlowInv'
<1>1. wire \in Wires
  BY DEF Typed, Moved
<1>2. /\ wire[TunUp] = ToServer /\ wire[DestUp] = ToDest
      /\ link.app = "cut" => wire[AppUp] = <<>>
      /\ Carries(wire[AppDown], Payload(DestData), Len(appGot) - 2)
  BY DEF ToServer, ToDest, FromApp, ToApp, FlowInv, SocketInv, DownInv, DownToApp
<1> QED
  BY <1>1, <1>2, FlowClientEnds

LEMMA FlowGreets ==
  ASSUME Typed, Core, FlowInv, ReadGreeting
  PROVE  FlowInv'
<1>1. wire \in Wires /\ AppUp \in Half /\ AppDown \in Half /\ AppUp # AppDown
  BY Six DEF Typed, Moved
<1>2. CASE /\ Arrives(AppUp, "greeting")
           /\ Goto("client", "request", Put(AppDown, <<"method">>, Take(AppUp, wire)))
  <2> DEFINE w == Put(AppDown, <<"method">>, Take(AppUp, wire))
  <2>1. FromApp # <<>> /\ Head(FromApp) # Eof /\ wire[AppUp] # <<>> /\ "method" \in Msg
    BY <1>2, Controls DEF Arrives, FromApp, Eof
  <2>2. /\ w \in Wires
        /\ w[AppUp] = Tail(wire[AppUp]) /\ w[AppDown] = Append(wire[AppDown], "method")
        /\ \A f \in Half \ {AppUp, AppDown} : w[f] = wire[f]
    BY <1>1, <2>1, Passed
  <2>3. wire' = w /\ shut' = shut /\ pc' = [pc EXCEPT !["client"] = "request"]
    BY <1>2 DEF Goto
  <2> HIDE DEF w
  <2>4. /\ FromApp' = Tail(FromApp) /\ ToApp' = Append(ToApp, "method")
        /\ UNCHANGED <<ToServer, ToDest, FromDest, ToClient>>
    BY <2>2, <2>3, Six DEF FromApp, ToServer, ToDest, FromDest, ToClient, ToApp
  <2>5. pc'.client = "request" /\ pc'.server = pc.server
    BY <2>3, PcMoves
  <2> QED
    BY <2>1, <2>3, <2>4, <2>5, FlowSocks DEF ReadGreeting
<1>3. CASE Return("client", "socksError", wire)
  BY <1>3, FlowClientQuits DEF ReadGreeting, Leaving, Opening, ClientFailures
<1> QED
  BY <1>2, <1>3 DEF ReadGreeting

LEMMA FlowRequests ==
  ASSUME Typed, Core, FlowInv, ReadRequest
  PROVE  FlowInv'
<1>1. wire \in Wires /\ AppUp \in Half /\ AppDown \in Half /\ AppUp # AppDown
  BY Six DEF Typed, Moved
<1>2. ASSUME NEW r \in {"short", "long"}, Arrives(AppUp, r),
             Goto("client", "connect", Put(AppDown, <<"success">>, Take(AppUp, wire)))
      PROVE  FlowInv'
  <2> DEFINE w == Put(AppDown, <<"success">>, Take(AppUp, wire))
  <2>1. FromApp # <<>> /\ Head(FromApp) # Eof /\ wire[AppUp] # <<>> /\ "success" \in Msg
    BY <1>2, Controls DEF Arrives, FromApp, Eof
  <2>2. /\ w \in Wires
        /\ w[AppUp] = Tail(wire[AppUp]) /\ w[AppDown] = Append(wire[AppDown], "success")
        /\ \A f \in Half \ {AppUp, AppDown} : w[f] = wire[f]
    BY <1>1, <2>1, Passed
  <2>3. wire' = w /\ shut' = shut /\ pc' = [pc EXCEPT !["client"] = "connect"]
    BY <1>2 DEF Goto
  <2> HIDE DEF w
  <2>4. /\ FromApp' = Tail(FromApp) /\ ToApp' = Append(ToApp, "success")
        /\ UNCHANGED <<ToServer, ToDest, FromDest, ToClient>>
    BY <2>2, <2>3, Six DEF FromApp, ToServer, ToDest, FromDest, ToClient, ToApp
  <2>5. pc'.client = "connect" /\ pc'.server = pc.server
    BY <2>3, PcMoves
  <2> QED
    BY <2>1, <2>3, <2>4, <2>5, FlowSocks DEF ReadRequest
<1>3. CASE Arrives(AppUp, "unsupported")
           /\ Return("client", "socksError", Put(AppDown, <<"refused">>, wire))
  <2> DEFINE w == Put(AppDown, <<"refused">>, wire)
  <2>0. "refused" \in Msg /\ "refused" # Eof /\ pc.client = "request"
    BY Controls DEF Eof, ReadRequest
  <2>1. /\ w \in Wires /\ w[AppDown] = Append(ToApp, "refused")
        /\ \A f \in Half \ {AppDown} : w[f] = wire[f]
    BY <1>1, <2>0, PutOne DEF ToApp
  <2>2. Return("client", "socksError", w)
    BY <1>3
  <2> HIDE DEF w
  <2>3. w[TunUp] = ToServer /\ w[DestUp] = ToDest /\ w[AppUp] = FromApp
    BY <2>1, Six DEF ToServer, ToDest, FromApp
  <2>4. link.app # "cut"
    BY <1>3 DEF FlowInv, SocketInv, Arrives, FromApp
  <2>5. Carries(Append(ToApp, "refused"), Payload(DestData), Len(appGot) - 2)
    <3>1. Clean(ToApp) => Told = 1
      BY <2>0, <2>4 DEF FlowInv, DownInv, DownReplies
    <3>2. ToApp \in Seq(Msg) /\ Len(appGot) \in Nat /\ Len(ToApp) \in Nat
      BY Flows DEF FlowInv
    <3>3. Clean(ToApp) => ~(Len(appGot) - 2 + Len(ToApp) >= 0)
      BY <3>1, <3>2 DEF Told
    <3>4. Carries(ToApp, Payload(DestData), Len(appGot) - 2)
      BY DEF FlowInv, DownInv, DownToApp
    <3> QED
      BY <2>0, <3>2, <3>3, <3>4, CarriesNext
  <2>6. Leaving("socksError")
    BY <2>0 DEF Leaving, Opening, ClientFailures
  <2>7. UNCHANGED <<link, running, ends>>
    BY DEF ReadRequest
  <2> QED
    BY <2>1, <2>2, <2>3, <2>4, <2>5, <2>6, <2>7, FlowClientEnds
<1>4. CASE Return("client", "socksError", wire)
  BY <1>4, FlowClientQuits DEF ReadRequest, Leaving, Opening, ClientFailures
<1> QED
  BY <1>2, <1>3, <1>4 DEF ReadRequest

LEMMA FlowDials ==
  ASSUME Typed, Core, FlowInv, ConnectServer \/ ConnectTls \/ SendHeader
  PROVE  FlowInv'
<1>0. wire \in Wires /\ TunUp \in Half
      /\ pc.client \in {"connect"} \cup Trying /\ UNCHANGED <<running, ends>>
  BY Six DEF Typed, Moved, Trying, ConnectServer, ConnectTls, SendHeader
<1>1. ASSUME NEW how \in ClientFailures, Return("client", how, wire), UNCHANGED link
      PROVE  FlowInv'
  BY <1>0, <1>1, FlowClientQuits DEF Leaving, Opening
<1>2. ASSUME NEW there \in Trying, NEW ms \in Seq(Msg),
             Goto("client", there, Put(TunUp, ms, wire)), UNCHANGED link,
             pc.client \in Trying, pc.server \notin Serving
      PROVE  FlowInv'
  <2> DEFINE w == Put(TunUp, ms, wire)
  <2>1. \A f \in Half \ {TunUp} : w[f] = wire[f]
    BY <1>0, PutType
  <2>2. wire' = w /\ shut' = shut /\ pc' = [pc EXCEPT !["client"] = there]
    BY <1>2 DEF Goto
  <2> HIDE DEF w
  <2>3. UNCHANGED <<FromApp, ToDest, FromDest, ToClient, ToApp>>
    BY <2>1, <2>2, Six DEF FromApp, ToDest, FromDest, ToClient, ToApp
  <2>4. pc'.client = there /\ pc'.server = pc.server
    BY <2>2, PcMoves
  <2>5. pc.client # "connect"
    BY <1>2 DEF Trying
  <2>6. pc'.client \in Trying /\ pc'.server \notin Serving
    BY <1>2, <2>4
  <2> QED
    BY <1>0, <1>2, <2>2, <2>3, <2>4, <2>5, <2>6, FlowTries
<1>3. CASE ConnectServer
  <2>1. CASE /\ link' = [link EXCEPT !.tunnel = "open"]
             /\ pc' = [client |-> "tls", server |-> "tls"] /\ UNCHANGED <<wire, shut>>
    <3>1. pc.server = "idle" /\ link.tunnel = "closed"
      BY <1>3 DEF Core, ConnectInv, ConnectServer
    <3>2. link'.app = link.app /\ link'.dest = link.dest
      BY <2>1, Links DEF Typed
    <3>3. UNCHANGED <<FromApp, ToDest, FromDest, ToClient, ToApp>>
      BY <2>1 DEF FromApp, ToDest, FromDest, ToClient, ToApp
    <3>4. pc'.client = "tls" /\ pc'.server = "tls" /\ pc'.server \notin Serving /\ "tls" \in Trying
      BY <2>1 DEF Serving, Trying
    <3> QED
      BY <1>0, <2>1, <3>1, <3>2, <3>3, <3>4, FlowTries
  <2> QED
    BY <1>1, <1>3, <2>1 DEF ConnectServer, ClientFailures
<1>4. CASE ConnectTls
  <2>1. pc.client \in Trying /\ pc.server \notin Serving /\ "header" \in Trying
    BY <1>4 DEF Core, SendInv, ConnectTls, Trying, Serving
  <2>2. <<"finished">> \in Seq(Msg)
    BY Controls
  <2> QED
    BY <1>1, <1>2, <1>4, <2>1, <2>2 DEF ConnectTls, ClientFailures
<1>5. CASE SendHeader
  <2>1. pc.client \in Trying /\ pc.server \notin Serving /\ AfterHeader \in Trying
    BY <1>5 DEF Core, SendInv, SendHeader, Trying, Serving, AfterHeader
  <2> QED
    BY <1>1, <1>2, <1>5, <2>1, Controls DEF SendHeader, ClientFailures
<1> QED
  BY <1>3, <1>4, <1>5

LEMMA FlowAwaits ==
  ASSUME Typed, Core, FlowInv, AwaitReply
  PROVE  FlowInv'
<1>0. /\ wire \in Wires /\ TunDown \in Half /\ pc.client = "reply"
      /\ UNCHANGED <<link, running, ends>>
      /\ \A how \in ClientFailures : Leaving(how)
  BY Six DEF Typed, Moved, AwaitReply, Leaving, Opening, Trying
<1>1. ASSUME NEW r \in {"ok", "authFail", "dialFail"}, Arrives(TunDown, r),
             IF r \in AcceptingReply THEN Goto("client", "relay", Take(TunDown, wire))
                                     ELSE Return("client", r, Take(TunDown, wire))
      PROVE  FlowInv'
  <2> DEFINE w == Take(TunDown, wire)
  <2>1. ToClient # <<>> /\ Head(ToClient) = r /\ wire[TunDown] # <<>>
    BY <1>1 DEF Arrives, ToClient
  <2>2. /\ w \in Wires /\ w[TunDown] = Tail(wire[TunDown])
        /\ \A g \in Half \ {TunDown} : w[g] = wire[g]
    BY <1>0, <2>1, TakeType
  <2>3. \/ r = "ok" /\ Goto("client", "relay", w)
        \/ r \in ClientFailures /\ Return("client", r, w)
    BY <1>1 DEF AcceptingReply, ClientFailures
  <2> HIDE DEF w
  <2>4. CASE r = "ok" /\ Goto("client", "relay", w)
    <3>1. wire' = w /\ shut' = shut /\ pc' = [pc EXCEPT !["client"] = "relay"]
      BY <2>4 DEF Goto
    <3>2. /\ ToClient' = Tail(ToClient)
          /\ UNCHANGED <<FromApp, ToServer, ToDest, FromDest, ToApp>>
      BY <2>2, <3>1, Six DEF FromApp, ToServer, ToDest, FromDest, ToApp, ToClient
    <3>3. pc'.client = "relay" /\ pc'.server = pc.server
      BY <3>1, PcMoves
    <3> QED
      BY <1>0, <2>1, <2>4, <3>1, <3>2, <3>3, FlowOpens
  <2>5. CASE r \in ClientFailures /\ Return("client", r, w)
    <3>1. w[TunUp] = ToServer /\ w[DestUp] = ToDest /\ w[AppUp] = FromApp /\ w[AppDown] = ToApp
      BY <2>2, Six DEF ToServer, ToDest, FromApp, ToApp
    <3>2. /\ link.app = "cut" => w[AppUp] = <<>>
          /\ Carries(w[AppDown], Payload(DestData), Len(appGot) - 2)
      BY <3>1 DEF FlowInv, SocketInv, DownInv, DownToApp
    <3> QED
      BY <1>0, <2>2, <2>5, <3>1, <3>2, FlowClientEnds
  <2> QED
    BY <2>3, <2>4, <2>5
<1>2. CASE Return("client", "ioError", wire)
  BY <1>0, <1>2, FlowClientQuits DEF ClientFailures
<1> QED
  BY <1>1, <1>2 DEF AwaitReply

-----------------------------------------------------------------------------
(* The exit node.                                                          *)

LEMMA NotOpen ==
  ASSUME Core, pc.server \in {"idle", "tls", "reading", "dialing", "dialed"}
  PROVE  ~Opened /\ ToClient = <<>>
  BY DEF Core, ReplyInv, VerdictInv, Judged

LEMMA FlowServerQuits ==
  ASSUME Typed, FlowInv, NEW how \in ServerFailures \cup {"closed"},
         Return("server", how, wire), UNCHANGED <<link, running, ends>>
  PROVE  FlowInv'
<1>1. wire \in Wires
  BY DEF Typed, Moved
<1>2. /\ wire[AppUp] = FromApp /\ wire[DestUp] = ToDest /\ wire[AppDown] = ToApp
      /\ ClientWrites => Carries(wire[TunDown], DestData, AtClient)
  BY DEF FromApp, ToDest, ToApp, ToClient, FlowInv, DownInv, DownToClient
<1> QED
  BY <1>1, <1>2, FlowServerEnds

(* The exit node's reply comes before any payload.                         *)
LEMMA Replied ==
  ASSUME ToClient = <<>>, ~Opened, NEW m \in Msg
  PROVE  AtClient = -1 /\ Carries(Append(ToClient, m), DestData, AtClient)
<1>1. AtClient = -1
  BY DEF Opened, AtClient
<1>2. <<>> \in Seq(Msg) /\ Len(<<>>) = 0 /\ ~(-1 + 0 >= 0) /\ -1 \in Int
  BY EmptySeq
<1>3. Carries(<<>>, DestData, -1)
  BY <1>2, CarriesEmpty
<1>4. Carries(Append(<<>>, m), DestData, -1)
  BY <1>2, <1>3, CarriesNext
<1> QED
  BY <1>1, <1>4

LEMMA FlowAccepts ==
  ASSUME Typed, Core, FlowInv, pc.server \in {"tls", "reading"},
         pc'.server = "reading", pc'.client = pc.client,
         UNCHANGED <<FromApp, ToDest, FromDest, ToClient, ToApp, link, shut, running, ends>>
  PROVE  FlowInv'
<1>0. UNCHANGED <<appSent, destSent, appGot, destGot>>
  BY DEF ends
<1>1. /\ ~Opened /\ (Opened' <=> Opened) /\ (Opening' <=> Opening)
      /\ Opening => AtTunnel' = AtTunnel
      /\ pc'.server \notin Serving
  BY NotOpen DEF Opened, Opening, Trying, AtTunnel, Serving
<1>2. UpInv'
  BY <1>0, <1>1, UpWaits
<1>3. DownInv'
  BY <1>0, DownMoves
<1>4. SocketInv'
  <2>1. \A n \in Node : Live(n)' => Live(n)
    BY DEF Live, Node, ClientFailures, ServerFailures
  <2> QED
    BY <2>1, SocketKeeps DEF FlowInv, SocketInv
<1> QED
  BY <1>0, <1>2, <1>3, <1>4 DEF FlowInv, Gots

(* The header is complete: a client sends nothing behind it before it has  *)
(* its reply.                                                              *)
LEMMA FlowReads ==
  ASSUME Typed, Core, FlowInv, pc.server = "reading", pc'.server = "dialing",
         pc'.client = pc.client, Carries(ToServer', <<>>, AtDest),
         UNCHANGED <<FromApp, ToDest, FromDest, ToClient, ToApp, link, shut, running, ends>>
  PROVE  FlowInv'
<1>0. UNCHANGED <<appSent, destSent, appGot, destGot>>
  BY DEF ends
<1>1. ~Opened /\ ~Opened' /\ (Opening' <=> Opening) /\ pc.client # "relay"
  BY NotOpen DEF Opened, Opening
<1>2. UpInv'
  <2>1. /\ Payload(AppData) = <<>> /\ Payload(AppData)' = <<>> /\ AtDest' = AtDest
        /\ ClientReads' => Opening /\ ClientReads /\ AtTunnel' = AtTunnel
    BY <1>0, <1>1 DEF Payload, AtDest, ClientReads, AtTunnel
  <2> QED
    BY <1>0, <1>1, <2>1 DEF FlowInv, UpInv, UpToDest, UpToServer, UpFromApp
<1>3. DownInv'
  <2>1. /\ pc'.server \in {"idle", "tls", "reading"} \cup Serving
        /\ pc.server \in {"idle", "tls", "reading"} \cup Serving
    BY DEF Serving
  <2> QED
    BY <1>0, <2>1, DownMoves
<1>4. SocketInv'
  <2>1. \A n \in Node : Live(n)' => Live(n)
    BY DEF Live, Node, ClientFailures, ServerFailures
  <2> QED
    BY <2>1, SocketKeeps DEF FlowInv, SocketInv
<1> QED
  BY <1>0, <1>2, <1>3, <1>4 DEF FlowInv, Gots

(* The destination is dialed, or the relay begins.                         *)
LEMMA FlowServes ==
  ASSUME Typed, FlowInv, pc.server \in Serving, pc'.server \in Serving,
         pc'.server \in {"early", "relay"} <=> pc.server \in {"early", "relay"},
         pc'.client = pc.client,
         link'.app = link.app, link'.tunnel = link.tunnel,
         link'.dest # "cut" => link.dest # "cut",
         UNCHANGED <<FromApp, ToServer, ToDest, FromDest, ToClient, ToApp, shut, running, ends>>
  PROVE  FlowInv'
<1>0. UNCHANGED <<appSent, destSent, appGot, destGot>>
  BY DEF ends
<1>1. UpInv'
  BY <1>0, UpServes
<1>2. DownInv'
  BY <1>0, DownMoves
<1>3. SocketInv'
  <2>1. \A n \in Node : Live(n)' => Live(n)
    BY DEF Live, Node, ClientFailures, ServerFailures, Serving
  <2> QED
    BY <2>1, SocketKeeps DEF FlowInv, SocketInv
<1> QED
  BY <1>0, <1>1, <1>2, <1>3 DEF FlowInv, Gots

(* The reply "ok" goes out, and the payload may follow it.                 *)
LEMMA FlowAnswers ==
  ASSUME Typed, Core, FlowInv, pc.server = "dialed", pc'.server = "early",
         pc'.client = pc.client, ToClient' = Append(ToClient, "ok"),
         UNCHANGED <<FromApp, ToServer, ToDest, FromDest, ToApp, link, shut, running, ends>>
  PROVE  FlowInv'
<1>0. UNCHANGED <<appSent, destSent, appGot, destGot>>
  BY DEF ends
<1>1. /\ ~Opened /\ ToClient = <<>> /\ ToClient \in Seq(Msg) /\ Len(ToClient) = 0
      /\ (Opened' <=> Opened) /\ (Opening' <=> Opening)
      /\ pc.server \in Serving /\ pc'.server \in Serving
  BY NotOpen, EmptySeq DEF Opened, Opening, Serving
<1>2. UpInv'
  BY <1>0, <1>1, UpServes
<1>3. DownInv'
  <2>1. /\ (ClientWrites' <=> ClientWrites) /\ Told' = Told
        /\ Payload(DestData)' = Payload(DestData) /\ AtClient' = AtClient
    BY <1>0, <1>1 DEF ClientWrites, Told, Payload, AtClient
  <2>2. "ok" \in Msg
    BY Controls
  <2>3. AtClient = -1 /\ Carries(ToClient', DestData, AtClient)
    BY <1>1, <2>2, Replied
  <2>4. ServerWrites' => ServerWrites
    BY <1>1, <2>1, CarriesEmpty DEF ServerWrites
  <2>5. AtServer = 0 /\ AtServer' = 0
    <3>1. Len(ToClient') = 1
      BY <1>1, <2>2, AppendOf
    <3> QED
      BY <2>1, <2>3, <3>1 DEF AtServer
  <2> QED
    BY <1>0, <1>1, <2>1, <2>3, <2>4, <2>5
    DEF FlowInv, DownInv, DownToApp, DownReplies, DownToClient, DownFromDest
<1>4. SocketInv'
  <2>1. \A n \in Node : Live(n)' => Live(n)
    BY DEF Live, Node, ClientFailures, ServerFailures
  <2> QED
    BY <2>1, SocketKeeps DEF FlowInv, SocketInv
<1> QED
  BY <1>0, <1>2, <1>3, <1>4 DEF FlowInv, Gots

LEMMA FlowHeader ==
  ASSUME Typed, Core, FlowInv, ReadHeader
  PROVE  FlowInv'
<1>0. /\ wire \in Wires /\ TunUp \in Half /\ TunDown \in Half
      /\ pc.server = "reading" /\ UNCHANGED <<link, running, ends>>
  BY Six DEF Typed, Moved, ReadHeader
<1>1. ASSUME NEW k \in 1..Len(wire[TunUp]), NEW rest, NEW result,
             ~ReadsNothing(SubSeq(wire[TunUp], 1, k)[k]),
             rest = [wire EXCEPT ![TunUp] = SubSeq(@, k + 1, Len(@))],
             result = ParseResult(buf \o SubSeq(wire[TunUp], 1, k)),
             CASE result = "truncated" -> Goto("server", "reading", rest)
               [] result = "valid" -> Goto("server", "dialing", rest)
               [] OTHER -> Return("server", result, Put(TunDown, <<"authFail">>, rest))
      PROVE  FlowInv'
  <2> DEFINE got == SubSeq(ToServer, 1, k)
             left == SubSeq(ToServer, k + 1, Len(ToServer))
  <2>1. /\ rest \in Wires /\ rest[TunUp] = left
        /\ \A f \in Half \ {TunUp} : rest[f] = wire[f]
    <3>1. ToServer \in Seq(Msg)
      BY <1>0 DEF Wires, ToServer
    <3>2. left \in Seq(Msg)
      BY <1>1, <3>1, SubSeqProperties, ElementOfSeq, LenProperties DEF ToServer
    <3> QED
      BY <1>0, <1>1, <3>2 DEF Wires, ToServer
  <2>2. result \in {"truncated", "valid", "tooLong", "badMac", "stale"}
    BY <1>1 DEF ParseResult
  <2>3. /\ rest[AppUp] = FromApp /\ rest[DestUp] = ToDest /\ rest[DestDown] = FromDest
        /\ rest[TunDown] = ToClient /\ rest[AppDown] = ToApp
    BY <2>1, Six DEF FromApp, ToDest, FromDest, ToClient, ToApp
  <2>4. ASSUME NEW where, Goto("server", where, rest)
        PROVE  /\ pc'.server = where /\ pc'.client = pc.client /\ ToServer' = left
               /\ UNCHANGED <<FromApp, ToDest, FromDest, ToClient, ToApp, shut>>
    <3>1. wire' = rest /\ shut' = shut /\ pc' = [pc EXCEPT !["server"] = where]
      BY <2>4 DEF Goto
    <3> QED
      BY <2>1, <2>3, <3>1, PcMoves DEF ToServer, FromApp, ToDest, FromDest, ToClient, ToApp
  <2>5. CASE result = "truncated"
    <3>1. Goto("server", "reading", rest)
      BY <1>1, <2>5
    <3> QED
      BY <1>0, <2>4, <3>1, FlowAccepts
  <2>6. CASE result = "valid"
    <3>1. Goto("server", "dialing", rest)
      BY <1>1, <2>6
    <3>2. /\ Len(buf \o got) \in Nat /\ Len(buf \o got) <= 3
          /\ StreamFrom(left, 1 + Len(buf \o got))
      BY <1>0, <1>1, ReadsOn DEF ToServer
    <3>3. Len(buf \o got) = 3
      <4>1. ParseResult(buf \o got) = "valid"
        BY <1>1, <2>6 DEF ToServer
      <4> HIDE DEF got
      <4>2. ~(Len(buf \o got) < 2) /\ Len(buf \o got) # 2
        BY <3>2, <4>1 DEF ParseResult
      <4> QED
        BY <3>2, <4>2
    <3>4. Carries(left, <<>>, AtDest)
      <4> SUFFICES ASSUME NEW j \in 1..Len(left), \A i \in 1..j : left[i] # Eof PROVE FALSE
        BY DEF Carries
      <4>1. Len(left) \in Nat /\ StreamFrom(left, 4)
        BY <2>1, <3>2, <3>3, Flows, LenProperties DEF Wires
      <4>2. left[j] # Eof
        BY <4>1
      <4> HIDE DEF left
      <4> QED
        BY <4>1, <4>2 DEF StreamFrom
    <3> QED
      BY <1>0, <2>4, <3>1, <3>4, FlowReads
  <2>7. CASE result \in {"tooLong", "badMac", "stale"}
    <3> DEFINE w == Put(TunDown, <<"authFail">>, rest)
    <3>1. Return("server", result, w) /\ result \in ServerFailures
      BY <1>1, <2>7 DEF ServerFailures
    <3>2. "authFail" \in Msg
      BY Controls
    <3>3. /\ w \in Wires /\ w[TunDown] = Append(ToClient, "authFail")
          /\ \A f \in Half \ {TunDown} : w[f] = rest[f]
      BY <1>0, <2>1, <2>3, <3>2, PutOne
    <3> HIDE DEF w
    <3>4. w[AppUp] = FromApp /\ w[DestUp] = ToDest /\ w[AppDown] = ToApp
      BY <2>3, <3>3, Six
    <3>5. Carries(w[TunDown], DestData, AtClient)
      BY <1>0, <3>2, <3>3, NotOpen, Replied
    <3> QED
      BY <1>0, <3>1, <3>3, <3>4, <3>5, FlowServerEnds
  <2> QED
    BY <2>2, <2>5, <2>6, <2>7
<1>2. CASE Return("server", "lost", wire)
  BY <1>0, <1>2, FlowServerQuits DEF ServerFailures
<1> QED
  BY <1>1, <1>2 DEF ReadHeader

LEMMA FlowServer ==
  ASSUME Typed, Core, FlowInv, Server
  PROVE  FlowInv'
<1>0. wire \in Wires /\ TunUp \in Half /\ TunDown \in Half
      /\ "lost" \in ServerFailures /\ "unreachable" \in ServerFailures
  BY Six DEF Typed, Moved, ServerFailures
<1>1. CASE AcceptTls
  <2>0. pc.server = "tls" /\ UNCHANGED <<link, running, ends>>
    BY <1>1 DEF AcceptTls
  <2>1. CASE Arrives(TunUp, "finished") /\ Goto("server", "reading", Take(TunUp, wire))
    <3>1. wire[TunUp] # <<>>
      BY <2>1 DEF Arrives
    <3>2. \A f \in Half \ {TunUp} : Take(TunUp, wire)[f] = wire[f]
      BY <1>0, <3>1, TakeType
    <3>3. /\ wire' = Take(TunUp, wire) /\ shut' = shut
          /\ pc' = [pc EXCEPT !["server"] = "reading"]
      BY <2>1 DEF Goto
    <3>4. UNCHANGED <<FromApp, ToDest, FromDest, ToClient, ToApp>>
      BY <3>2, <3>3, Six DEF FromApp, ToDest, FromDest, ToClient, ToApp
    <3>5. pc'.server = "reading" /\ pc'.client = pc.client
      BY <3>3, PcMoves
    <3> QED
      BY <2>0, <3>3, <3>4, <3>5, FlowAccepts
  <2>2. CASE Return("server", "lost", wire)
    BY <1>0, <2>0, <2>2, FlowServerQuits
  <2> QED
    BY <1>1, <2>1, <2>2 DEF AcceptTls
<1>2. CASE ReadHeader
  BY <1>2, FlowHeader
<1>3. CASE Dial
  <2>0. pc.server = "dialing" /\ UNCHANGED <<running, ends>> /\ link.dest = "closed"
    BY <1>3 DEF Dial, Core, DialInv
  <2>1. CASE link' = [link EXCEPT !.dest = "open"] /\ Goto("server", "dialed", wire)
    <3>1. wire' = wire /\ shut' = shut /\ pc' = [pc EXCEPT !["server"] = "dialed"]
      BY <2>1 DEF Goto
    <3>2. pc'.server = "dialed" /\ pc'.client = pc.client
      BY <3>1, PcMoves
    <3>3. link'.app = link.app /\ link'.tunnel = link.tunnel /\ link.dest # "cut"
      BY <2>0, <2>1, Links DEF Typed
    <3>4. UNCHANGED <<FromApp, ToServer, ToDest, FromDest, ToClient, ToApp>>
      BY <3>1 DEF FromApp, ToServer, ToDest, FromDest, ToClient, ToApp
    <3>5. pc.server \in Serving /\ pc'.server \in Serving
      BY <2>0, <3>2 DEF Serving
    <3> QED
      BY <2>0, <3>1, <3>2, <3>3, <3>4, <3>5, FlowServes
  <2>2. CASE DialFailed /\ UNCHANGED link
    <3> DEFINE w == IF Up(TunDown) THEN Put(TunDown, <<"dialFail">>, wire) ELSE wire
    <3>1. Return("server", "unreachable", w)
      BY <2>2 DEF DialFailed
    <3>2. "dialFail" \in Msg
      BY Controls
    <3>3. /\ w \in Wires /\ w[TunDown] \in {ToClient, Append(ToClient, "dialFail")}
          /\ \A f \in Half \ {TunDown} : w[f] = wire[f]
      BY <1>0, <3>2, PutOne DEF ToClient
    <3> HIDE DEF w
    <3>4. w[AppUp] = FromApp /\ w[DestUp] = ToDest /\ w[AppDown] = ToApp
      BY <3>3, Six DEF FromApp, ToDest, ToApp
    <3>5. ClientWrites => Carries(w[TunDown], DestData, AtClient)
      BY <2>0, <3>2, <3>3, NotOpen, Replied DEF FlowInv, DownInv, DownToClient
    <3> QED
      BY <1>0, <2>0, <2>2, <3>1, <3>3, <3>4, <3>5, FlowServerEnds
  <2> QED
    BY <1>3, <2>1, <2>2 DEF Dial
<1>4. CASE SendOk
  <2>0. pc.server = "dialed" /\ UNCHANGED <<link, running, ends>> /\ "ok" \in Msg
    BY <1>4, Controls DEF SendOk
  <2>1. CASE Goto("server", "early", Put(TunDown, <<"ok">>, wire))
    <3> DEFINE w == Put(TunDown, <<"ok">>, wire)
    <3>1. w[TunDown] = Append(wire[TunDown], "ok") /\ \A f \in Half \ {TunDown} : w[f] = wire[f]
      BY <1>0, <2>0, PutOne
    <3>2. wire' = w /\ shut' = shut /\ pc' = [pc EXCEPT !["server"] = "early"]
      BY <2>1 DEF Goto
    <3> HIDE DEF w
    <3>3. /\ ToClient' = Append(ToClient, "ok")
          /\ UNCHANGED <<FromApp, ToServer, ToDest, FromDest, ToApp>>
      BY <3>1, <3>2, Six DEF FromApp, ToServer, ToDest, FromDest, ToClient, ToApp
    <3>4. pc'.server = "early" /\ pc'.client = pc.client
      BY <3>2, PcMoves
    <3> QED
      BY <2>0, <3>2, <3>3, <3>4, FlowAnswers
  <2>2. CASE Return("server", "lost", wire)
    BY <1>0, <2>0, <2>2, FlowServerQuits
  <2> QED
    BY <1>4, <2>1, <2>2 DEF SendOk
<1>5. CASE ForwardEarly
  <2> DEFINE leftover == SubSeq(buf, Len(Header) + 1, Len(buf))
  <2>0. pc.server = "early" /\ UNCHANGED <<link, running, ends>>
    BY <1>5 DEF ForwardEarly
  <2>1. leftover = <<>>
    <3>1. Len(Header) = 3 /\ Len(buf) <= 3 /\ Len(buf) \in Nat /\ buf \in Seq(Msg)
      BY Controls, LenProperties DEF Core, BufInv, Typed
    <3> QED
      BY <3>1, SubSeqProperties, EmptySeq
  <2>2. CASE Goto("server", "relay", Put(DestUp, leftover, wire))
    <3>1. Put(DestUp, <<>>, wire) = wire
      <4>1. wire[DestUp] \in Seq(Msg) /\ DestUp \in Half
        BY <1>0, Six DEF Wires
      <4>2. wire[DestUp] \o <<>> = wire[DestUp]
        BY <4>1, ConcatEmptySeq
      <4> QED
        BY <1>0, <4>2 DEF Put, Wires
    <3>2. wire' = wire /\ shut' = shut /\ pc' = [pc EXCEPT !["server"] = "relay"]
      BY <2>1, <2>2, <3>1 DEF Goto
    <3>3. pc'.server = "relay" /\ pc'.client = pc.client
      BY <3>2, PcMoves
    <3>4. UNCHANGED <<FromApp, ToServer, ToDest, FromDest, ToClient, ToApp>>
      BY <3>2 DEF FromApp, ToServer, ToDest, FromDest, ToClient, ToApp
    <3>5. pc.server \in Serving /\ pc'.server \in Serving
      BY <2>0, <3>3 DEF Serving
    <3> QED
      BY <2>0, <3>2, <3>3, <3>4, <3>5, FlowServes
  <2>3. CASE Return("server", "lost", wire)
    BY <1>0, <2>0, <2>3, FlowServerQuits
  <2> QED
    BY <1>5, <2>2, <2>3 DEF ForwardEarly
<1> QED
  BY <1>1, <1>2, <1>3, <1>4, <1>5 DEF Server

-----------------------------------------------------------------------------
(* The relays.                                                             *)

(* A copied message is moved from the input to the output; an end of input *)
(* ends the output, until both directions have ended.                      *)
Passes(n, d) ==
  /\ UNCHANGED <<pc, shut, running>>
  /\ Head(wire[Input[n][d]]) # Eof
  /\ wire'[Input[n][d]] = Tail(wire[Input[n][d]])
  /\ wire'[Output[n][d]] = Append(wire[Output[n][d]], Head(wire[Input[n][d]]))
  /\ \A g \in Half \ {Input[n][d], Output[n][d]} : wire'[g] = wire[g]

HalfCloses(n, d) ==
  /\ UNCHANGED pc
  /\ shut' = shut \cup {Output[n][d]}
  /\ running' = [running EXCEPT ![n] = @ \ {d}]
  /\ wire'[Input[n][d]] = Tail(wire[Input[n][d]])
  /\ wire'[Output[n][d]] = Append(wire[Output[n][d]], Eof)
  /\ \A g \in Half \ {Input[n][d], Output[n][d]} : wire'[g] = wire[g]

LEMMA Outlets ==
  /\ \A n \in Node, d \in Dir : /\ Input[n][d] \in Half /\ Output[n][d] \in Half
                                /\ Input[n][d] # Output[n][d]
  /\ \A n \in Node, m \in Node, d \in Dir, e \in Dir :
       Output[n][d] = Output[m][e] => n = m /\ d = e
  BY Ports, Six DEF Node, Dir

LEMMA CopySteps ==
  ASSUME Typed, SocketInv, NEW n \in Node, NEW d \in Dir, Copy(n, d)
  PROVE  /\ pc[n] = "relay" /\ wire[Input[n][d]] # <<>> /\ Up(Output[n][d])
         /\ UNCHANGED <<link, ends>>
         /\ \/ Passes(n, d)
            \/ HalfCloses(n, d)
            \/ /\ Return(n, "closed", Take(Input[n][d], wire))
               /\ running' = [running EXCEPT ![n] = RunningAfter(n, d)]
<1> DEFINE in == Input[n][d]
           out == Output[n][d]
           m == Head(wire[in])
           rest == Take(in, wire)
           left == RunningAfter(n, d)
<1>0. /\ pc[n] = "relay" /\ d \in running[n] /\ wire[in] # <<>> /\ Up(out)
      /\ UNCHANGED <<link, ends>>
  BY DEF Copy
<1>1. \/ m # Eof /\ Goto(n, "relay", Put(out, <<m>>, rest)) /\ UNCHANGED running
      \/ /\ running' = [running EXCEPT ![n] = left]
         /\ Return(n, "closed", rest) \/ (CloseAll({out}, rest) /\ UNCHANGED pc)
  BY DEF Copy
<1>2. in \in Half /\ out \in Half /\ in # out /\ wire \in Wires /\ shut \subseteq Half
  BY Outlets DEF Typed, Moved
<1>3. m \in Msg
  BY <1>0, <1>2, HeadTailProperties DEF Wires
<1>4. rest \in Wires /\ rest[in] = Tail(wire[in]) /\ \A g \in Half \ {in} : rest[g] = wire[g]
  BY <1>0, <1>2, TakeType
<1>5. CASE m # Eof /\ Goto(n, "relay", Put(out, <<m>>, rest)) /\ UNCHANGED running
  <2>1. /\ Put(out, <<m>>, rest)[out] = Append(rest[out], m)
        /\ \A g \in Half \ {out} : Put(out, <<m>>, rest)[g] = rest[g]
    BY <1>2, <1>3, <1>4, PutOne
  <2>2. wire' = Put(out, <<m>>, rest) /\ shut' = shut /\ pc' = [pc EXCEPT ![n] = "relay"]
    BY <1>5 DEF Goto
  <2>3. pc' = pc
    BY <1>0, <2>2 DEF Typed, Moved
  <2>4. /\ wire'[out] = Append(wire[out], m) /\ wire'[in] = Tail(wire[in])
        /\ \A g \in Half \ {in, out} : wire'[g] = wire[g]
    BY <1>2, <1>4, <2>1, <2>2
  <2> QED
    BY <1>0, <1>5, <2>2, <2>3, <2>4 DEF Passes
<1>6. CASE /\ running' = [running EXCEPT ![n] = left]
           /\ CloseAll({out}, rest) /\ UNCHANGED pc
  <2>1. Output[n][d] \notin shut
    BY <1>0 DEF SocketInv, Live, ClientFailures, ServerFailures
  <2>2. shut' = shut \cup {out}
    BY <1>6 DEF CloseAll
  <2>3. /\ wire'[out] = Append(rest[out], Eof)
        /\ \A g \in Half \ {out} : wire'[g] = rest[g]
    BY <1>0, <1>2, <1>6, <2>1 DEF CloseAll
  <2>4. /\ wire'[out] = Append(wire[out], Eof) /\ wire'[in] = Tail(wire[in])
        /\ \A g \in Half \ {in, out} : wire'[g] = wire[g]
    BY <1>2, <1>4, <2>3
  <2> QED
    BY <1>0, <1>6, <2>2, <2>4 DEF HalfCloses, RunningAfter
<1> QED
  BY <1>0, <1>1, <1>5, <1>6

LEMMA SocketRelays ==
  ASSUME Typed, SocketInv, NEW n \in Node, NEW d \in Dir, Passes(n, d) \/ HalfCloses(n, d),
         wire[Input[n][d]] # <<>>, Output[n][d] # AppUp, UNCHANGED link
  PROVE  SocketInv'
<1>1. link'.app = "cut" => FromApp' = <<>>
  <2> SUFFICES ASSUME link.app = "cut" PROVE FromApp' = <<>>
    OBVIOUS
  <2>1. FromApp = <<>>
    BY DEF SocketInv
  <2>2. AppUp \in Half \ {Input[n][d], Output[n][d]}
    BY <2>1, Six DEF FromApp
  <2> QED
    BY <2>1, <2>2 DEF Passes, HalfCloses, FromApp
<1>2. CASE Passes(n, d)
  <2>1. \A k \in Node : Live(k)' => Live(k)
    BY <1>2 DEF Passes, Live
  <2> QED
    BY <1>1, <1>2, <2>1, SocketKeeps DEF Passes
<1>3. CASE HalfCloses(n, d)
  <2> SUFFICES ASSUME NEW k \in Node, NEW e \in Dir, Live(k)', e \in running'[k]
               PROVE  Output[k][e] \notin shut'
    BY <1>1 DEF SocketInv
  <2>1. Live(k) /\ e \in running[k] /\ (k = n => e # d)
    BY <1>3 DEF HalfCloses, Live, Typed
  <2>2. Output[k][e] \notin shut /\ Output[k][e] # Output[n][d]
    BY <2>1, Outlets DEF SocketInv
  <2> QED
    BY <1>3, <2>2 DEF HalfCloses
<1> QED
  BY <1>2, <1>3

(* The client passes on what the application sent.                         *)
LEMMA UpSends ==
  ASSUME Typed, FlowInv, pc.client = "relay",
         FromApp # <<>>, Head(FromApp) # Eof, FromApp' = Tail(FromApp),
         link.tunnel = "open", ToServer' = Append(ToServer, Head(FromApp)),
         UNCHANGED <<pc, link, ToDest, appSent, destGot>>
  PROVE  UpInv'
<1> DEFINE m == Head(FromApp)
<1>1. /\ FromApp \in Seq(Msg) /\ ToServer \in Seq(Msg) /\ m \in Msg
      /\ AtDest \in Nat /\ Len(ToServer) \in Nat /\ Len(FromApp) \in Nat /\ AtTunnel \in Int
      /\ Len(FromApp') = Len(FromApp) - 1 /\ Len(ToServer') = Len(ToServer) + 1
  <2>1. /\ FromApp \in Seq(Msg) /\ ToServer \in Seq(Msg)
        /\ AtDest \in Nat /\ Len(ToServer) \in Nat /\ Len(FromApp) \in Nat /\ AtTunnel \in Int
    BY Flows DEF FlowInv
  <2>2. m \in Msg
    BY <2>1, HeadTailProperties
  <2> QED
    BY <2>1, <2>2, TailOf, AppendOf
<1>2. /\ Opened /\ (Opened' <=> Opened) /\ ~Opening /\ ~Opening'
      /\ AtTunnel = AtDest + Len(ToServer)
      /\ (ServerReads' <=> ServerReads) /\ AtDest' = AtDest /\ AtTunnel' = AtTunnel + 1
      /\ Payload(AppData) = AppData /\ Payload(AppData)' = AppData
  BY <1>1 DEF Opened, Opening, Trying, AtTunnel, AtDest, ServerReads, Payload
<1>3. ClientReads => /\ Carries(FromApp, AppData, AtTunnel)
                     /\ link.app # "cut" /\ Clean(FromApp) => AtTunnel + Len(FromApp) = appSent - 2
  BY DEF FlowInv, UpInv, UpFromApp
<1>4. ServerReads /\ Clean(ToServer) => ClientReads
  BY DEF ClientReads
<1>5. UpToDest'
  BY <1>2 DEF FlowInv, UpInv, UpToDest
<1>6. UpToServer'
  <2> SUFFICES ASSUME ServerReads PROVE Carries(Append(ToServer, m), AppData, AtDest)
    BY <1>2 DEF UpToServer
  <2>1. Carries(ToServer, AppData, AtDest)
    BY <1>2 DEF FlowInv, UpInv, UpToServer
  <2>2. ASSUME Clean(ToServer)
        PROVE  AtDest + Len(ToServer) + 1 <= Len(AppData) /\ m = AppData[AtDest + Len(ToServer) + 1]
    <3>1. AtTunnel + 1 <= Len(AppData) /\ m = AppData[AtTunnel + 1]
      BY <1>1, <1>2, <1>3, <1>4, <2>2, CarriesTail
    <3> QED
      BY <1>1, <1>2, <3>1
  <2> QED
    BY <1>1, <2>1, <2>2, CarriesNext
<1>7. UpFromApp'
  <2> SUFFICES ASSUME ClientReads'
               PROVE  /\ Carries(FromApp', AppData, AtTunnel')
                      /\ link.app # "cut" /\ Clean(FromApp') =>
                           AtTunnel' + Len(FromApp') = appSent - 2
    BY DEF UpFromApp
  <2>1. ClientReads
    BY <1>1, <1>2, CleanAppend DEF ClientReads
  <2>2. Carries(Tail(FromApp), AppData, AtTunnel + 1)
    BY <1>1, <1>3, <2>1, CarriesTail
  <2>3. Clean(FromApp') => Clean(FromApp)
    BY <1>1, CleanTail
  <2>4. AtTunnel' + Len(FromApp') = AtTunnel + Len(FromApp)
    BY <1>1, <1>2
  <2> QED
    BY <1>2, <1>3, <2>1, <2>2, <2>3, <2>4
<1> QED
  BY <1>5, <1>6, <1>7 DEF UpInv

(* The exit node passes it on to the destination.                          *)
LEMMA UpArrives ==
  ASSUME Typed, FlowInv, pc.server = "relay",
         ToServer # <<>>, Head(ToServer) # Eof, ToServer' = Tail(ToServer),
         link.dest = "open", ToDest' = Append(ToDest, Head(ToServer)),
         UNCHANGED <<pc, link, FromApp, appSent, destGot>>
  PROVE  UpInv'
<1> DEFINE m == Head(ToServer)
           data == Payload(AppData)
<1>1. /\ ToServer \in Seq(Msg) /\ ToDest \in Seq(Msg) /\ m \in Msg
      /\ Len(destGot) \in Nat /\ Len(ToDest) \in Nat /\ Len(ToServer) \in Nat
      /\ Len(ToServer') = Len(ToServer) - 1 /\ Len(ToDest') = Len(ToDest) + 1
      /\ AtDest \in Nat /\ AtDest = Len(destGot) + Len(ToDest)
  <2>1. /\ ToServer \in Seq(Msg) /\ ToDest \in Seq(Msg)
        /\ Len(destGot) \in Nat /\ Len(ToDest) \in Nat /\ Len(ToServer) \in Nat
        /\ AtDest \in Nat
    BY Flows DEF FlowInv
  <2>2. m \in Msg
    BY <2>1, HeadTailProperties
  <2> QED
    BY <2>1, <2>2, TailOf, AppendOf DEF AtDest
<1>2. /\ (Opened' <=> Opened) /\ (Opening' <=> Opening) /\ data' = data
      /\ AtDest' = AtDest + 1
      /\ ServerReads <=> Clean(ToDest)
  BY <1>1 DEF Opened, Opening, Payload, AtDest, ServerReads, Serving
<1>3. Clean(ToDest') => Clean(ToDest)
  BY <1>1, CleanAppend
<1>4. ServerReads => Carries(ToServer, data, AtDest)
  BY DEF FlowInv, UpInv, UpToServer
<1> HIDE DEF data
<1>5. ServerReads => /\ AtDest + 1 <= Len(data) /\ m = data[AtDest + 1]
                     /\ Carries(Tail(ToServer), data, AtDest + 1)
  BY <1>1, <1>4, CarriesTail
<1>6. UpToDest'
  <2>1. Carries(ToDest, data, Len(destGot))
    BY DEF FlowInv, UpInv, UpToDest, data
  <2>2. Clean(ToDest) =>
          Len(destGot) + Len(ToDest) + 1 <= Len(data) /\ m = data[Len(destGot) + Len(ToDest) + 1]
    BY <1>1, <1>2, <1>5
  <2>3. Carries(Append(ToDest, m), data, Len(destGot))
    BY <1>1, <2>1, <2>2, CarriesNext
  <2>4. Payload(AppData)' = data
    BY <1>2 DEF data
  <2> QED
    BY <1>2, <2>3, <2>4 DEF FlowInv, UpInv, UpToDest
<1>7. UpToServer'
  <2>1. ServerReads' => ServerReads
    BY <1>2, <1>3 DEF ServerReads
  <2>2. Payload(AppData)' = data
    BY <1>2 DEF data
  <2> QED
    BY <1>2, <1>5, <2>1, <2>2 DEF UpToServer
<1>8. UpFromApp'
  <2>1. Clean(ToServer') => Clean(ToServer)
    BY <1>1, CleanTail
  <2>2. ClientReads' => ClientReads
    BY <1>2, <1>3, <2>1 DEF ClientReads, ServerReads
  <2>3. AtTunnel' = AtTunnel
    BY <1>1, <1>2 DEF AtTunnel
  <2> QED
    BY <2>2, <2>3 DEF FlowInv, UpInv, UpFromApp
<1> QED
  BY <1>6, <1>7, <1>8 DEF UpInv

(* An end of stream is passed on: nothing more is looked at behind it.     *)
LEMMA UpStops ==
  ASSUME Typed, FlowInv,
         \/ pc.client = "relay" /\ ToServer' = Append(ToServer, Eof) /\ UNCHANGED ToDest
         \/ ToDest' = Append(ToDest, Eof) /\ UNCHANGED FromApp,
         UNCHANGED <<pc, link, appSent, destGot>>
  PROVE  UpInv'
<1>1. /\ ToServer \in Seq(Msg) /\ ToDest \in Seq(Msg) /\ Eof \in Msg
      /\ AtDest \in Int /\ Len(destGot) \in Int
  BY Flows, Controls DEF FlowInv
<1>2. (Opened' <=> Opened) /\ (Opening' <=> Opening) /\ Payload(AppData)' = Payload(AppData)
  BY DEF Opened, Opening, Payload
<1>3. CASE pc.client = "relay" /\ ToServer' = Append(ToServer, Eof) /\ UNCHANGED ToDest
  <2>1. (ServerReads' <=> ServerReads) /\ AtDest' = AtDest
    BY <1>3 DEF ServerReads, AtDest
  <2>2. ~Clean(ToServer')
    BY <1>1, <1>3, CleanAppend
  <2>3. ~ClientReads'
    BY <1>3, <2>2 DEF ClientReads, Opening, Trying
  <2>4. UpToServer'
    BY <1>1, <1>2, <1>3, <2>1, CarriesEof DEF FlowInv, UpInv, UpToServer
  <2> QED
    BY <1>2, <1>3, <2>1, <2>3, <2>4 DEF FlowInv, UpInv, UpToDest, UpFromApp
<1>4. CASE ToDest' = Append(ToDest, Eof) /\ UNCHANGED FromApp
  <2>1. ~Clean(ToDest')
    BY <1>1, <1>4, CleanAppend
  <2>2. ~ServerReads' /\ (ClientReads' => Opening)
    BY <1>2, <2>1 DEF ServerReads, ClientReads
  <2>3. Opening => ClientReads /\ AtTunnel' = AtTunnel
    BY DEF ClientReads, AtTunnel, Opening, Trying
  <2>4. UpToDest'
    BY <1>1, <1>2, <1>4, CarriesEof DEF FlowInv, UpInv, UpToDest
  <2> QED
    BY <1>4, <2>2, <2>3, <2>4 DEF FlowInv, UpInv, UpToServer, UpFromApp
<1> QED
  BY <1>3, <1>4

(* The exit node passes on what the destination sent.                      *)
LEMMA DownSends ==
  ASSUME Typed, FlowInv, pc.server = "relay",
         FromDest # <<>>, Head(FromDest) # Eof, FromDest' = Tail(FromDest),
         link.tunnel = "open", ToClient' = Append(ToClient, Head(FromDest)),
         UNCHANGED <<pc, link, ToApp, destSent, appGot>>
  PROVE  DownInv'
<1> DEFINE m == Head(FromDest)
<1>1. /\ FromDest \in Seq(Msg) /\ ToClient \in Seq(Msg) /\ m \in Msg
      /\ Len(ToClient) \in Nat /\ Len(FromDest) \in Nat
      /\ AtClient \in Int /\ AtServer \in Int
      /\ Len(FromDest') = Len(FromDest) - 1 /\ Len(ToClient') = Len(ToClient) + 1
  <2>1. /\ FromDest \in Seq(Msg) /\ ToClient \in Seq(Msg)
        /\ Len(ToClient) \in Nat /\ Len(FromDest) \in Nat
        /\ AtClient \in Int /\ AtServer \in Int
    BY Flows DEF FlowInv
  <2>2. m \in Msg
    BY <2>1, HeadTailProperties
  <2> QED
    BY <2>1, <2>2, TailOf, AppendOf
<1>2. /\ (Opened' <=> Opened) /\ (Opening' <=> Opening) /\ (ClientWrites' <=> ClientWrites)
      /\ Told' = Told /\ AtClient' = AtClient /\ Payload(DestData)' = Payload(DestData)
  BY DEF Opened, Opening, ClientWrites, Told, AtClient, Payload
<1>3. AtServer = AtClient + Len(ToClient) /\ AtServer' = AtServer + 1
  BY <1>1, <1>2 DEF AtServer
<1>4. ServerWrites => /\ Carries(FromDest, DestData, AtServer)
                      /\ link.dest # "cut" /\ Clean(FromDest) => AtServer + Len(FromDest) = destSent
  BY DEF FlowInv, DownInv, DownFromDest
<1>5. ClientWrites /\ Clean(ToClient) => ServerWrites
  BY DEF ServerWrites, Serving
<1>6. DownToApp' /\ DownReplies'
  BY <1>2 DEF FlowInv, DownInv, DownToApp, DownReplies
<1>7. DownToClient'
  <2> SUFFICES ASSUME ClientWrites PROVE Carries(Append(ToClient, m), DestData, AtClient)
    BY <1>2 DEF DownToClient
  <2>1. Carries(ToClient, DestData, AtClient)
    BY DEF FlowInv, DownInv, DownToClient
  <2>2. ASSUME Clean(ToClient), AtClient + Len(ToClient) >= 0
        PROVE  /\ AtClient + Len(ToClient) + 1 <= Len(DestData)
               /\ m = DestData[AtClient + Len(ToClient) + 1]
    <3>1. AtServer + 1 <= Len(DestData) /\ m = DestData[AtServer + 1]
      BY <1>1, <1>3, <1>4, <1>5, <2>2, CarriesTail
    <3> QED
      BY <1>1, <1>3, <3>1
  <2> QED
    BY <1>1, <2>1, <2>2, CarriesNext
<1>8. DownFromDest'
  <2> SUFFICES ASSUME ServerWrites'
               PROVE  /\ Carries(FromDest', DestData, AtServer')
                      /\ link.dest # "cut" /\ Clean(FromDest') =>
                           AtServer' + Len(FromDest') = destSent
    BY DEF DownFromDest
  <2>1. ServerWrites
    BY <1>1, <1>2, CleanAppend DEF ServerWrites
  <2>2. Carries(Tail(FromDest), DestData, AtServer + 1)
    BY <1>1, <1>4, <2>1, CarriesTail
  <2>3. Clean(FromDest') => Clean(FromDest)
    BY <1>1, CleanTail
  <2>4. AtServer' + Len(FromDest') = AtServer + Len(FromDest)
    BY <1>1, <1>3
  <2> QED
    BY <1>3, <1>4, <2>1, <2>2, <2>3, <2>4
<1> QED
  BY <1>6, <1>7, <1>8 DEF DownInv

(* The client passes it on to the application.                             *)
LEMMA DownArrives ==
  ASSUME Typed, FlowInv, pc.client = "relay",
         ToClient # <<>>, Head(ToClient) # Eof, ToClient' = Tail(ToClient),
         link.app = "open", ToApp' = Append(ToApp, Head(ToClient)),
         UNCHANGED <<pc, link, FromDest, destSent, appGot>>
  PROVE  DownInv'
<1> DEFINE m == Head(ToClient)
<1>1. /\ ToClient \in Seq(Msg) /\ ToApp \in Seq(Msg) /\ m \in Msg
      /\ Len(appGot) \in Nat /\ Len(ToApp) \in Nat /\ Len(ToClient) \in Nat
      /\ Len(ToClient') = Len(ToClient) - 1 /\ Len(ToApp') = Len(ToApp) + 1
      /\ Told = Len(appGot) + Len(ToApp)
  <2>1. /\ ToClient \in Seq(Msg) /\ ToApp \in Seq(Msg)
        /\ Len(appGot) \in Nat /\ Len(ToApp) \in Nat /\ Len(ToClient) \in Nat
    BY Flows DEF FlowInv
  <2>2. m \in Msg
    BY <2>1, HeadTailProperties
  <2> QED
    BY <2>1, <2>2, TailOf, AppendOf DEF Told
<1>2. /\ Opened /\ (Opened' <=> Opened) /\ (Opening' <=> Opening)
      /\ Payload(DestData) = DestData /\ Payload(DestData)' = DestData
      /\ AtClient = Told - 2 /\ AtClient' = AtClient + 1 /\ AtClient \in Int
      /\ Clean(ToApp) => ClientWrites
  BY <1>1 DEF Opened, Opening, Payload, AtClient, Told, ClientWrites
<1>3. ClientWrites' => ClientWrites
  <2>1. Clean(ToApp') => Clean(ToApp)
    BY <1>1, CleanAppend
  <2> QED
    BY <1>2, <2>1 DEF ClientWrites
<1>4. ClientWrites => /\ AtClient >= 0 => AtClient + 1 <= Len(DestData) /\ m = DestData[AtClient + 1]
                      /\ Carries(Tail(ToClient), DestData, AtClient + 1)
  BY <1>1, <1>2, CarriesTail DEF FlowInv, DownInv, DownToClient
<1>5. DownToApp'
  <2>1. Carries(ToApp, DestData, Len(appGot) - 2)
    BY <1>2 DEF FlowInv, DownInv, DownToApp
  <2>2. Len(appGot) - 2 + Len(ToApp) = AtClient /\ Len(appGot) - 2 \in Int
    BY <1>1, <1>2
  <2>3. Clean(ToApp) /\ Len(appGot) - 2 + Len(ToApp) >= 0 =>
          /\ Len(appGot) - 2 + Len(ToApp) + 1 <= Len(DestData)
          /\ m = DestData[Len(appGot) - 2 + Len(ToApp) + 1]
    BY <1>2, <1>4, <2>2
  <2>4. Carries(Append(ToApp, m), DestData, Len(appGot) - 2)
    BY <1>1, <2>1, <2>2, <2>3, CarriesNext
  <2> QED
    BY <1>2, <2>4 DEF DownToApp
<1>6. DownReplies'
  BY DEF DownReplies, Trying
<1>7. DownToClient'
  BY <1>2, <1>3, <1>4 DEF DownToClient
<1>8. DownFromDest'
  <2>1. Clean(ToClient') => Clean(ToClient)
    BY <1>1, CleanTail
  <2>2. ServerWrites' => ServerWrites
    BY <1>3, <2>1 DEF ServerWrites
  <2>3. AtServer' = AtServer
    BY <1>1, <1>2 DEF AtServer
  <2> QED
    BY <2>2, <2>3 DEF FlowInv, DownInv, DownFromDest
<1> QED
  BY <1>5, <1>6, <1>7, <1>8 DEF DownInv

LEMMA DownStops ==
  ASSUME Typed, FlowInv,
         \/ ToClient' = Append(ToClient, Eof) /\ UNCHANGED ToApp
         \/ pc.client = "relay" /\ ToApp' = Append(ToApp, Eof) /\ UNCHANGED FromDest,
         UNCHANGED <<pc, link, destSent, appGot>>
  PROVE  DownInv'
<1>1. /\ ToClient \in Seq(Msg) /\ ToApp \in Seq(Msg) /\ Eof \in Msg
      /\ AtClient \in Int /\ Len(appGot) - 2 \in Int
  BY Flows, Controls DEF FlowInv
<1>2. (Opened' <=> Opened) /\ (Opening' <=> Opening) /\ Payload(DestData)' = Payload(DestData)
  BY DEF Opened, Opening, Payload
<1>3. CASE ToClient' = Append(ToClient, Eof) /\ UNCHANGED ToApp
  <2>1. (ClientWrites' <=> ClientWrites) /\ Told' = Told /\ AtClient' = AtClient
    BY <1>2, <1>3 DEF ClientWrites, Told, AtClient
  <2>2. ~Clean(ToClient')
    BY <1>1, <1>3, CleanAppend
  <2>3. ~ServerWrites'
    BY <2>2 DEF ServerWrites
  <2>4. DownToClient'
    BY <1>1, <1>3, <2>1, CarriesEof DEF FlowInv, DownInv, DownToClient
  <2> QED
    BY <1>2, <1>3, <2>1, <2>3, <2>4 DEF FlowInv, DownInv, DownToApp, DownReplies, DownFromDest
<1>4. CASE pc.client = "relay" /\ ToApp' = Append(ToApp, Eof) /\ UNCHANGED FromDest
  <2>1. ~Clean(ToApp')
    BY <1>1, <1>4, CleanAppend
  <2>2. ~ClientWrites' /\ ~ServerWrites'
    BY <1>4, <2>1 DEF ClientWrites, ServerWrites, Opening, Trying
  <2>3. DownToApp'
    BY <1>1, <1>2, <1>4, CarriesEof DEF FlowInv, DownInv, DownToApp
  <2>4. DownReplies'
    BY <1>4 DEF DownReplies, Trying
  <2> QED
    BY <2>2, <2>3, <2>4 DEF DownInv, DownToClient, DownFromDest
<1> QED
  BY <1>3, <1>4

LEMMA FlowRelay ==
  ASSUME Typed, Core, FlowInv, Relay
  PROVE  FlowInv'
<1>0. wire \in Wires /\ "closed" \in ServerFailures \cup {"closed"}
  BY DEF Typed, Moved
<1>1. ASSUME NEW n \in Node, CopyFails(n) PROVE FlowInv'
  <2>1. pc[n] = "relay" /\ Return(n, "closed", wire) /\ UNCHANGED <<link, running, ends>>
    BY <1>1 DEF CopyFails
  <2> QED
    BY <2>1, FlowClientQuits, FlowServerQuits DEF Node, Leaving
<1>2. ASSUME NEW n \in Node, NEW d \in Dir, Copy(n, d) PROVE FlowInv'
  <2>1. /\ pc[n] = "relay" /\ wire[Input[n][d]] # <<>> /\ Up(Output[n][d])
        /\ UNCHANGED <<link, ends>>
        /\ \/ Passes(n, d)
           \/ HalfCloses(n, d)
           \/ /\ Return(n, "closed", Take(Input[n][d], wire))
              /\ running' = [running EXCEPT ![n] = RunningAfter(n, d)]
    BY <1>2, CopySteps DEF FlowInv
  <2>2. UNCHANGED <<appSent, destSent, appGot, destGot>>
    BY <2>1 DEF ends
  <2>3. CASE Passes(n, d) \/ HalfCloses(n, d)
    <3>0. pc' = pc
      BY <2>3 DEF Passes, HalfCloses
    <3>1. Output[n][d] # AppUp
      BY Ports, Six DEF Node, Dir
    <3>2. SocketInv'
      BY <2>1, <2>3, <3>1, SocketRelays DEF FlowInv
    <3>3. CASE n = "client" /\ d = "up"
      <4>1. /\ pc.client = "relay" /\ FromApp # <<>> /\ link.tunnel = "open"
            /\ UNCHANGED <<ToDest, FromDest, ToClient, ToApp>>
            /\ \/ /\ Head(FromApp) # Eof /\ FromApp' = Tail(FromApp)
                  /\ ToServer' = Append(ToServer, Head(FromApp))
               \/ ToServer' = Append(ToServer, Eof)
        BY <2>1, <2>3, <3>3, Ports, Six, Links
        DEF Passes, HalfCloses, Up, FromApp, ToServer, ToDest, FromDest, ToClient, ToApp
      <4>2. UpInv'
        BY <2>1, <2>2, <3>0, <4>1, UpSends, UpStops
      <4>3. DownInv'
        BY <2>1, <2>2, <3>0, <4>1, DownFrame DEF FlowInv
      <4> QED
        BY <2>2, <3>2, <4>2, <4>3 DEF FlowInv, Gots
    <3>4. CASE n = "server" /\ d = "up"
      <4>1. /\ pc.server = "relay" /\ ToServer # <<>> /\ link.dest = "open"
            /\ UNCHANGED <<FromApp, FromDest, ToClient, ToApp>>
            /\ \/ /\ Head(ToServer) # Eof /\ ToServer' = Tail(ToServer)
                  /\ ToDest' = Append(ToDest, Head(ToServer))
               \/ ToDest' = Append(ToDest, Eof)
        BY <2>1, <2>3, <3>4, Ports, Six, Links
        DEF Passes, HalfCloses, Up, FromApp, ToServer, ToDest, FromDest, ToClient, ToApp
      <4>2. UpInv'
        BY <2>1, <2>2, <3>0, <4>1, UpArrives, UpStops
      <4>3. DownInv'
        BY <2>1, <2>2, <3>0, <4>1, DownFrame DEF FlowInv
      <4> QED
        BY <2>2, <3>2, <4>2, <4>3 DEF FlowInv, Gots
    <3>5. CASE n = "server" /\ d = "down"
      <4>1. /\ pc.server = "relay" /\ FromDest # <<>> /\ link.tunnel = "open"
            /\ UNCHANGED <<FromApp, ToServer, ToDest, ToApp>>
            /\ \/ /\ Head(FromDest) # Eof /\ FromDest' = Tail(FromDest)
                  /\ ToClient' = Append(ToClient, Head(FromDest))
               \/ ToClient' = Append(ToClient, Eof)
        BY <2>1, <2>3, <3>5, Ports, Six, Links
        DEF Passes, HalfCloses, Up, FromApp, ToServer, ToDest, FromDest, ToClient, ToApp
      <4>2. DownInv'
        BY <2>1, <2>2, <3>0, <4>1, DownSends, DownStops
      <4>3. UpInv'
        BY <2>1, <2>2, <3>0, <4>1, UpFrame DEF FlowInv
      <4> QED
        BY <2>2, <3>2, <4>2, <4>3 DEF FlowInv, Gots
    <3>6. CASE n = "client" /\ d = "down"
      <4>1. /\ pc.client = "relay" /\ ToClient # <<>> /\ link.app = "open"
            /\ UNCHANGED <<FromApp, ToServer, ToDest, FromDest>>
            /\ \/ /\ Head(ToClient) # Eof /\ ToClient' = Tail(ToClient)
                  /\ ToApp' = Append(ToApp, Head(ToClient))
               \/ ToApp' = Append(ToApp, Eof)
        BY <2>1, <2>3, <3>6, Ports, Six, Links
        DEF Passes, HalfCloses, Up, FromApp, ToServer, ToDest, FromDest, ToClient, ToApp
      <4>2. DownInv'
        BY <2>1, <2>2, <3>0, <4>1, DownArrives, DownStops
      <4>3. UpInv'
        BY <2>1, <2>2, <3>0, <4>1, UpFrame DEF FlowInv
      <4> QED
        BY <2>2, <3>2, <4>2, <4>3 DEF FlowInv, Gots
    <3> QED
      BY <3>3, <3>4, <3>5, <3>6 DEF Node, Dir
  <2>4. CASE /\ Return(n, "closed", Take(Input[n][d], wire))
             /\ running' = [running EXCEPT ![n] = RunningAfter(n, d)]
    <3> DEFINE w == Take(Input[n][d], wire)
    <3>1. /\ w \in Wires
          /\ \A g \in Half \ {Input[n][d]} : w[g] = wire[g]
      BY <1>0, <2>1, Outlets, TakeType
    <3>2. \A k \in Node \ {n} : running'[k] = running[k]
      BY <2>4 DEF Typed
    <3>3. Return(n, "closed", w)
      BY <2>4
    <3> HIDE DEF w
    <3>4. CASE n = "client"
      <4>1. /\ w[TunUp] = ToServer /\ w[DestUp] = ToDest /\ w[AppDown] = ToApp
            /\ link.app = "cut" => w[AppUp] = <<>>
        <5>1. Input[n][d] \in {AppUp, TunDown} /\ wire[Input[n][d]] # <<>>
          BY <2>1, <3>4, Ports DEF Dir
        <5>2. link.app = "cut" => wire[AppUp] = <<>>
          BY DEF FlowInv, SocketInv, FromApp
        <5> QED
          BY <3>1, <5>1, <5>2, Six DEF ToServer, ToDest, ToApp
      <4>2. Carries(w[AppDown], Payload(DestData), Len(appGot) - 2)
        BY <4>1 DEF FlowInv, DownInv, DownToApp
      <4>3. running'["server"] = running["server"] /\ Leaving("closed") /\ Return("client", "closed", w)
        BY <2>1, <3>2, <3>3, <3>4 DEF Node, Leaving
      <4> QED
        BY <2>1, <3>1, <4>1, <4>2, <4>3, FlowClientEnds
    <3>5. CASE n = "server"
      <4>1. /\ w[AppUp] = FromApp /\ w[DestUp] = ToDest /\ w[AppDown] = ToApp
            /\ w[TunDown] = ToClient
        <5>1. Input[n][d] \in {TunUp, DestDown}
          BY <3>5, Ports DEF Dir
        <5> QED
          BY <3>1, <5>1, Six DEF FromApp, ToDest, ToApp, ToClient
      <4>2. ClientWrites => Carries(w[TunDown], DestData, AtClient)
        BY <4>1 DEF FlowInv, DownInv, DownToClient
      <4>3. running'["client"] = running["client"] /\ Return("server", "closed", w)
        BY <3>2, <3>3, <3>5 DEF Node
      <4> QED
        BY <1>0, <2>1, <3>1, <4>1, <4>2, <4>3, FlowServerEnds
    <3> QED
      BY <3>4, <3>5 DEF Node
  <2> QED
    BY <2>1, <2>3, <2>4
<1> QED
  BY <1>1, <1>2 DEF Relay

-----------------------------------------------------------------------------
(* Deaths, the two ends and the network.                                   *)

LEMMA FlowKill ==
  ASSUME Typed, FlowInv, NEW n \in Node, Kill(n)
  PROVE  FlowInv'
<1>1. /\ pc[n] \notin ClientFailures \cup ServerFailures \cup {"idle", "relay", "closed"}
      /\ Return(n, "killed", wire) /\ UNCHANGED <<link, running, ends>>
      /\ "killed" \in ClientFailures /\ "killed" \in ServerFailures
  BY DEF Kill, ClientFailures, ServerFailures
<1>2. n = "client" => Leaving("killed")
  BY <1>1 DEF Typed, Moved, ClientPc, Leaving, Opening, Trying
<1> QED
  BY <1>1, <1>2, FlowClientQuits, FlowServerQuits DEF Node

LEMMA SocketFrame ==
  ASSUME SocketInv, UNCHANGED <<pc, running>>,
         NEW h \in {AppUp, DestDown}, shut' \subseteq shut \cup {h},
         link'.app = "cut" => FromApp' = <<>>
  PROVE  SocketInv'
<1>1. \A n \in Node, d \in Dir : Output[n][d] # h
  BY Ports, Six DEF Node, Dir
<1> QED
  BY <1>1 DEF SocketInv, Live

(* The application sends its next message or ends what it sends.           *)
LEMMA FlowAppSends ==
  ASSUME Typed, FlowInv, AppSend \/ AppClose
  PROVE  FlowInv'
<1>0. /\ wire \in Wires /\ AppUp \in Half /\ Up(AppUp) /\ AppUp \notin shut
      /\ UNCHANGED <<pc, link, running, destSent, appGot, destGot>>
      /\ appSent \in 0..(2 + Len(AppData)) /\ appSent \in Nat
  <2>1. Len(AppData) \in Nat
    BY TunnelAssumption, LenProperties
  <2> QED
    BY <2>1, Six DEF Typed, Moved, AppSend, AppClose, ends
<1>1. /\ FromApp \in Seq(Msg) /\ Len(FromApp) \in Nat /\ AtTunnel \in Int
      /\ link.app = "open"
  BY <1>0, Flows, Links DEF FlowInv, Up
<1>2. /\ \A g \in Half \ {AppUp} : wire'[g] = wire[g]
      /\ \/ appSent' = appSent /\ shut' = shut \cup {AppUp} /\ FromApp' = Append(FromApp, Eof)
         \/ /\ appSent < 2 + Len(AppData) /\ appSent' = appSent + 1 /\ shut' = shut
            /\ \E m \in Msg : /\ appSent >= 2 => m = AppData[appSent - 1]
                              /\ FromApp' = Append(FromApp, m)
  <2>1. CASE AppSend
    <3>0. appSent < 2 + Len(AppData) /\ appSent' = appSent + 1 /\ shut' = shut
      BY <2>1 DEF AppSend
    <3>1. PICK m \in AppMessages(appSent + 1) : wire' = Put(AppUp, <<m>>, wire)
      BY <2>1 DEF AppSend
    <3>2. Len(AppData) \in Nat /\ AppData \in Seq(Range(AppData))
      BY TunnelAssumption, LenProperties
    <3>3. appSent >= 2 => m = AppData[appSent - 1] /\ m \in Msg
      <4> SUFFICES ASSUME appSent >= 2 PROVE m = AppData[appSent - 1] /\ m \in Msg
        OBVIOUS
      <4>1. appSent - 1 \in 1..Len(AppData) /\ appSent + 1 # 1 /\ appSent + 1 # 2
            /\ (appSent + 1) - 2 = appSent - 1
        BY <1>0, <3>0, <3>2
      <4>2. m = AppData[appSent - 1]
        BY <3>1, <4>1 DEF AppMessages
      <4>3. m \in Range(AppData)
        BY <3>2, <4>1, <4>2, ElementOfSeq
      <4> QED
        BY <4>2, <4>3 DEF Msg
    <3>4. appSent \in {0, 1} => m \in Msg
      BY <3>1 DEF AppMessages, Msg
    <3>5. m \in Msg
      BY <1>0, <3>3, <3>4
    <3>6. /\ wire'[AppUp] = Append(wire[AppUp], m)
          /\ \A g \in Half \ {AppUp} : wire'[g] = wire[g]
      BY <1>0, <3>1, <3>5, PutOne
    <3>7. FromApp' = Append(FromApp, m)
      BY <3>6 DEF FromApp
    <3> QED
      BY <3>0, <3>3, <3>5, <3>6, <3>7
  <2>2. CASE AppClose
    <3>1. CloseAll({AppUp}, wire) /\ appSent' = appSent
      BY <2>2 DEF AppClose, ends
    <3>2. /\ wire'[AppUp] = Append(wire[AppUp], Eof)
          /\ \A g \in Half \ {AppUp} : wire'[g] = wire[g]
          /\ shut' = shut \cup {AppUp}
      BY <1>0, <3>1 DEF CloseAll
    <3> QED
      BY <3>1, <3>2 DEF FromApp
  <2> QED
    BY <2>1, <2>2
<1>3. UNCHANGED <<ToServer, ToDest, FromDest, ToClient, ToApp>>
  BY <1>2, Six DEF ToServer, ToDest, FromDest, ToClient, ToApp
<1>4. DownInv'
  BY <1>0, <1>3, DownFrame DEF FlowInv
<1>5. SocketInv'
  BY <1>0, <1>1, <1>2, SocketFrame DEF FlowInv
<1>6. UpInv'
  <2>1. /\ (Opened' <=> Opened) /\ (ServerReads' <=> ServerReads) /\ (ClientReads' <=> ClientReads)
        /\ AtDest' = AtDest /\ AtTunnel' = AtTunnel /\ Payload(AppData)' = Payload(AppData)
    BY <1>0, <1>3 DEF Opened, Opening, ServerReads, ClientReads, AtDest, AtTunnel, Payload
  <2>2. UpToDest' /\ UpToServer'
    BY <1>0, <1>3, <2>1 DEF FlowInv, UpInv, UpToDest, UpToServer
  <2>3. ClientReads => /\ Carries(FromApp, AppData, AtTunnel)
                       /\ Clean(FromApp) => AtTunnel + Len(FromApp) = appSent - 2
    BY <1>1 DEF FlowInv, UpInv, UpFromApp
  <2>4. CASE appSent' = appSent /\ FromApp' = Append(FromApp, Eof)
    <3>1. ~Clean(FromApp')
      BY <1>1, <2>4, Controls, CleanAppend
    <3>2. ClientReads => Carries(FromApp', AppData, AtTunnel)
      BY <1>1, <2>3, <2>4, CarriesEof
    <3> QED
      BY <2>1, <2>2, <3>1, <3>2 DEF UpInv, UpFromApp
  <2>5. ASSUME appSent < 2 + Len(AppData), appSent' = appSent + 1, NEW m \in Msg,
               appSent >= 2 => m = AppData[appSent - 1], FromApp' = Append(FromApp, m)
        PROVE  UpInv'
    <3>1. Clean(FromApp') => Clean(FromApp)
      BY <1>1, <2>5, CleanAppend
    <3>2. Len(FromApp') = Len(FromApp) + 1
      BY <1>1, <2>5, AppendOf
    <3>3. Len(AppData) \in Nat
      BY TunnelAssumption, LenProperties
    <3>4. ASSUME ClientReads
          PROVE  /\ Carries(FromApp', AppData, AtTunnel)
                 /\ Clean(FromApp') => AtTunnel + Len(FromApp') = appSent' - 2
      <4>1. ASSUME Clean(FromApp), AtTunnel + Len(FromApp) >= 0
            PROVE  /\ AtTunnel + Len(FromApp) + 1 <= Len(AppData)
                   /\ m = AppData[AtTunnel + Len(FromApp) + 1]
        <5>1. AtTunnel + Len(FromApp) = appSent - 2
          BY <2>3, <3>4, <4>1
        <5>2. appSent >= 2 /\ AtTunnel + Len(FromApp) + 1 = appSent - 1
          BY <1>0, <1>1, <4>1, <5>1
        <5>3. appSent - 1 <= Len(AppData)
          BY <1>0, <2>5, <3>3
        <5> QED
          BY <2>5, <5>2, <5>3
      <4>2. Carries(FromApp', AppData, AtTunnel)
        BY <1>1, <2>3, <2>5, <3>4, <4>1, CarriesNext
      <4>3. Clean(FromApp') => AtTunnel + Len(FromApp') = appSent' - 2
        BY <1>0, <1>1, <2>3, <2>5, <3>1, <3>2, <3>4
      <4> QED
        BY <4>2, <4>3
    <3> QED
      BY <2>1, <2>2, <3>4 DEF UpInv, UpFromApp
  <2> QED
    BY <1>2, <2>4, <2>5
<1> QED
  BY <1>0, <1>4, <1>5, <1>6 DEF FlowInv, Gots

(* So does the destination.                                                *)
LEMMA FlowDestSends ==
  ASSUME Typed, FlowInv, DestSend \/ DestClose
  PROVE  FlowInv'
<1>0. /\ wire \in Wires /\ DestDown \in Half /\ Up(DestDown) /\ DestDown \notin shut
      /\ UNCHANGED <<pc, link, running, appSent, appGot, destGot>>
      /\ destSent \in Nat /\ Len(DestData) \in Nat
  <2>1. Len(DestData) \in Nat
    BY TunnelAssumption, LenProperties
  <2> QED
    BY <2>1, Six DEF Typed, Moved, DestSend, DestClose, ends
<1>1. FromDest \in Seq(Msg) /\ Len(FromDest) \in Nat /\ AtServer \in Int
  BY <1>0, Flows DEF FlowInv
<1>2. /\ \A g \in Half \ {DestDown} : wire'[g] = wire[g]
      /\ \/ destSent' = destSent /\ shut' = shut \cup {DestDown} /\ FromDest' = Append(FromDest, Eof)
         \/ /\ destSent + 1 <= Len(DestData) /\ destSent' = destSent + 1 /\ shut' = shut
            /\ DestData[destSent + 1] \in Msg
            /\ FromDest' = Append(FromDest, DestData[destSent + 1])
  <2>1. CASE DestSend
    <3> DEFINE m == DestData[destSent + 1]
    <3>0. /\ destSent + 1 <= Len(DestData) /\ destSent' = destSent + 1 /\ shut' = shut
          /\ wire' = Put(DestDown, <<m>>, wire)
      BY <1>0, <2>1 DEF DestSend
    <3>1. m \in Msg
      <4>1. destSent + 1 \in 1..Len(DestData) /\ DestData \in Seq(Range(DestData))
        BY <1>0, <3>0, TunnelAssumption
      <4>2. m \in Range(DestData)
        BY <4>1, ElementOfSeq
      <4> QED
        BY <4>2 DEF Msg
    <3> HIDE DEF m
    <3>2. /\ wire'[DestDown] = Append(wire[DestDown], m)
          /\ \A g \in Half \ {DestDown} : wire'[g] = wire[g]
      BY <1>0, <3>0, <3>1, PutOne
    <3>3. FromDest' = Append(FromDest, m)
      BY <3>2 DEF FromDest
    <3> QED
      BY <3>0, <3>1, <3>2, <3>3 DEF m
  <2>2. CASE DestClose
    <3>1. CloseAll({DestDown}, wire) /\ destSent' = destSent
      BY <2>2 DEF DestClose, ends
    <3>2. /\ wire'[DestDown] = Append(wire[DestDown], Eof)
          /\ \A g \in Half \ {DestDown} : wire'[g] = wire[g]
          /\ shut' = shut \cup {DestDown}
      BY <1>0, <3>1 DEF CloseAll
    <3> QED
      BY <3>1, <3>2 DEF FromDest
  <2> QED
    BY <2>1, <2>2
<1>3. UNCHANGED <<FromApp, ToServer, ToDest, ToClient, ToApp>>
  BY <1>2, Six DEF FromApp, ToServer, ToDest, ToClient, ToApp
<1>4. UpInv'
  BY <1>0, <1>3, UpFrame DEF FlowInv
<1>5. SocketInv'
  <2>1. link'.app = "cut" => FromApp' = <<>>
    BY <1>0, <1>3 DEF FlowInv, SocketInv
  <2> QED
    BY <1>0, <1>2, <2>1, SocketFrame DEF FlowInv
<1>6. DownInv'
  <2>1. /\ (Opened' <=> Opened) /\ (ServerWrites' <=> ServerWrites)
        /\ (ClientWrites' <=> ClientWrites) /\ Told' = Told
        /\ AtClient' = AtClient /\ AtServer' = AtServer
        /\ Payload(DestData)' = Payload(DestData)
    BY <1>0, <1>3 DEF Opened, Opening, ServerWrites, ClientWrites, Told, AtClient, AtServer, Payload
  <2>2. DownToApp' /\ DownReplies' /\ DownToClient'
    BY <1>0, <1>3, <2>1 DEF FlowInv, DownInv, DownToApp, DownReplies, DownToClient
  <2>3. ServerWrites => /\ Carries(FromDest, DestData, AtServer)
                        /\ link.dest # "cut" /\ Clean(FromDest) => AtServer + Len(FromDest) = destSent
    BY DEF FlowInv, DownInv, DownFromDest
  <2>4. link.dest = "open"
    BY <1>0, Links DEF Up
  <2>5. CASE destSent' = destSent /\ FromDest' = Append(FromDest, Eof)
    <3>1. ~Clean(FromDest')
      BY <1>1, <2>5, Controls, CleanAppend
    <3>2. ServerWrites => Carries(FromDest', DestData, AtServer)
      BY <1>1, <2>3, <2>5, CarriesEof
    <3> QED
      BY <2>1, <2>2, <3>1, <3>2 DEF DownInv, DownFromDest
  <2>6. ASSUME destSent + 1 <= Len(DestData), destSent' = destSent + 1,
               NEW m \in Msg, m = DestData[destSent + 1], FromDest' = Append(FromDest, m)
        PROVE  DownInv'
    <3>1. Clean(FromDest') => Clean(FromDest)
      BY <1>1, <2>6, CleanAppend
    <3>2. Len(FromDest') = Len(FromDest) + 1
      BY <1>1, <2>6, AppendOf
    <3>3. ASSUME ServerWrites
          PROVE  /\ Carries(FromDest', DestData, AtServer)
                 /\ Clean(FromDest') => AtServer + Len(FromDest') = destSent'
      <4>1. Clean(FromDest) => AtServer + Len(FromDest) = destSent
        BY <2>3, <2>4, <3>3
      <4>2. Carries(FromDest', DestData, AtServer)
        BY <1>1, <2>3, <2>6, <3>3, <4>1, CarriesNext
      <4>3. Clean(FromDest') => AtServer + Len(FromDest') = destSent'
        BY <1>0, <1>1, <2>6, <3>1, <3>2, <4>1
      <4> QED
        BY <4>2, <4>3
    <3> QED
      BY <2>1, <2>2, <3>3 DEF DownInv, DownFromDest
  <2> QED
    BY <1>2, <2>5, <2>6
<1> QED
  BY <1>0, <1>4, <1>5, <1>6 DEF FlowInv, Gots

(* What the destination receives next is what comes next in the payload,   *)
(* and it comes from an open tunnel.                                       *)
LEMMA DestGets ==
  ASSUME Typed, FlowInv, DestRecv
  PROVE  /\ Opened /\ Len(destGot) < Len(AppData)
         /\ destGot' = Append(destGot, AppData[Len(destGot) + 1])
<1>1. /\ ToDest \in Seq(Msg) /\ ToDest # <<>> /\ Head(ToDest) # Eof
      /\ destGot' = Append(destGot, Head(ToDest)) /\ Len(destGot) \in Nat
  BY Flows DEF FlowInv, DestRecv, ToDest
<1>2. /\ Len(destGot) + 1 <= Len(Payload(AppData))
      /\ Head(ToDest) = Payload(AppData)[Len(destGot) + 1]
  BY <1>1, CarriesTail DEF FlowInv, UpInv, UpToDest
<1>3. Opened
  <2> SUFFICES ASSUME ~Opened PROVE FALSE
    OBVIOUS
  <2>1. Payload(AppData) = <<>> /\ Len(<<>>) = 0
    BY EmptySeq DEF Payload
  <2> QED
    BY <1>1, <1>2, <2>1
<1>4. Payload(AppData) = AppData /\ Len(AppData) \in Nat
  BY <1>3, TunnelAssumption, LenProperties DEF Payload
<1> QED
  BY <1>1, <1>2, <1>3, <1>4

(* So does the application, behind its two replies.                        *)
LEMMA AppGets ==
  ASSUME Typed, FlowInv, AppRecv
  PROVE  /\ appGot' = Append(appGot, Head(ToApp)) /\ Head(ToApp) \in Msg
         /\ Len(appGot) >= 2 =>
              /\ Opened /\ Len(appGot) - 2 < Len(DestData)
              /\ Head(ToApp) = DestData[Len(appGot) - 2 + 1]
<1>1. /\ ToApp \in Seq(Msg) /\ ToApp # <<>> /\ Head(ToApp) # Eof /\ Head(ToApp) \in Msg
      /\ appGot' = Append(appGot, Head(ToApp)) /\ Len(appGot) \in Nat
  BY Flows, HeadTailProperties DEF FlowInv, AppRecv, ToApp
<1> SUFFICES ASSUME Len(appGot) >= 2
             PROVE  /\ Opened /\ Len(appGot) - 2 < Len(DestData)
                    /\ Head(ToApp) = DestData[Len(appGot) - 2 + 1]
  BY <1>1
<1>2. Len(appGot) - 2 \in Int /\ Len(appGot) - 2 >= 0
  BY <1>1
<1>3. /\ Len(appGot) - 2 + 1 <= Len(Payload(DestData))
      /\ Head(ToApp) = Payload(DestData)[Len(appGot) - 2 + 1]
  BY <1>1, <1>2, CarriesTail DEF FlowInv, DownInv, DownToApp
<1>4. Opened
  <2> SUFFICES ASSUME ~Opened PROVE FALSE
    OBVIOUS
  <2>1. Payload(DestData) = <<>> /\ Len(<<>>) = 0
    BY EmptySeq DEF Payload
  <2> QED
    BY <1>2, <1>3, <2>1
<1>5. Payload(DestData) = DestData /\ Len(DestData) \in Nat
  BY <1>4, TunnelAssumption, LenProperties DEF Payload
<1> QED
  BY <1>2, <1>3, <1>4, <1>5

LEMMA FlowDestRecv ==
  ASSUME Typed, FlowInv, DestRecv
  PROVE  FlowInv'
<1>0. /\ wire \in Wires /\ DestUp \in Half /\ wire[DestUp] # <<>>
      /\ UNCHANGED <<pc, link, shut, running, appSent, destSent, appGot>>
      /\ wire' = Take(DestUp, wire)
  BY Six DEF Typed, Moved, DestRecv
<1>1. /\ ToDest' = Tail(ToDest)
      /\ UNCHANGED <<FromApp, ToServer, FromDest, ToClient, ToApp>>
  <2>1. /\ wire'[DestUp] = Tail(wire[DestUp])
        /\ \A g \in Half \ {DestUp} : wire'[g] = wire[g]
    BY <1>0, TakeType
  <2> QED
    BY <2>1, Six DEF FromApp, ToServer, ToDest, FromDest, ToClient, ToApp
<1>2. /\ Opened /\ destGot' = Append(destGot, Head(ToDest))
      /\ ToDest \in Seq(Msg) /\ ToDest # <<>> /\ Head(ToDest) # Eof /\ Head(ToDest) \in Msg
      /\ destGot \in Seq(Msg)
  BY <1>0, DestGets, Flows, HeadTailProperties DEF DestRecv, ToDest, FlowInv, Gots
<1>3. /\ Len(destGot) \in Nat /\ Len(destGot') = Len(destGot) + 1 /\ destGot' \in Seq(Msg)
      /\ Len(ToDest) \in Nat /\ Len(ToDest') = Len(ToDest) - 1
  BY <1>1, <1>2, TailOf, AppendOf
<1>4. AtDest' = AtDest /\ (Opened' <=> Opened) /\ (Opening' <=> Opening)
      /\ Payload(AppData)' = Payload(AppData) /\ AtTunnel' = AtTunnel
  <2>1. AtDest' = AtDest
    BY <1>3 DEF AtDest
  <2> QED
    BY <1>0, <1>1, <2>1 DEF Opened, Opening, Payload, AtTunnel
<1>5. (ServerReads' => ServerReads) /\ (ClientReads' => ClientReads)
  <2>1. Clean(ToDest') => Clean(ToDest)
    BY <1>1, <1>2, CleanTail
  <2> QED
    BY <1>0, <1>1, <1>4, <2>1 DEF ServerReads, ClientReads
<1>6. UpInv'
  <2>1. Carries(ToDest', Payload(AppData), Len(destGot) + 1)
    BY <1>1, <1>2, <1>3, CarriesTail DEF FlowInv, UpInv, UpToDest
  <2>2. UpToDest'
    BY <1>2, <1>3, <1>4, <2>1 DEF UpToDest
  <2>3. UpToServer' /\ UpFromApp'
    BY <1>0, <1>1, <1>4, <1>5 DEF FlowInv, UpInv, UpToServer, UpFromApp
  <2> QED
    BY <2>2, <2>3 DEF UpInv
<1>7. DownInv'
  BY <1>0, <1>1, DownFrame DEF FlowInv
<1>8. SocketInv'
  BY <1>0, <1>1 DEF FlowInv, SocketInv, Live
<1> QED
  BY <1>0, <1>3, <1>6, <1>7, <1>8 DEF FlowInv, Gots

LEMMA FlowAppRecv ==
  ASSUME Typed, FlowInv, AppRecv
  PROVE  FlowInv'
<1>0. /\ wire \in Wires /\ AppDown \in Half /\ wire[AppDown] # <<>>
      /\ UNCHANGED <<pc, link, shut, running, appSent, destSent, destGot>>
      /\ wire' = Take(AppDown, wire)
  BY Six DEF Typed, Moved, AppRecv
<1>1. /\ ToApp' = Tail(ToApp)
      /\ UNCHANGED <<FromApp, ToServer, ToDest, FromDest, ToClient>>
  <2>1. /\ wire'[AppDown] = Tail(wire[AppDown])
        /\ \A g \in Half \ {AppDown} : wire'[g] = wire[g]
    BY <1>0, TakeType
  <2> QED
    BY <2>1, Six DEF FromApp, ToServer, ToDest, FromDest, ToClient, ToApp
<1>2. /\ appGot' = Append(appGot, Head(ToApp)) /\ (Len(appGot) >= 2 => Opened)
      /\ ToApp \in Seq(Msg) /\ ToApp # <<>> /\ Head(ToApp) # Eof /\ Head(ToApp) \in Msg
      /\ appGot \in Seq(Msg)
  BY <1>0, AppGets, Flows DEF AppRecv, ToApp, FlowInv, Gots
<1>3. /\ Len(appGot) \in Nat /\ Len(appGot') = Len(appGot) + 1 /\ appGot' \in Seq(Msg)
      /\ Len(ToApp) \in Nat /\ Len(ToApp') = Len(ToApp) - 1
  BY <1>1, <1>2, TailOf, AppendOf
<1>4. /\ Told' = Told /\ (Opened' <=> Opened) /\ (Opening' <=> Opening)
      /\ Payload(DestData)' = Payload(DestData)
      /\ AtClient' = AtClient /\ AtServer' = AtServer
  <2>1. Told' = Told
    BY <1>3 DEF Told
  <2> QED
    BY <1>0, <1>1, <2>1 DEF Opened, Opening, Payload, AtClient, AtServer
<1>5. /\ Clean(ToApp') => Clean(ToApp)
      /\ ClientWrites' => ClientWrites
      /\ ServerWrites' => ServerWrites
  <2>1. Clean(ToApp') => Clean(ToApp)
    BY <1>1, <1>2, CleanTail
  <2>2. ClientWrites' => ClientWrites
    BY <1>0, <1>4, <2>1 DEF ClientWrites
  <2> QED
    BY <1>0, <1>1, <2>1, <2>2 DEF ServerWrites
<1>6. DownInv'
  <2>1. DownToApp'
    <3>1. Len(appGot) - 2 \in Int /\ Len(appGot') - 2 = Len(appGot) - 2 + 1
      BY <1>3
    <3>2. Carries(Tail(ToApp), Payload(DestData), Len(appGot) - 2 + 1)
      BY <1>2, <3>1, CarriesTail DEF FlowInv, DownInv, DownToApp
    <3>3. ~Opened => Len(appGot') <= 2
      BY <1>2, <1>3
    <3> QED
      BY <1>1, <1>4, <3>1, <3>2, <3>3 DEF DownToApp
  <2>2. DownReplies'
    BY <1>0, <1>4, <1>5 DEF FlowInv, DownInv, DownReplies
  <2>3. DownToClient' /\ DownFromDest'
    BY <1>0, <1>1, <1>4, <1>5 DEF FlowInv, DownInv, DownToClient, DownFromDest
  <2> QED
    BY <2>1, <2>2, <2>3 DEF DownInv
<1>7. UpInv'
  BY <1>0, <1>1, UpFrame DEF FlowInv
<1>8. SocketInv'
  BY <1>0, <1>1 DEF FlowInv, SocketInv, Live
<1> QED
  BY <1>0, <1>3, <1>6, <1>7, <1>8 DEF FlowInv, Gots

(* What is in flight on a link is lost with it.                            *)
LEMMA FlowCut ==
  ASSUME Typed, FlowInv, NEW l \in Link, Cut(l)
  PROVE  FlowInv'
<1>0. /\ link[l] = "open" /\ link' = [link EXCEPT ![l] = "cut"]
      /\ wire' = [h \in Half |-> IF h[1] = l THEN <<>> ELSE wire[h]]
      /\ UNCHANGED <<pc, shut, running, appSent, destSent, appGot, destGot>>
  BY DEF Cut, ends
<1>1. /\ FromApp' = IF l = "app" THEN <<>> ELSE FromApp
      /\ ToApp' = IF l = "app" THEN <<>> ELSE ToApp
      /\ ToServer' = IF l = "tunnel" THEN <<>> ELSE ToServer
      /\ ToClient' = IF l = "tunnel" THEN <<>> ELSE ToClient
      /\ ToDest' = IF l = "dest" THEN <<>> ELSE ToDest
      /\ FromDest' = IF l = "dest" THEN <<>> ELSE FromDest
  BY <1>0, Six, Links DEF FromApp, ToServer, ToDest, FromDest, ToClient, ToApp
<1>2. /\ link'.app = IF l = "app" THEN "cut" ELSE link.app
      /\ link'.tunnel = IF l = "tunnel" THEN "cut" ELSE link.tunnel
      /\ link'.dest = IF l = "dest" THEN "cut" ELSE link.dest
  BY <1>0, Links DEF Typed
<1>3. \A data, n : Carries(<<>>, data, n)
  BY DEF Carries
<1>4. /\ (Opened' <=> Opened) /\ (Opening' <=> Opening)
      /\ Payload(AppData)' = Payload(AppData) /\ Payload(DestData)' = Payload(DestData)
      /\ l = "app" \/ l = "tunnel" \/ l = "dest"
  BY <1>0 DEF Opened, Opening, Payload, Link
<1>5. SocketInv'
  BY <1>0, <1>1, <1>2 DEF FlowInv, SocketInv, Live
<1>6. UpInv'
  <2>1. UpToDest'
    BY <1>0, <1>1, <1>3, <1>4 DEF FlowInv, UpInv, UpToDest
  <2>2. CASE l = "app"
    <3>1. /\ (ServerReads' <=> ServerReads) /\ AtDest' = AtDest
      BY <1>0, <1>1, <1>2, <2>2 DEF ServerReads, AtDest
    <3> QED
      BY <1>1, <1>2, <1>3, <1>4, <2>1, <2>2, <3>1 DEF FlowInv, UpInv, UpToServer, UpFromApp
  <2>3. CASE l # "app"
    <3>1. ClientReads' => Opening
      BY <1>2, <1>4, <2>3 DEF ClientReads, ServerReads
    <3>2. Opening => ClientReads /\ AtTunnel' = AtTunnel
      BY <1>0 DEF ClientReads, AtTunnel, Opening, Trying
    <3>3. UpFromApp'
      BY <1>0, <1>1, <1>2, <2>3, <3>1, <3>2 DEF FlowInv, UpInv, UpFromApp
    <3>4. UpToServer'
      <4>1. CASE l = "tunnel"
        BY <1>1, <1>3, <4>1 DEF UpToServer
      <4>2. CASE l = "dest"
        BY <1>2, <4>2 DEF UpToServer, ServerReads
      <4> QED
        BY <1>4, <2>3, <4>1, <4>2
    <3> QED
      BY <2>1, <3>3, <3>4 DEF UpInv
  <2> QED
    BY <2>2, <2>3
<1>7. DownInv'
  <2>1. DownToApp'
    BY <1>0, <1>1, <1>3, <1>4 DEF FlowInv, DownInv, DownToApp
  <2>2. DownReplies'
    <3>1. l # "app" => Told' = Told
      BY <1>0, <1>1 DEF Told
    <3> QED
      BY <1>0, <1>1, <1>2, <3>1 DEF FlowInv, DownInv, DownReplies
  <2>3. ClientWrites' => ClientWrites /\ AtClient' = AtClient
    <3>1. CASE l = "app"
      <4>1. ClientWrites' => Opening
        BY <1>2, <1>4, <3>1 DEF ClientWrites
      <4>2. Opening => ClientWrites /\ AtClient' = AtClient
        BY <1>0 DEF ClientWrites, AtClient, Opening, Trying
      <4> QED
        BY <4>1, <4>2
    <3>2. CASE l # "app"
      BY <1>0, <1>1, <1>2, <1>4, <3>2 DEF ClientWrites, AtClient, Told
    <3> QED
      BY <3>1, <3>2
  <2>4. DownToClient'
    BY <1>1, <1>3, <2>3 DEF FlowInv, DownInv, DownToClient
  <2>5. DownFromDest'
    <3>1. CASE l = "tunnel"
      BY <1>2, <3>1 DEF DownFromDest, ServerWrites
    <3>2. CASE l = "dest"
      BY <1>1, <1>2, <1>3, <3>2 DEF DownFromDest
    <3>3. CASE l = "app"
      <4>1. ServerWrites' => ServerWrites /\ AtServer' = AtServer
        BY <1>0, <1>1, <1>2, <2>3, <3>3 DEF ServerWrites, AtServer
      <4> QED
        BY <1>0, <1>1, <1>2, <3>3, <4>1 DEF FlowInv, DownInv, DownFromDest
    <3> QED
      BY <1>4, <3>1, <3>2, <3>3
  <2> QED
    BY <2>1, <2>2, <2>4, <2>5 DEF DownInv
<1> QED
  BY <1>0, <1>5, <1>6, <1>7 DEF FlowInv, Gots

LEMMA FlowStep ==
  ASSUME Typed, Core, FlowInv, [Next]_vars
  PROVE  FlowInv'
<1>1. ASSUME UNCHANGED <<pc, link, wire, shut, running, ends>> PROVE FlowInv'
  <2>1. UNCHANGED <<appSent, destSent, appGot, destGot>>
    BY <1>1 DEF ends
  <2>2. UNCHANGED <<FromApp, ToServer, ToDest, FromDest, ToClient, ToApp>>
    BY <1>1 DEF FromApp, ToServer, ToDest, FromDest, ToClient, ToApp
  <2>3. UpInv' /\ DownInv'
    BY <1>1, <2>1, <2>2, UpFrame, DownFrame DEF FlowInv
  <2>4. SocketInv'
    BY <1>1, <2>2 DEF FlowInv, SocketInv, Live
  <2> QED
    BY <2>1, <2>3, <2>4 DEF FlowInv, Gots
<1>2. CASE Client
  BY <1>2, FlowGreets, FlowRequests, FlowDials, FlowAwaits DEF Client
<1>3. CASE Server
  BY <1>3, FlowServer
<1>4. CASE Relay
  BY <1>4, FlowRelay
<1>5. CASE Environment
  <2>1. Tick => UNCHANGED <<pc, link, wire, shut, running, ends>>
    BY DEF Tick
  <2> QED
    BY <1>1, <1>5, <2>1, FlowAppSends, FlowDestSends, FlowAppRecv, FlowDestRecv,
       FlowCut, FlowKill DEF Environment
<1>6. CASE UNCHANGED vars
  BY <1>1, <1>6 DEF vars
<1> QED
  BY <1>2, <1>3, <1>4, <1>5, <1>6 DEF Next

LEMMA FlowInit ==
  ASSUME Init
  PROVE  FlowInv
<1>1. /\ FromApp = <<>> /\ ToServer = <<>> /\ ToDest = <<>>
      /\ FromDest = <<>> /\ ToClient = <<>> /\ ToApp = <<>>
  BY Six DEF Init, FromApp, ToServer, ToDest, FromDest, ToClient, ToApp
<1>2. /\ pc.client = "greeting" /\ pc.server = "idle" /\ shut = {} /\ link.app = "open"
      /\ appGot = <<>> /\ destGot = <<>> /\ appSent = 0 /\ Len(<<>>) = 0
      /\ ~Opened /\ AtTunnel = -2 /\ <<>> \in Seq(Msg)
  BY Links, EmptySeq DEF Init, Opened, AtTunnel
<1>3. \A data, n : Carries(<<>>, data, n)
  BY DEF Carries
<1>4. UpInv
  BY <1>1, <1>2, <1>3 DEF UpInv, UpToDest, UpToServer, UpFromApp
<1>5. DownInv
  <2>1. ~ServerWrites \/ AtServer = 0
    BY <1>2 DEF AtServer
  <2>2. Told = 0 /\ destSent = 0 /\ AtServer = 0
    BY <1>1, <1>2 DEF Told, Init, AtServer
  <2> QED
    BY <1>1, <1>2, <1>3, <2>2, Links
    DEF DownInv, DownToApp, DownReplies, DownToClient, DownFromDest, Trying, Init
<1> QED
  BY <1>1, <1>2, <1>4, <1>5 DEF FlowInv, Gots, SocketInv

LEMMA FlowAlways == Spec => [](Typed /\ Core /\ FlowInv)
<1>1. Init => FlowInv
  BY FlowInit
<1>2. Typed /\ Core /\ FlowInv /\ [Next]_vars => FlowInv'
  BY FlowStep
<1> QED
  BY <1>1, <1>2, CoreAlways, PTL DEF Spec

-----------------------------------------------------------------------------
(* The refinement.                                                         *)

(* What is data behind the two replies grows with what is received.        *)
LEMMA DataGrows ==
  ASSUME NEW s \in Seq(Msg), NEW m \in Msg
  PROVE  /\ Len(s) < 2 => Data(Append(s, m)) = Data(s)
         /\ Len(s) >= 2 => /\ Len(Data(s)) = Len(s) - 2
                           /\ Data(Append(s, m)) = Append(Data(s), m)
<1>1. /\ Append(s, m) \in Seq(Msg) /\ Len(Append(s, m)) = Len(s) + 1
      /\ \A i \in 1..Len(s) : Append(s, m)[i] = s[i]
      /\ Append(s, m)[Len(s) + 1] = m
  BY AppendProperties
<1>2. Len(s) \in Nat /\ \A i \in 1..Len(s) : s[i] \in Msg
  BY LenProperties, ElementOfSeq
<1>3. ASSUME Len(s) < 2 PROVE Data(Append(s, m)) = Data(s)
  BY <1>1, <1>2, <1>3, SubSeqEmpty DEF Data
<1>4. ASSUME Len(s) >= 2
      PROVE  Len(Data(s)) = Len(s) - 2 /\ Data(Append(s, m)) = Append(Data(s), m)
  <2> DEFINE d == Data(s)
             e == Data(Append(s, m))
  <2>1. /\ d \in Seq(Msg) /\ Len(d) = Len(s) - 2
        /\ \A i \in 1..Len(s) - 2 : d[i] = s[i + 2]
    <3>1. \A i \in 3..Len(s) : s[i] \in Msg
      BY <1>2
    <3>2. /\ SubSeq(s, 3, Len(s)) \in Seq(Msg)
          /\ Len(SubSeq(s, 3, Len(s))) = IF 3 <= Len(s) THEN Len(s) - 3 + 1 ELSE 0
          /\ \A i \in 1..Len(s) - 3 + 1 : SubSeq(s, 3, Len(s))[i] = s[3 + i - 1]
      BY <1>2, <3>1, SubSeqProperties
    <3>3. \A i \in 1..Len(s) - 2 : i \in 1..Len(s) - 3 + 1 /\ 3 + i - 1 = i + 2
      BY <1>2
    <3>4. (IF 3 <= Len(s) THEN Len(s) - 3 + 1 ELSE 0) = Len(s) - 2
      <4>1. Len(s) \in Nat /\ Len(s) >= 2
        BY <1>2, <1>4
      <4>2. CASE 3 <= Len(s)
        BY <4>1, <4>2
      <4>3. CASE ~(3 <= Len(s))
        <5>1. ASSUME NEW l \in Nat, l >= 2, ~(3 <= l) PROVE l = 2
          BY <5>1
        <5>2. Len(s) = 2
          BY <4>1, <4>3, <5>1
        <5> QED
          BY <4>3, <5>2
      <4> QED
        BY <4>2, <4>3
    <3> QED
      BY <3>2, <3>3, <3>4 DEF Data
  <2>2. /\ e \in Seq(Msg) /\ Len(e) = Len(s) - 1
        /\ \A i \in 1..Len(s) - 1 : e[i] = Append(s, m)[i + 2]
    <3> DEFINE t == Append(s, m)
    <3>0. t \in Seq(Msg) /\ Len(t) = Len(s) + 1
      BY <1>1
    <3> HIDE DEF t
    <3>1. Len(t) \in Nat /\ \A i \in 3..Len(t) : t[i] \in Msg
      BY <3>0, LenProperties, ElementOfSeq
    <3>2. /\ SubSeq(t, 3, Len(t)) \in Seq(Msg)
          /\ Len(SubSeq(t, 3, Len(t))) = IF 3 <= Len(t) THEN Len(t) - 3 + 1 ELSE 0
          /\ \A i \in 1..Len(t) - 3 + 1 : SubSeq(t, 3, Len(t))[i] = t[3 + i - 1]
      BY <3>1, SubSeqProperties
    <3>3. \A i \in 1..Len(s) - 1 : i \in 1..Len(t) - 3 + 1 /\ 3 + i - 1 = i + 2
      BY <1>2, <3>0
    <3>4. (IF 3 <= Len(t) THEN Len(t) - 3 + 1 ELSE 0) = Len(s) - 1
      BY <1>2, <1>4, <3>0
    <3>5. e = SubSeq(t, 3, Len(t))
      BY DEF Data, t
    <3>6. \A i \in 1..Len(s) - 1 : e[i] = t[i + 2]
      BY <3>2, <3>3, <3>5
    <3> QED
      BY <3>2, <3>4, <3>5, <3>6 DEF t
  <2> HIDE DEF d, e
  <2>3. /\ Append(d, m) \in Seq(Msg) /\ Len(Append(d, m)) = Len(s) - 1
        /\ \A i \in 1..Len(s) - 2 : Append(d, m)[i] = d[i]
        /\ Append(d, m)[Len(s) - 1] = m
    <3>1. Len(s) - 2 + 1 = Len(s) - 1
      BY <1>2
    <3> QED
      BY <2>1, <3>1, AppendProperties
  <2>4. ASSUME NEW i \in 1..Len(s) - 1 PROVE e[i] = Append(d, m)[i]
    <3>1. CASE i = Len(s) - 1
      <4>1. i + 2 = Len(s) + 1
        BY <1>2, <3>1
      <4> QED
        BY <1>1, <2>2, <2>3, <3>1, <4>1
    <3>2. CASE i # Len(s) - 1
      <4>1. i \in 1..Len(s) - 2 /\ i + 2 \in 1..Len(s)
        BY <1>2, <3>2
      <4> QED
        BY <1>1, <2>1, <2>2, <2>3, <4>1
    <3> QED
      BY <3>1, <3>2
  <2>5. e = Append(d, m)
    BY <2>2, <2>3, <2>4, SeqEqual
  <2> QED
    BY <2>1, <2>5 DEF d, e
<1> QED
  BY <1>3, <1>4

LEMMA Phases ==
  /\ (Opening => Phase = "opening") /\ (Opening' => Phase' = "opening")
  /\ (Opened => Phase = "open") /\ (Opened' => Phase' = "open")
  /\ pc.client \in ClientFailures => Phase = "failed"
  /\ pc'.client \in ClientFailures => Phase' = "failed"
<1>1. /\ Opening => ~Opened /\ pc.client \notin ClientFailures
      /\ Opening' => ~Opened' /\ pc'.client \notin ClientFailures
      /\ pc.client \in ClientFailures => ~Opened
      /\ pc'.client \in ClientFailures => ~Opened'
  BY DEF Opening, Opened, ClientFailures, Trying
<1> QED
  BY <1>1 DEF Phase

(* The client opens the tunnel at most once, and behind a destination that *)
(* was reached.                                                            *)
LEMMA ClientPhases ==
  ASSUME Typed, Core, Client
  PROVE  /\ UNCHANGED ends /\ link'.dest = link.dest /\ Opening
         /\ \/ Opening'
            \/ pc'.client \in ClientFailures
            \/ pc'.client = "relay" /\ link.dest # "closed"
<1>1. UNCHANGED ends /\ Opening
  BY DEF Client, ReadGreeting, ReadRequest, ConnectServer, ConnectTls, SendHeader, AwaitReply,
     Opening, Trying
<1>2. ASSUME NEW how \in ClientFailures, NEW w, Return("client", how, w)
      PROVE  pc'.client \in ClientFailures
  BY <1>2, PcMoves DEF Return
<1>3. ASSUME NEW where \in {"greeting", "request", "connect"} \cup Trying, NEW w,
             Goto("client", where, w)
      PROVE  Opening'
  BY <1>3, PcMoves DEF Goto, Opening
<1>4. "socksError" \in ClientFailures /\ "connectError" \in ClientFailures
      /\ "tlsError" \in ClientFailures /\ "ioError" \in ClientFailures
      /\ "request" \in {"greeting", "request", "connect"} \cup Trying
      /\ "connect" \in {"greeting", "request", "connect"} \cup Trying
      /\ "header" \in {"greeting", "request", "connect"} \cup Trying
      /\ AfterHeader \in {"greeting", "request", "connect"} \cup Trying
  BY DEF ClientFailures, Trying, AfterHeader
<1>5. CASE ReadGreeting
  BY <1>1, <1>2, <1>3, <1>4, <1>5 DEF ReadGreeting
<1>6. CASE ReadRequest
  BY <1>1, <1>2, <1>3, <1>4, <1>6 DEF ReadRequest
<1>7. CASE ConnectServer
  <2>1. CASE /\ link' = [link EXCEPT !.tunnel = "open"]
             /\ pc' = [client |-> "tls", server |-> "tls"]
    BY <1>1, <2>1, Links DEF Typed, Opening, Trying
  <2>2. CASE Return("client", "connectError", wire) /\ UNCHANGED link
    BY <1>1, <1>2, <1>4, <2>2
  <2> QED
    BY <1>7, <2>1, <2>2 DEF ConnectServer
<1>8. CASE ConnectTls
  BY <1>1, <1>2, <1>3, <1>4, <1>8 DEF ConnectTls
<1>9. CASE SendHeader
  BY <1>1, <1>2, <1>3, <1>4, <1>9 DEF SendHeader
<1>10. CASE AwaitReply
  <2>0. UNCHANGED link /\ pc.client = "reply"
    BY <1>10 DEF AwaitReply
  <2>1. ASSUME NEW r \in {"ok", "authFail", "dialFail"}, Arrives(TunDown, r),
               IF r \in AcceptingReply THEN Goto("client", "relay", Take(TunDown, wire))
                                       ELSE Return("client", r, Take(TunDown, wire))
        PROVE  pc'.client \in ClientFailures \/ (pc'.client = "relay" /\ link.dest # "closed")
    <3>1. CASE r = "ok"
      <4>1. ToClient # <<>> /\ Head(ToClient) = "ok"
        BY <2>1, <3>1 DEF Arrives, ToClient
      <4>2. link.dest # "closed"
        BY <2>0, <4>1 DEF Core, ReplyInv, Judged, Trying
      <4>3. pc' = [pc EXCEPT !["client"] = "relay"]
        BY <2>1, <3>1 DEF AcceptingReply, Goto
      <4> QED
        BY <4>2, <4>3, PcMoves
    <3>2. CASE r # "ok"
      BY <1>2, <2>1, <3>2 DEF AcceptingReply, ClientFailures
    <3> QED
      BY <3>1, <3>2
  <2> QED
    BY <1>1, <1>2, <1>4, <1>10, <2>0, <2>1 DEF AwaitReply
<1> QED
  BY <1>5, <1>6, <1>7, <1>8, <1>9, <1>10 DEF Client

(* The exit node reaches the destination at most once.                     *)
LEMMA ServerPhases ==
  ASSUME Typed, Core, Server
  PROVE  /\ UNCHANGED ends /\ pc'.client = pc.client
         /\ \/ link'.dest = link.dest
            \/ link.dest = "closed" /\ link'.dest # "closed"
<1>1. UNCHANGED ends
  BY DEF Server, AcceptTls, ReadHeader, Dial, SendOk, ForwardEarly
<1>2. ASSUME NEW how, NEW w, Return("server", how, w) \/ Goto("server", how, w)
      PROVE  pc'.client = pc.client
  BY <1>2, PcMoves DEF Return, Goto
<1>3. CASE Dial
  <2>1. pc'.client = pc.client
    BY <1>2, <1>3 DEF Dial, DialFailed
  <2>2. link.dest = "closed" /\ (link' = link \/ link'.dest = "open")
    BY <1>3, Links DEF Core, DialInv, Dial, Typed
  <2> QED
    BY <1>1, <2>1, <2>2
<1>4. CASE ReadHeader
  <2>1. link' = link
    BY <1>4 DEF ReadHeader
  <2>2. ASSUME NEW result, NEW rest,
               CASE result = "truncated" -> Goto("server", "reading", rest)
                 [] result = "valid" -> Goto("server", "dialing", rest)
                 [] OTHER -> Return("server", result, Put(TunDown, <<"authFail">>, rest))
        PROVE  pc'.client = pc.client
    BY <1>2, <2>2
  <2> QED
    BY <1>1, <1>2, <1>4, <2>1, <2>2 DEF ReadHeader
<1>5. CASE AcceptTls \/ SendOk \/ ForwardEarly
  BY <1>1, <1>2, <1>5 DEF AcceptTls, SendOk, ForwardEarly
<1> QED
  BY <1>3, <1>4, <1>5 DEF Server

(* Every step of a connection is a step of the pipe, or none.              *)
LEMMA PipeStep ==
  ASSUME Typed, Core, FlowInv, [Next]_vars
  PROVE  [AbstractPipe!Next]_(AbstractPipe!vars)
<1> USE DEF AbstractPipe!Next, AbstractPipe!Reach, AbstractPipe!Open, AbstractPipe!Fail,
            AbstractPipe!DeliverToDest, AbstractPipe!DeliverToApp, AbstractPipe!vars
<1>1. ASSUME Phase' = Phase, (link'.dest # "closed") <=> (link.dest # "closed"),
             destGot' = destGot, Data(appGot)' = Data(appGot)
      PROVE  UNCHANGED AbstractPipe!vars
  BY <1>1
<1>2. CASE Client \/ Kill("client")
  <2>1. /\ UNCHANGED ends /\ link'.dest = link.dest /\ Opening
        /\ \/ Opening'
           \/ pc'.client \in ClientFailures
           \/ pc'.client = "relay" /\ link.dest # "closed"
    <3>1. CASE Client
      BY <3>1, ClientPhases
    <3>2. CASE Kill("client")
      <4>1. /\ pc.client \notin ClientFailures \cup ServerFailures \cup {"idle", "relay", "closed"}
            /\ pc' = [pc EXCEPT !["client"] = "killed"] /\ UNCHANGED <<link, ends>>
        BY <3>2 DEF Kill, Return
      <4>2. pc'.client = "killed" /\ "killed" \in ClientFailures
        BY <4>1, PcMoves DEF ClientFailures
      <4>3. Opening
        BY <4>1 DEF Typed, Moved, ClientPc, Opening, Trying
      <4> QED
        BY <4>1, <4>2, <4>3
    <3> QED
      BY <1>2, <3>1, <3>2
  <2>2. destGot' = destGot /\ Data(appGot)' = Data(appGot)
    BY <2>1 DEF ends, Data
  <2>3. pc'.client = "relay" => Opened'
    BY DEF Opened
  <2> QED
    BY <2>1, <2>2, <2>3, Phases
<1>3. CASE Server \/ Kill("server")
  <2>1. /\ UNCHANGED ends /\ pc'.client = pc.client
        /\ \/ link'.dest = link.dest
           \/ link.dest = "closed" /\ link'.dest # "closed"
    <3>1. CASE Kill("server")
      BY <3>1, PcMoves DEF Kill, Return
    <3> QED
      BY <1>3, <3>1, ServerPhases
  <2>2. destGot' = destGot /\ Data(appGot)' = Data(appGot) /\ Phase' = Phase
    BY <2>1 DEF ends, Data, Phase, Opened
  <2> QED
    BY <2>1, <2>2
<1>4. CASE Relay
  <2>1. ASSUME NEW n \in Node, CopyFails(n) \/ \E d \in Dir : Copy(n, d)
        PROVE  /\ UNCHANGED <<link, ends>> /\ pc[n] = "relay"
               /\ pc' = pc \/ pc' = [pc EXCEPT ![n] = "closed"]
    <3>1. ASSUME CopyFails(n)
          PROVE  /\ UNCHANGED <<link, ends>> /\ pc[n] = "relay"
                 /\ pc' = pc \/ pc' = [pc EXCEPT ![n] = "closed"]
      BY <3>1 DEF CopyFails, Return
    <3>2. ASSUME NEW d \in Dir, Copy(n, d)
          PROVE  /\ UNCHANGED <<link, ends>> /\ pc[n] = "relay"
                 /\ pc' = pc \/ pc' = [pc EXCEPT ![n] = "closed"]
      BY <3>2, CopySteps DEF FlowInv, Passes, HalfCloses, Return
    <3> QED
      BY <2>1, <3>1, <3>2
  <2>2. /\ UNCHANGED <<link, ends>>
        /\ Opened' <=> Opened
        /\ pc'.client = pc.client \/ Opened
    BY <1>4, <2>1 DEF Relay, Opened, Node, Typed, Moved
  <2>3. destGot' = destGot /\ Data(appGot)' = Data(appGot)
    BY <2>2 DEF ends, Data
  <2>4. Phase' = Phase
    BY <2>2, Phases DEF Phase
  <2> QED
    BY <1>1, <2>2, <2>3, <2>4
<1>5. CASE DestRecv
  <2>1. /\ Opened /\ Len(destGot) < Len(AppData)
        /\ destGot' = Append(destGot, AppData[Len(destGot) + 1])
        /\ UNCHANGED <<pc, link, appGot>>
    BY <1>5, DestGets DEF DestRecv
  <2>2. Opened' /\ Data(appGot)' = Data(appGot) /\ link'.dest = link.dest
    BY <2>1 DEF Opened, Data
  <2> QED
    BY <2>1, <2>2, Phases
<1>6. CASE AppRecv
  <2>1. /\ appGot' = Append(appGot, Head(ToApp)) /\ Head(ToApp) \in Msg
        /\ Len(appGot) >= 2 =>
             /\ Opened /\ Len(appGot) - 2 < Len(DestData)
             /\ Head(ToApp) = DestData[Len(appGot) - 2 + 1]
        /\ UNCHANGED <<pc, link, destGot>>
    BY <1>6, AppGets DEF AppRecv
  <2>2. appGot \in Seq(Msg) /\ Len(appGot) \in Nat
    BY LenProperties DEF FlowInv, Gots
  <2>3. Phase' = Phase /\ link'.dest = link.dest
    BY <2>1 DEF Phase, Opened
  <2>4. Data(appGot)' = Data(Append(appGot, Head(ToApp)))
    BY <2>1 DEF Data
  <2>5. CASE Len(appGot) < 2
    <3>1. Data(appGot)' = Data(appGot)
      BY <2>1, <2>2, <2>4, <2>5, DataGrows
    <3> QED
      BY <1>1, <2>1, <2>3, <3>1
  <2>6. CASE Len(appGot) >= 2
    <3>1. /\ Len(Data(appGot)) = Len(appGot) - 2
          /\ Data(appGot)' = Append(Data(appGot), Head(ToApp))
      BY <2>1, <2>2, <2>4, <2>6, DataGrows
    <3>2. /\ Opened /\ Len(Data(appGot)) < Len(DestData)
          /\ Data(appGot)' = Append(Data(appGot), DestData[Len(Data(appGot)) + 1])
      BY <2>1, <2>6, <3>1
    <3>3. Phase = "open"
      BY <3>2, Phases
    <3> QED
      BY <2>1, <2>3, <3>2, <3>3
  <2>7. Len(appGot) < 2 \/ Len(appGot) >= 2
    BY <2>2
  <2> QED
    BY <2>5, <2>6, <2>7
<1>7. ASSUME UNCHANGED <<pc, appGot, destGot>>, link'.dest # "closed" <=> link.dest # "closed"
      PROVE  UNCHANGED AbstractPipe!vars
  BY <1>7 DEF Phase, Opened, Data
<1>8. CASE AppSend \/ AppClose \/ DestSend \/ DestClose \/ Tick
  BY <1>7, <1>8 DEF AppSend, AppClose, DestSend, DestClose, Tick, ends
<1>9. ASSUME NEW l \in Link, Cut(l) PROVE UNCHANGED AbstractPipe!vars
  <2>1. link'.dest # "closed" <=> link.dest # "closed"
    BY <1>9, Links DEF Cut, Typed
  <2> QED
    BY <1>7, <1>9, <2>1 DEF Cut, ends
<1>10. CASE UNCHANGED vars
  BY <1>7, <1>10 DEF vars, ends
<1> QED
  BY <1>2, <1>3, <1>4, <1>5, <1>6, <1>8, <1>9, <1>10 DEF Next, Environment, Node

(* A connection keeps what a pipe promises its two ends, for payloads of   *)
(* any length and under any interleaving of cuts, deaths and half-closes:  *)
(* it opens at most once and behind a reached destination, and each end    *)
(* receives a prefix of what the other sent, in order and without gaps.    *)
THEOREM PipeIsImplemented == Spec => ImplementsPipe
<1>1. Init => AbstractPipe!Init
  <2> SUFFICES ASSUME Init PROVE AbstractPipe!Init
    OBVIOUS
  <2>1. Opening /\ link.dest = "closed" /\ destGot = <<>> /\ appGot = <<>>
    BY Links DEF Init, Opening
  <2>2. Data(<<>>) = <<>>
    BY EmptySeq, SubSeqEmpty DEF Data
  <2> QED
    BY <2>1, <2>2, Phases DEF AbstractPipe!Init
<1>2. Typed /\ Core /\ FlowInv /\ [Next]_vars => [AbstractPipe!Next]_(AbstractPipe!vars)
  BY PipeStep
<1> QED
  BY <1>1, <1>2, FlowAlways, PTL DEF Spec, ImplementsPipe, AbstractPipe!Spec
==============================================================================
