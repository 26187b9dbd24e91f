----------------------------- MODULE TunnelProofs -----------------------------
(* What a connection's two ends may believe of each other, for payloads of *)
(* any length, any skews and any interleaving with cuts and deaths.        *)
(*                                                                         *)
(* The invariant follows the two halves of the tunnel.  Towards the exit   *)
(* node it holds what is left of one fixed stream (ReadInv, SendInv), so   *)
(* that the buffer is a prefix of the header; back, it holds nothing       *)
(* before the reply, and the reply at its head is true until the client    *)
(* has read it (ReplyInv).                                                 *)
EXTENDS Tunnel, SequenceTheorems, TLAPS

(* Whatever is ever on a wire.                                             *)
Msg ==
  Range(AppData) \cup Range(DestData) \cup Requests \cup
  {Eof, "greeting", "badGreeting", "method", "success", "refused", "finished",
   "fixed", "addr", "mac", "ok", "authFail", "dialFail"}

ClientPc == ClientFailures \cup {"greeting", "request", "connect", "tls",
                                 "header", "reply", "relay", "closed"}
ServerPc == ServerFailures \cup {"idle", "tls", "reading", "dialing", "dialed",
                                 "early", "relay", "closed"}

Wires == [Half -> Seq(Msg)]

(* Where the tasks stand and what their sockets hold.                      *)
Moved ==
  /\ pc \in [Node -> ClientPc \cup ServerPc]
  /\ pc.client \in ClientPc /\ pc.server \in ServerPc
  /\ wire \in Wires
  /\ shut \subseteq Half

Typed ==
  /\ Moved
  /\ link \in [Link -> {"closed", "open", "cut"}]
  /\ running \in [Node -> SUBSET Dir]
  /\ buf \in Seq(Msg)
  /\ request \in Requests \cup {"none"}
  /\ stamp \in Int /\ now \in 0..MaxClock /\ skew \in Skews /\ sameKey \in BOOLEAN
  /\ appSent \in 0..(2 + Len(AppData)) /\ destSent \in 0..Len(DestData)

PcOf(n) == IF n = "client" THEN ClientPc ELSE ServerPc

LEMMA Halves ==
  /\ AppUp \in Half /\ AppDown \in Half /\ TunUp \in Half /\ TunDown \in Half
  /\ DestUp \in Half /\ DestDown \in Half
  /\ \A n \in Node, d \in Dir : Input[n][d] \in Half /\ Output[n][d] \in Half
  /\ TunUp # TunDown
  /\ {AppUp, AppDown, DestUp, DestDown} \cap {TunUp, TunDown} = {}
<1>1. /\ AppUp \in Half /\ AppDown \in Half /\ TunUp \in Half /\ TunDown \in Half
      /\ DestUp \in Half /\ DestDown \in Half
  BY DEF Half, Link, Dir, AppUp, AppDown, TunUp, TunDown, DestUp, DestDown
<1> QED
  BY <1>1 DEF Input, Output, Node, Dir, AppUp, AppDown, TunUp, TunDown, DestUp, DestDown

LEMMA Controls ==
  /\ Eof \in Msg
  /\ \A m \in {"greeting", "badGreeting", "method", "success", "refused", "finished",
        "fixed", "addr", "mac", "ok", "authFail", "dialFail"} : m \in Msg
  /\ Header \in Seq(Msg) /\ Len(Header) = 3
  /\ Header[1] = "fixed" /\ Header[2] = "addr" /\ Header[3] = "mac"
  BY DEF Msg, Header

LEMMA PutType ==
  ASSUME NEW w \in Wires, NEW h \in Half, NEW ms \in Seq(Msg)
  PROVE  /\ Put(h, ms, w) \in Wires
         /\ Put(h, ms, w)[h] = w[h] \o ms
         /\ \A g \in Half \ {h} : Put(h, ms, w)[g] = w[g]
  BY ConcatProperties DEF Put, Wires

LEMMA PutOne ==
  ASSUME NEW w \in Wires, NEW h \in Half, NEW m \in Msg
  PROVE  /\ Put(h, <<m>>, w) \in Wires
         /\ Put(h, <<m>>, w)[h] = Append(w[h], m)
         /\ \A g \in Half \ {h} : Put(h, <<m>>, w)[g] = w[g]
<1>1. <<m>> \in Seq(Msg)
  OBVIOUS
<1>2. w[h] \in Seq(Msg)
  BY DEF Wires
<1>3. Append(w[h], m) = w[h] \o <<m>>
  BY <1>2, AppendIsConcat
<1> QED
  BY <1>1, <1>3, PutType

LEMMA PutDown ==
  ASSUME NEW w \in Wires, NEW m \in Msg
  PROVE  Put(TunDown, <<m>>, w) \in Wires /\ Put(TunDown, <<m>>, w)[TunDown] = Append(w[TunDown], m)
<1>1. TunDown \in Half
  BY Halves
<1> QED
  BY <1>1, PutOne

LEMMA AppendOne ==
  ASSUME NEW s \in Seq(Msg), NEW m \in Msg
  PROVE  /\ Append(s, m) \in Seq(Msg) /\ Append(s, m) # <<>>
         /\ Head(Append(s, m)) = IF s = <<>> THEN m ELSE Head(s)
  BY HeadTailAppend, AppendProperties

LEMMA PutHeader ==
  ASSUME NEW w \in Wires
  PROVE  /\ Put(TunUp, Header, w)[TunUp] = w[TunUp] \o Header
         /\ Put(TunUp, Header, w)[TunDown] = w[TunDown]
<1>1. TunUp \in Half /\ TunDown \in Half /\ TunUp # TunDown
  BY Halves
<1> QED
  BY <1>1 DEF Put, Wires

LEMMA FullStream ==
  ASSUME NEW s \in Seq(Msg), NEW t \in Seq(Msg), Len(s) = 1, Len(t) = 3
  PROVE  /\ Len(s \o t) = 4 /\ (s \o t)[1] = s[1]
         /\ (s \o t)[2] = t[1] /\ (s \o t)[3] = t[2] /\ (s \o t)[4] = t[3]
<1>1. /\ Len(s \o t) = Len(s) + Len(t)
      /\ \A i \in 1..Len(s) + Len(t) : (s \o t)[i] =
                     IF i <= Len(s) THEN s[i] ELSE t[i - Len(s)]
  BY ConcatProperties
<1>2. Len(s) + Len(t) = 4
  OBVIOUS
<1> QED
  BY <1>1, <1>2

LEMMA TakeType ==
  ASSUME NEW w \in Wires, NEW h \in Half, w[h] # <<>>
  PROVE  /\ Take(h, w) \in Wires
         /\ Take(h, w)[h] = Tail(w[h])
         /\ \A g \in Half \ {h} : Take(h, w)[g] = w[g]
  BY HeadTailProperties DEF Take, Wires

LEMMA CloseType ==
  ASSUME NEW w \in Wires, NEW hs \in SUBSET Half, shut \subseteq Half, CloseAll(hs, w)
  PROVE  /\ wire' \in Wires
         /\ shut' = shut \cup hs /\ shut' \subseteq Half
         /\ \A g \in Half : \/ wire'[g] = w[g]
                            \/ /\ g \in hs \ shut /\ Up(g)
                               /\ wire'[g] = Append(w[g], Eof)
<1>1. \A g \in Half : Append(w[g], Eof) \in Seq(Msg)
  BY Controls, AppendProperties DEF Wires
<1> QED
  BY <1>1 DEF CloseAll, Wires

LEMMA ReturnType ==
  ASSUME NEW n \in Node, NEW how, NEW w \in Wires, shut \subseteq Half, Return(n, how, w)
  PROVE  /\ pc' = [pc EXCEPT ![n] = how]
         /\ wire' \in Wires
         /\ shut' = shut \cup Outputs(n) /\ shut' \subseteq Half
         /\ \A g \in Half : \/ wire'[g] = w[g]
                            \/ /\ g \in Outputs(n) \ shut /\ Up(g)
                               /\ wire'[g] = Append(w[g], Eof)
<1>1. Outputs(n) \in SUBSET Half
  BY Halves DEF Outputs
<1> QED
  BY <1>1, CloseType DEF Return

-----------------------------------------------------------------------------
(* Types.                                                                  *)

LEMMA GotoMoves ==
  ASSUME Moved, NEW n \in Node, NEW where \in PcOf(n), NEW w \in Wires, Goto(n, where, w)
  PROVE  Moved'
  BY DEF Moved, Goto, PcOf, Node

LEMMA ReturnMoves ==
  ASSUME Moved, NEW n \in Node, NEW how \in PcOf(n), NEW w \in Wires, Return(n, how, w)
  PROVE  Moved'
<1>1. /\ pc' = [pc EXCEPT ![n] = how]
      /\ wire' \in Wires /\ shut' \subseteq Half
  BY ReturnType DEF Moved
<1> QED
  BY <1>1 DEF Moved, PcOf, Node

LEMMA CloseMoves ==
  ASSUME Moved, NEW hs \in SUBSET Half, NEW w \in Wires, CloseAll(hs, w), UNCHANGED pc
  PROVE  Moved'
<1>1. wire' \in Wires /\ shut' \subseteq Half
  BY CloseType DEF Moved
<1> QED
  BY <1>1 DEF Moved

LEMMA SendMoves ==
  ASSUME Moved, wire' \in Wires, UNCHANGED <<pc, shut>>
  PROVE  Moved'
  BY DEF Moved

LEMMA ClientMoves ==
  ASSUME Moved, ReadGreeting \/ ReadRequest \/ ConnectServer \/ ConnectTls \/ SendHeader \/ AwaitReply
  PROVE  Moved'
<1> USE Halves, Controls
<1>0. wire \in Wires /\ "client" \in Node
      /\ \A where \in ClientPc : where \in PcOf("client")
  BY DEF Moved, PcOf, Node
<1>r. ASSUME NEW h \in {AppUp, TunDown}, wire[h] # <<>>
      PROVE  Take(h, wire) \in Wires
  BY <1>0, <1>r, TakeType
<1>1. CASE ReadGreeting
  <2>1. CASE /\ Arrives(AppUp, "greeting")
             /\ Goto("client", "request", Put(AppDown, <<"method">>, Take(AppUp, wire)))
    <3>1. Put(AppDown, <<"method">>, Take(AppUp, wire)) \in Wires
      BY <1>r, <2>1, PutOne DEF Arrives
    <3> QED
      BY <1>0, <2>1, <3>1, GotoMoves DEF ClientPc
  <2>2. CASE Return("client", "socksError", wire)
    BY <1>0, <2>2, ReturnMoves DEF ClientPc, ClientFailures
  <2> QED
    BY <1>1, <2>1, <2>2 DEF ReadGreeting
<1>2. CASE ReadRequest
  <2>1. ASSUME NEW r \in {"short", "long"}, Arrives(AppUp, r),
               Goto("client", "connect", Put(AppDown, <<"success">>, Take(AppUp, wire)))
        PROVE  Moved'
    <3>1. Put(AppDown, <<"success">>, Take(AppUp, wire)) \in Wires
      BY <1>r, <2>1, PutOne DEF Arrives
    <3> QED
      BY <1>0, <2>1, <3>1, GotoMoves DEF ClientPc
  <2>2. CASE Return("client", "socksError", Put(AppDown, <<"refused">>, wire))
    <3>1. Put(AppDown, <<"refused">>, wire) \in Wires
      BY <1>0, PutOne
    <3> QED
      BY <1>0, <2>2, <3>1, ReturnMoves DEF ClientPc, ClientFailures
  <2>3. CASE Return("client", "socksError", wire)
    BY <1>0, <2>3, ReturnMoves DEF ClientPc, ClientFailures
  <2> QED
    BY <1>2, <2>1, <2>2, <2>3 DEF ReadRequest
<1>3. CASE ConnectServer
  <2>1. CASE pc' = [client |-> "tls", server |-> "tls"] /\ UNCHANGED <<wire, shut>>
    BY <2>1 DEF Moved, ClientPc, ServerPc, Node
  <2>2. CASE Return("client", "connectError", wire)
    BY <1>0, <2>2, ReturnMoves DEF ClientPc, ClientFailures
  <2> QED
    BY <1>3, <2>1, <2>2 DEF ConnectServer
<1>4. CASE ConnectTls
  <2>1. Put(TunUp, <<"finished">>, wire) \in Wires
    BY <1>0, PutOne
  <2>2. CASE Goto("client", "header", Put(TunUp, <<"finished">>, wire))
    BY <1>0, <2>1, <2>2, GotoMoves DEF ClientPc
  <2>3. CASE Return("client", "tlsError", wire)
    BY <1>0, <2>3, ReturnMoves DEF ClientPc, ClientFailures
  <2> QED
    BY <1>4, <2>2, <2>3 DEF ConnectTls
<1>5. CASE SendHeader
  <2>1. Put(TunUp, Header, wire) \in Wires
    BY <1>0, PutType
  <2>2. CASE Goto("client", AfterHeader, Put(TunUp, Header, wire))
    BY <1>0, <2>1, <2>2, GotoMoves DEF ClientPc, AfterHeader
  <2>3. CASE Return("client", "ioError", wire)
    BY <1>0, <2>3, ReturnMoves DEF ClientPc, ClientFailures
  <2> QED
    BY <1>5, <2>2, <2>3 DEF SendHeader
<1>6. CASE AwaitReply
  <2>1. ASSUME NEW r \in {"ok", "authFail", "dialFail"}, Arrives(TunDown, r),
               IF r \in AcceptingReply THEN Goto("client", "relay", Take(TunDown, wire))
                                       ELSE Return("client", r, Take(TunDown, wire))
        PROVE  Moved'
    <3>1. Take(TunDown, wire) \in Wires
      BY <1>r, <2>1 DEF Arrives
    <3>2. CASE r \in AcceptingReply
      BY <1>0, <2>1, <3>1, <3>2, GotoMoves DEF ClientPc
    <3>3. CASE r \notin AcceptingReply
      BY <1>0, <2>1, <3>1, <3>3, ReturnMoves DEF ClientPc, ClientFailures, AcceptingReply
    <3> QED
      BY <3>2, <3>3
  <2>2. CASE Return("client", "ioError", wire)
    BY <1>0, <2>2, ReturnMoves DEF ClientPc, ClientFailures
  <2> QED
    BY <1>6, <2>1, <2>2 DEF AwaitReply
<1> QED
  BY <1>1, <1>2, <1>3, <1>4, <1>5, <1>6

LEMMA ServerMoves ==
  ASSUME Moved, buf \in Seq(Msg), Server
  PROVE  Moved' /\ buf' \in Seq(Msg)
<1> USE Halves, Controls
<1>0. wire \in Wires /\ "server" \in Node
      /\ \A where \in ServerPc : where \in PcOf("server")
  BY DEF Moved, PcOf, Node
<1>r. ASSUME NEW how \in ServerPc, Return("server", how, wire)
      PROVE  Moved'
  BY <1>0, <1>r, ReturnMoves
<1>1. ASSUME AcceptTls PROVE Moved'
  <2>1. CASE Arrives(TunUp, "finished") /\ Goto("server", "reading", Take(TunUp, wire))
    <3>1. Take(TunUp, wire) \in Wires
      BY <1>0, <2>1, TakeType DEF Arrives
    <3> QED
      BY <1>0, <2>1, <3>1, GotoMoves DEF ServerPc
  <2>2. CASE Return("server", "lost", wire)
    BY <1>r, <2>2 DEF ServerPc, ServerFailures
  <2> QED
    BY <1>1, <2>1, <2>2 DEF AcceptTls
<1>2. CASE ReadHeader
  <2>1. ASSUME NEW k \in 1..Len(wire[TunUp]), NEW got, NEW rest, NEW result,
               got = SubSeq(wire[TunUp], 1, k),
               rest = [wire EXCEPT ![TunUp] = SubSeq(@, k + 1, Len(@))],
               result = ParseResult(buf \o got),
               buf' = buf \o got,
               CASE result = "truncated" -> Goto("server", "reading", rest)
                 [] result = "valid" -> Goto("server", "dialing", rest)
                 [] OTHER -> Return("server", result, Put(TunDown, <<"authFail">>, rest))
        PROVE  Moved' /\ buf' \in Seq(Msg)
    <3>1. got \in Seq(Msg) /\ rest \in Wires
      <4>1. wire[TunUp] \in Seq(Msg)
        BY <1>0 DEF Wires
      <4>2. got \in Seq(Msg) /\ SubSeq(wire[TunUp], k + 1, Len(wire[TunUp])) \in Seq(Msg)
        BY <2>1, <4>1, SubSeqProperties, ElementOfSeq, LenProperties
      <4> QED
        BY <1>0, <2>1, <4>2 DEF Wires
    <3>2. buf' \in Seq(Msg)
      BY <2>1, <3>1, ConcatProperties
    <3>3. result \in {"truncated", "valid", "tooLong", "badMac", "stale"}
      BY <2>1 DEF ParseResult
    <3>4. Put(TunDown, <<"authFail">>, rest) \in Wires
      BY <3>1, PutOne
    <3>5. CASE result = "truncated"
      BY <1>0, <2>1, <3>1, <3>2, <3>5, GotoMoves DEF ServerPc
    <3>6. CASE result = "valid"
      BY <1>0, <2>1, <3>1, <3>2, <3>6, GotoMoves DEF ServerPc
    <3>7. CASE result \in {"tooLong", "badMac", "stale"}
      BY <1>0, <2>1, <3>2, <3>4, <3>7, ReturnMoves DEF ServerPc, ServerFailures
    <3> QED
      BY <3>3, <3>5, <3>6, <3>7
  <2>2. CASE Return("server", "lost", wire) /\ UNCHANGED buf
    BY <1>r, <2>2 DEF ServerPc, ServerFailures
  <2> QED
    BY <1>2, <2>1, <2>2 DEF ReadHeader
<1>3. ASSUME Dial PROVE Moved'
  <2>1. CASE Goto("server", "dialed", wire)
    BY <1>0, <2>1, GotoMoves DEF ServerPc
  <2>2. CASE DialFailed
    <3>1. Put(TunDown, <<"dialFail">>, wire) \in Wires
      BY <1>0, PutOne
    <3> QED
      BY <1>0, <2>2, <3>1, ReturnMoves DEF DialFailed, ServerPc, ServerFailures
  <2> QED
    BY <1>3, <2>1, <2>2 DEF Dial
<1>4. ASSUME SendOk PROVE Moved'
  <2>1. Put(TunDown, <<"ok">>, wire) \in Wires
    BY <1>0, PutOne
  <2>2. CASE Goto("server", "early", Put(TunDown, <<"ok">>, wire))
    BY <1>0, <2>1, <2>2, GotoMoves DEF ServerPc
  <2>3. CASE Return("server", "lost", wire)
    BY <1>r, <2>3 DEF ServerPc, ServerFailures
  <2> QED
    BY <1>4, <2>2, <2>3 DEF SendOk
<1>5. ASSUME ForwardEarly PROVE Moved'
  <2>1. SubSeq(buf, Len(Header) + 1, Len(buf)) \in Seq(Msg)
    BY SubSeqProperties, ElementOfSeq, LenProperties
  <2>2. Put(DestUp, SubSeq(buf, Len(Header) + 1, Len(buf)), wire) \in Wires
    BY <1>0, <2>1, PutType
  <2>3. CASE Goto("server", "relay", Put(DestUp, SubSeq(buf, Len(Header) + 1, Len(buf)), wire))
    BY <1>0, <2>2, <2>3, GotoMoves DEF ServerPc
  <2>4. CASE Return("server", "lost", wire)
    BY <1>r, <2>4 DEF ServerPc, ServerFailures
  <2> QED
    BY <1>5, <2>3, <2>4 DEF ForwardEarly
<1> QED
  BY <1>1, <1>2, <1>3, <1>4, <1>5 DEF Server, AcceptTls, Dial, SendOk, ForwardEarly, header

LEMMA RelayMoves ==
  ASSUME Moved, running \in [Node -> SUBSET Dir], Relay
  PROVE  Moved' /\ running' \in [Node -> SUBSET Dir]
<1> USE Halves, Controls
<1>0. wire \in Wires
      /\ \A n \in Node : {"relay", "closed"} \subseteq PcOf(n)
  BY DEF Moved, PcOf, ClientPc, ServerPc
<1>1. ASSUME NEW n \in Node, CopyFails(n)
      PROVE  Moved' /\ running' \in [Node -> SUBSET Dir]
  BY <1>0, <1>1, ReturnMoves DEF CopyFails
<1>2. ASSUME NEW n \in Node, NEW d \in Dir, Copy(n, d)
      PROVE  Moved' /\ running' \in [Node -> SUBSET Dir]
  <2> DEFINE in == Input[n][d]
             out == Output[n][d]
             m == Head(wire[in])
             rest == Take(in, wire)
             left == RunningAfter(n, d)
  <2>1. in \in Half /\ out \in Half /\ wire[in] # <<>>
    BY <1>2 DEF Copy
  <2>2. rest \in Wires
    BY <1>0, <2>1, TakeType
  <2>3. m \in Msg
    BY <1>0, <2>1, HeadTailProperties DEF Wires
  <2>4. left \in SUBSET Dir
    BY DEF RunningAfter
  <2>5. CASE Goto(n, "relay", Put(out, <<m>>, rest)) /\ UNCHANGED running
    <3>1. Put(out, <<m>>, rest) \in Wires
      BY <2>1, <2>2, <2>3, PutOne
    <3> QED
      BY <1>0, <2>5, <3>1, GotoMoves
  <2>6. CASE running' = [running EXCEPT ![n] = left] /\ Return(n, "closed", rest)
    BY <1>0, <2>2, <2>4, <2>6, ReturnMoves
  <2>7. CASE running' = [running EXCEPT ![n] = left] /\ CloseAll({out}, rest) /\ UNCHANGED pc
    <3>1. {out} \in SUBSET Half
      BY <2>1
    <3> QED
      BY <2>2, <2>4, <2>7, <3>1, CloseMoves
  <2> QED
    BY <1>2, <2>5, <2>6, <2>7 DEF Copy
<1> QED
  BY <1>1, <1>2 DEF Relay

LEMMA KillMoves ==
  ASSUME Moved, NEW n \in Node, Kill(n)
  PROVE  Moved'
<1>1. "killed" \in PcOf(n) /\ wire \in Wires
  BY DEF PcOf, ClientPc, ServerPc, ClientFailures, ServerFailures, Moved
<1> QED
  BY <1>1, ReturnMoves DEF Kill

LEMMA EndsMove ==
  ASSUME Typed, AppSend \/ AppClose \/ AppRecv \/ DestSend \/ DestClose \/ DestRecv
  PROVE  /\ Moved'
         /\ appSent' \in 0..(2 + Len(AppData)) /\ destSent' \in 0..Len(DestData)
<1> USE Halves, Controls, TunnelAssumption
<1>0. Moved /\ wire \in Wires
      /\ appSent \in 0..(2 + Len(AppData)) /\ destSent \in 0..Len(DestData)
      /\ Len(AppData) \in Nat /\ Len(DestData) \in Nat
  BY LenProperties DEF Typed, Moved
<1>1. CASE AppSend
  <2>1. ASSUME NEW m \in AppMessages(appSent + 1) PROVE m \in Msg
    <3>1. CASE appSent + 1 > 2
      <4>1. appSent - 1 \in 1..Len(AppData)
        BY <1>0, <1>1, <3>1 DEF AppSend
      <4>2. m = AppData[appSent - 1]
        BY <1>0, <2>1, <3>1 DEF AppMessages
      <4>3. m \in Range(AppData)
        BY <4>1, <4>2, ElementOfSeq
      <4> QED
        BY <4>3 DEF Msg
    <3>2. CASE appSent + 1 \in {1, 2}
      BY <2>1, <3>2 DEF AppMessages, Msg
    <3> QED
      BY <1>0, <3>1, <3>2
  <2>2. wire' \in Wires
    BY <1>0, <1>1, <2>1, PutOne DEF AppSend
  <2> QED
    BY <1>0, <1>1, <2>2, SendMoves DEF AppSend
<1>2. CASE AppClose
  <2>1. {AppUp} \in SUBSET Half
    OBVIOUS
  <2> QED
    BY <1>0, <1>2, <2>1, CloseMoves DEF AppClose, ends
<1>3. CASE AppRecv
  BY <1>0, <1>3, TakeType, SendMoves DEF AppRecv
<1>4. CASE DestSend
  <2>1. DestData[destSent + 1] \in Msg
    <3>1. destSent + 1 \in 1..Len(DestData)
      BY <1>0, <1>4 DEF DestSend
    <3>2. DestData[destSent + 1] \in Range(DestData)
      BY <3>1, ElementOfSeq
    <3> QED
      BY <3>2 DEF Msg
  <2>2. wire' \in Wires
    BY <1>0, <1>4, <2>1, PutOne DEF DestSend
  <2> QED
    BY <1>0, <1>4, <2>2, SendMoves DEF DestSend
<1>5. CASE DestClose
  <2>1. {DestDown} \in SUBSET Half
    OBVIOUS
  <2> QED
    BY <1>0, <1>5, <2>1, CloseMoves DEF DestClose, ends
<1>6. CASE DestRecv
  BY <1>0, <1>6, TakeType, SendMoves DEF DestRecv
<1> QED
  BY <1>1, <1>2, <1>3, <1>4, <1>5, <1>6

LEMMA CutMoves ==
  ASSUME Moved, NEW l \in Link, Cut(l)
  PROVE  Moved'
<1>1. <<>> \in Seq(Msg)
  OBVIOUS
<1>2. wire' \in Wires
  BY <1>1 DEF Cut, Moved, Wires
<1> QED
  BY <1>2, SendMoves DEF Cut

LEMMA TypedInit == Init => Typed
<1> SUFFICES ASSUME Init PROVE Typed
  OBVIOUS
<1>1. pc \in [Node -> ClientPc \cup ServerPc] /\ pc.client \in ClientPc /\ pc.server \in ServerPc
  BY DEF Init, Node, ClientPc, ServerPc
<1>2. wire \in [Half -> Seq(Msg)] /\ buf \in Seq(Msg)
  BY DEF Init
<1>3. running \in [Node -> SUBSET Dir] /\ link \in [Link -> {"closed", "open", "cut"}]
  BY DEF Init
<1>4. Len(AppData) \in Nat /\ Len(DestData) \in Nat
  BY TunnelAssumption, LenProperties
<1> QED
  BY <1>1, <1>2, <1>3, <1>4, TunnelAssumption DEF Init, Typed, Moved, Wires

LEMMA TypedStep ==
  ASSUME Typed, [Next]_vars
  PROVE  Typed'
<1>0. /\ Moved /\ buf \in Seq(Msg) /\ running \in [Node -> SUBSET Dir]
      /\ now \in Int /\ skew \in Int /\ stamp \in Int
  BY TunnelAssumption DEF Typed
<1>1. CASE Client
  <2>1. Moved'
    BY <1>0, <1>1, ClientMoves DEF Client
  <2>2. /\ link' \in [Link -> {"closed", "open", "cut"}]
        /\ request' \in Requests \cup {"none"}
        /\ stamp' \in Int
        /\ UNCHANGED <<running, buf, now, skew, sameKey, appSent, destSent>>
    BY <1>0, <1>1
    DEF Typed, Client, ReadGreeting, ReadRequest, ConnectServer, ConnectTls, SendHeader, AwaitReply,
        header, setting, ends, Requests
  <2> QED
    BY <2>1, <2>2 DEF Typed
<1>2. CASE Server
  <2>1. Moved' /\ buf' \in Seq(Msg)
    BY <1>0, <1>2, ServerMoves
  <2>2. /\ link' \in [Link -> {"closed", "open", "cut"}]
        /\ UNCHANGED <<running, request, stamp, now, skew, sameKey, appSent, destSent>>
    BY <1>2
    DEF Typed, Server, AcceptTls, ReadHeader, Dial, SendOk, ForwardEarly, header, setting, ends
  <2> QED
    BY <2>1, <2>2 DEF Typed
<1>3. CASE Relay
  <2>1. Moved' /\ running' \in [Node -> SUBSET Dir]
    BY <1>0, <1>3, RelayMoves
  <2>2. UNCHANGED <<link, header, now, setting, ends>>
    BY <1>3 DEF Relay, Copy, CopyFails
  <2> QED
    BY <2>1, <2>2 DEF Typed, header, setting, ends
<1>4. ASSUME NEW n \in Node, Kill(n) PROVE Typed'
  BY <1>0, <1>4, KillMoves DEF Typed, Kill, header, setting, ends
<1>5. CASE AppSend \/ AppClose \/ AppRecv \/ DestSend \/ DestClose \/ DestRecv
  <2>1. /\ Moved' /\ appSent' \in 0..(2 + Len(AppData))
        /\ destSent' \in 0..Len(DestData)
    BY <1>5, EndsMove
  <2>2. UNCHANGED <<link, running, header, now, setting>>
    BY <1>5 DEF AppSend, AppClose, AppRecv, DestSend, DestClose, DestRecv
  <2> QED
    BY <2>1, <2>2 DEF Typed, header, setting
<1>6. CASE Tick
  BY <1>6, TunnelAssumption DEF Tick, Typed, Moved, header, setting, ends
<1>7. ASSUME NEW l \in Link, Cut(l) PROVE Typed'
  BY <1>0, <1>7, CutMoves DEF Typed, Cut, header, setting, ends
<1>8. CASE UNCHANGED vars
  BY <1>8 DEF vars, Typed, Moved, header, setting, ends
<1> QED
  BY <1>1, <1>2, <1>3, <1>4, <1>5, <1>6, <1>7, <1>8 DEF Next, Environment

-----------------------------------------------------------------------------
(* What the two ends know of each other through the tunnel's two halves.   *)

ToServer == wire[TunUp]
ToClient == wire[TunDown]
Answering == {"tooLong", "badMac", "stale"}
Trying == {"tls", "header", "reply"}

(* What a client sends before it has its reply.                            *)
Stream == <<"finished", "fixed", "addr", "mac">>

(* w is what follows the first n messages of it, or less and the end.      *)
StreamFrom(w, n) ==
  \A j \in 1..Len(w) : \/ w[j] = Eof /\ j = Len(w)
                       \/ n + j <= 4 /\ w[j] = Stream[n + j]

EndIsLate(w) == TunUp \notin shut => \A j \in 1..Len(w) : w[j] # Eof
NoHeaderIn(w) == \A j \in 1..Len(w) : w[j] \in {"finished", Eof}

BufInv == Len(buf) <= 3 /\ \A i \in 1..Len(buf) : buf[i] = Stream[i + 1]

ConnectInv ==
  /\ pc.client \in {"greeting", "request", "connect"} => pc.server = "idle"
  /\ pc.client \in Trying \cup {"relay", "closed", "authFail", "dialFail"} => pc.server # "idle"
  /\ pc.server = "idle" => buf = <<>> /\ ToServer = <<>> /\ link.tunnel = "closed"
  /\ pc.client \in {"greeting", "request", "connect"} \cup Trying => TunUp \notin shut

(* The exit node reads what a client sends, in that order and no more; and *)
(* the header was stamped by the client's clock.                           *)
ReadInv ==
  /\ pc.server = "tls" => buf = <<>> /\ StreamFrom(ToServer, 0)
  /\ pc.server = "reading" => StreamFrom(ToServer, 1 + Len(buf))
  /\ pc.server \in {"tls", "reading"} =>
       /\ EndIsLate(ToServer)
       /\ stamp <= now + skew \/ (buf = <<>> /\ NoHeaderIn(ToServer))

(* Until it has sent its header, the client is ahead of the exit node.     *)
SendInv ==
  /\ pc.client = "tls" => /\ pc.server \in {"tls", "lost", "killed"}
                          /\ pc.server = "tls" => ToServer = <<>>
  /\ pc.client = "header" =>
       /\ pc.server \in {"tls", "reading", "lost", "killed"}
       /\ pc.server = "tls" => \/ ToServer = <<"finished">>
                               \/ ToServer = <<>> /\ link.tunnel # "open"
       /\ pc.server = "reading" => ToServer = <<>> /\ buf = <<>>

Verified == sameKey /\ skew >= -MaxSkew

DialInv ==
  /\ pc.server \in {"idle", "tls", "reading", "dialing", "unreachable"} \cup Answering =>
       link.dest = "closed"
  /\ pc.server \in {"dialed", "early", "relay", "closed"} => link.dest # "closed"
  /\ pc.server \in {"dialing", "dialed", "early", "relay", "closed"} => Verified

(* What a reply on the wire says of the exit node.                         *)
Judged(m) ==
  /\ m = "ok" => /\ pc.server \in {"early", "relay", "closed", "lost", "killed"}
                 /\ link.dest # "closed" /\ Verified
  /\ m = "authFail" => pc.server \in Answering
  /\ m = "dialFail" => pc.server = "unreachable"

ReplyInv ==
  /\ pc.server \in {"idle", "tls", "reading", "dialing", "dialed"} => ToClient = <<>>
  /\ pc.client \in Trying =>
       /\ pc.server \in {"early", "relay"} /\ link.tunnel = "open" => ToClient # <<>>
       /\ ToClient # <<>> => Judged(Head(ToClient))

VerdictInv ==
  /\ Opened => Judged("ok")
  /\ pc.client = "authFail" => Judged("authFail")
  /\ pc.client = "dialFail" => Judged("dialFail")

Core ==
  /\ BufInv /\ ConnectInv /\ ReadInv /\ SendInv
  /\ DialInv /\ ReplyInv /\ VerdictInv

LEMMA StreamEnds ==
  ASSUME NEW w \in Seq(Msg), NEW n \in Nat, StreamFrom(w, n), \A j \in 1..Len(w) : w[j] # Eof
  PROVE  StreamFrom(Append(w, Eof), n)
  BY AppendProperties, Controls DEF StreamFrom

LEMMA StreamTail ==
  ASSUME NEW w \in Seq(Msg), NEW n \in Nat, StreamFrom(w, n), w # <<>>
  PROVE  StreamFrom(Tail(w), n + 1)
<1>1. /\ Tail(w) \in Seq(Msg) /\ Len(Tail(w)) = Len(w) - 1
      /\ \A i \in 1..Len(Tail(w)) : Tail(w)[i] = w[i + 1]
  BY HeadTailProperties
<1>2. Len(w) \in Nat
  BY LenProperties
<1> SUFFICES ASSUME NEW j \in 1..Len(Tail(w))
             PROVE  \/ Tail(w)[j] = Eof /\ j = Len(Tail(w))
                    \/ n + 1 + j <= 4 /\ Tail(w)[j] = Stream[n + 1 + j]
  BY DEF StreamFrom
<1>3. j + 1 \in 1..Len(w) /\ n + (j + 1) = n + 1 + j
  BY <1>1, <1>2
<1>4. \/ w[j + 1] = Eof /\ j + 1 = Len(w)
      \/ n + 1 + j <= 4 /\ w[j + 1] = Stream[n + 1 + j]
  BY <1>3 DEF StreamFrom
<1>5. j + 1 = Len(w) => j = Len(Tail(w))
  <2>1. Len(w) \in Int /\ j \in Int
    BY <1>2
  <2>2. j + 1 = Len(w) => j = Len(w) - 1
    BY <2>1
  <2> QED
    BY <1>1, <2>2
<1> QED
  BY <1>1, <1>4, <1>5

LEMMA StillBefore ==
  ASSUME NEW a \in Int, NEW b \in Int, NEW c \in Int, NEW d \in Int, a <= b + c, b <= d
  PROVE  a <= d + c
  OBVIOUS

(* A step elsewhere: the clock may tick.                                   *)
LEMMA CoreFrame ==
  ASSUME Typed, Core, now' \in Int, now' >= now,
         UNCHANGED <<pc, link, buf, stamp, skew, sameKey, ToServer, ToClient>>,
         TunUp \in shut' <=> TunUp \in shut
  PROVE  Core'
<1>1. now \in Int /\ skew \in Int /\ stamp \in Int
  BY TunnelAssumption DEF Typed
<1>2. BufInv' /\ ConnectInv' /\ SendInv'
  BY DEF Core, BufInv, ConnectInv, SendInv
<1>3. ReadInv'
  <2>1. stamp <= now + skew => stamp' <= now' + skew'
    <3>1. stamp' = stamp /\ skew' = skew /\ now' \in Int /\ now <= now'
      OBVIOUS
    <3> QED
      BY <1>1, <3>1, StillBefore
  <2>2. EndIsLate(ToServer) => EndIsLate(ToServer)'
    BY DEF EndIsLate
  <2>3. NoHeaderIn(ToServer) => NoHeaderIn(ToServer')
    OBVIOUS
  <2> QED
    BY <2>1, <2>2, <2>3 DEF Core, ReadInv
<1>4. DialInv' /\ ReplyInv' /\ VerdictInv'
  BY DEF Core, DialInv, ReplyInv, VerdictInv, Judged, Verified, Opened
<1> QED
  BY <1>2, <1>3, <1>4 DEF Core

(* The client gives up: what it sent ends, and it opens nothing.           *)
LEMMA CoreClientLeaves ==
  ASSUME Typed, Core, NEW how \in ClientFailures,
         pc.client \in {"greeting", "request", "connect"} \cup Trying,
         pc' = [pc EXCEPT !["client"] = how],
         TunUp \in shut',
         \/ UNCHANGED ToServer
         \/ TunUp \notin shut /\ link.tunnel = "open" /\ ToServer' = Append(ToServer, Eof),
         \/ UNCHANGED ToClient
         \/ pc.server \notin {"idle", "tls", "reading", "dialing", "dialed"},
         how = "authFail" => Judged("authFail"),
         how = "dialFail" => Judged("dialFail"),
         UNCHANGED <<link, buf, now, skew, sameKey>>,
         stamp' = stamp \/ (stamp' \in Int /\ stamp' <= now + skew)
  PROVE  Core'
<1>1. /\ pc'.client = how /\ pc'.server = pc.server /\ pc.server \in ServerPc
      /\ ToServer \in Seq(Msg)
      /\ now \in Int /\ skew \in Int /\ stamp \in Int
  BY TunnelAssumption, Halves DEF Typed, Moved, Wires, ToServer, Node
<1>2. BufInv'
  BY DEF Core, BufInv
<1>3. ConnectInv'
  BY <1>1 DEF Core, ConnectInv, Judged, Answering, ClientFailures, Trying
<1>4. ReadInv'
  <2>1. CASE pc.server \notin {"tls", "reading"}
    BY <1>1, <2>1 DEF ReadInv
  <2>2. CASE pc.server \in {"tls", "reading"} /\ UNCHANGED ToServer
    <3>1. StreamFrom(ToServer, 0) => StreamFrom(ToServer, 0)'
      BY <2>2 DEF StreamFrom
    <3>2. StreamFrom(ToServer, 1 + Len(buf)) => StreamFrom(ToServer, 1 + Len(buf))'
      BY <2>2 DEF StreamFrom
    <3>3. NoHeaderIn(ToServer) => NoHeaderIn(ToServer)'
      BY <2>2 DEF NoHeaderIn
    <3> QED
      BY <1>1, <2>2, <3>1, <3>2, <3>3 DEF Core, ReadInv, EndIsLate
  <2>3. CASE /\ pc.server \in {"tls", "reading"}
             /\ TunUp \notin shut /\ ToServer' = Append(ToServer, Eof)
    <3>1. \A j \in 1..Len(ToServer) : ToServer[j] # Eof
      BY <2>3 DEF Core, ReadInv, EndIsLate
    <3>2. Len(buf) \in Nat
      BY LenProperties DEF Typed
    <3>3. StreamFrom(ToServer, 0) => StreamFrom(ToServer', 0)
      BY <1>1, <2>3, <3>1, StreamEnds
    <3>4. StreamFrom(ToServer, 1 + Len(buf)) => StreamFrom(ToServer', 1 + Len(buf'))
      BY <1>1, <2>3, <3>1, <3>2, StreamEnds
    <3>5. NoHeaderIn(ToServer) => NoHeaderIn(ToServer')
      BY <1>1, <2>3, AppendProperties, Controls DEF NoHeaderIn
    <3> QED
      BY <1>1, <2>3, <3>3, <3>4, <3>5 DEF Core, ReadInv, EndIsLate
  <2> QED
    BY <2>1, <2>2, <2>3
<1>5. SendInv'
  BY <1>1 DEF SendInv, ClientFailures
<1>6. DialInv'
  BY <1>1 DEF Core, DialInv, Verified
<1>7. ReplyInv'
  BY <1>1 DEF Core, ReplyInv, Trying, ClientFailures
<1>8. VerdictInv'
  BY <1>1 DEF VerdictInv, Judged, Verified, Opened, ClientFailures
<1> QED
  BY <1>2, <1>3, <1>4, <1>5, <1>6, <1>7, <1>8 DEF Core

(* The exit node gives up: what it sent ends.                              *)
LEMMA CoreServerLeaves ==
  ASSUME Typed, Core, NEW how \in ServerFailures,
         pc.server \in {"tls", "reading", "dialing", "dialed", "early"},
         pc' = [pc EXCEPT !["server"] = how],
         \/ UNCHANGED ToClient
         \/ link.tunnel = "open" /\ ToClient' = Append(ToClient, Eof)
         \/ /\ ToClient' # <<>> /\ pc.server # "early"
            /\ Head(ToClient') \in {"authFail", "dialFail"}
            /\ Head(ToClient') = "authFail" => how \in Answering
            /\ Head(ToClient') = "dialFail" => how = "unreachable",
         how \in Answering => pc.server = "reading" /\ ToServer # <<>>,
         how = "unreachable" => pc.server = "dialing",
         TunUp \in shut' <=> TunUp \in shut,
         BufInv',
         UNCHANGED <<link, now, stamp, skew, sameKey>>
  PROVE  Core'
<1>1. /\ pc'.server = how /\ pc'.client = pc.client
      /\ ToClient \in Seq(Msg)
      /\ how \notin {"idle", "tls", "reading", "dialing", "dialed", "early", "relay", "closed"}
  BY Halves DEF Typed, Moved, Wires, ToClient, Node, ServerFailures
<1>2. ConnectInv'
  BY <1>1 DEF Core, ConnectInv
<1>3. ReadInv'
  BY <1>1 DEF ReadInv
<1>4. SendInv' /\ DialInv'
  <2>1. SendInv'
    BY <1>1 DEF Core, SendInv, ServerFailures, Answering
  <2> QED
    BY <1>1, <2>1 DEF Core, DialInv, Answering
<1>5. ReplyInv'
  <2>1. ASSUME pc.client \in Trying, ToClient' # <<>>
        PROVE  Judged(Head(ToClient))'
    <3>1. CASE UNCHANGED ToClient
      BY <1>1, <2>1, <3>1 DEF Core, ReplyInv, Judged, Verified, DialInv, ServerFailures, Answering
    <3>2. CASE ToClient' = Append(ToClient, Eof)
      <4>1. Head(ToClient') = IF ToClient = <<>> THEN Eof ELSE Head(ToClient)
        BY <1>1, <3>2, HeadTailAppend
      <4> QED
        BY <1>1, <2>1, <4>1 DEF Core, ReplyInv, Judged, Verified, DialInv, Eof, ServerFailures,
           Answering
    <3>3. CASE Head(ToClient') \in {"authFail", "dialFail"} /\ Judged(Head(ToClient))'
      BY <3>3
    <3> QED
      BY <1>1, <3>1, <3>2, <3>3 DEF Judged, Answering
  <2> QED
    BY <1>1, <2>1 DEF ReplyInv
<1>6. VerdictInv'
  BY <1>1 DEF Core, VerdictInv, Judged, Verified, Opened, Answering, ServerFailures
<1> QED
  BY <1>2, <1>3, <1>4, <1>5, <1>6 DEF Core

-----------------------------------------------------------------------------
(* The client's steps.                                                     *)

LEMMA ClientReturn ==
  ASSUME Typed, NEW w \in Wires, NEW how, w[TunUp] = ToServer, Return("client", how, w)
  PROVE  /\ pc' = [pc EXCEPT !["client"] = how]
         /\ TunUp \in shut'
         /\ ToClient' = w[TunDown]
         /\ \/ UNCHANGED ToServer
            \/ TunUp \notin shut /\ link.tunnel = "open" /\ ToServer' = Append(ToServer, Eof)
<1>1. Outputs("client") = {TunUp, AppDown} /\ "client" \in Node
  BY DEF Outputs, Output, Dir, Node
<1>2. TunDown \notin Outputs("client") /\ TunUp \in Outputs("client")
  BY <1>1, Halves
<1>3. Up(TunUp) => link.tunnel = "open"
  BY DEF Up, TunUp
<1> QED
  BY <1>1, <1>2, <1>3, ReturnType, Halves DEF Typed, Moved, ToServer, ToClient

LEMMA CoreClientPrepares ==
  ASSUME Typed, Core, NEW where \in {"request", "connect"},
         pc.client \in {"greeting", "request"},
         pc' = [pc EXCEPT !["client"] = where],
         UNCHANGED <<link, buf, stamp, now, skew, sameKey, ToServer, ToClient, shut>>
  PROVE  Core'
<1>1. pc'.client = where /\ pc'.server = "idle" /\ pc.server = "idle"
  BY DEF Typed, Moved, Node, Core, ConnectInv
<1>2. BufInv' /\ ConnectInv' /\ ReadInv' /\ SendInv'
  BY <1>1 DEF Core, BufInv, ConnectInv, ReadInv, SendInv, Trying
<1> QED
  BY <1>1, <1>2 DEF Core, DialInv, ReplyInv, VerdictInv, Judged, Trying, Opened

LEMMA CoreConnects ==
  ASSUME Typed, Core, pc.client = "connect",
         pc' = [client |-> "tls", server |-> "tls"],
         link' = [link EXCEPT !.tunnel = "open"],
         UNCHANGED <<buf, stamp, now, skew, sameKey, ToServer, ToClient, shut>>
  PROVE  Core'
<1>1. /\ pc.server = "idle" /\ buf = <<>> /\ ToServer = <<>> /\ ToClient = <<>>
      /\ link.dest = "closed" /\ TunUp \notin shut
  BY DEF Core, ConnectInv, ReplyInv, DialInv
<1>2. link'.tunnel = "open" /\ link'.dest = "closed" /\ pc'.client = "tls" /\ pc'.server = "tls"
  BY <1>1 DEF Typed, Link
<1>3. BufInv' /\ ConnectInv' /\ SendInv'
  BY <1>1, <1>2 DEF BufInv, ConnectInv, SendInv
<1>4. ReadInv'
  BY <1>1, <1>2 DEF ReadInv, StreamFrom, EndIsLate, NoHeaderIn
<1> QED
  BY <1>1, <1>2, <1>3, <1>4 DEF Core, DialInv, Answering, ReplyInv, VerdictInv, Judged, Opened

LEMMA CoreFinishes ==
  ASSUME Typed, Core, pc.client = "tls", link.tunnel = "open",
         pc' = [pc EXCEPT !["client"] = "header"],
         ToServer' = Append(ToServer, "finished"),
         UNCHANGED <<link, buf, stamp, now, skew, sameKey, ToClient, shut>>
  PROVE  Core'
<1>1. /\ pc'.client = "header" /\ pc'.server = pc.server
      /\ pc.server \in {"tls", "lost", "killed"}
      /\ pc.server = "tls" => ToServer = <<>>
  BY DEF Typed, Moved, Node, Core, SendInv
<1>5. Append(<<>>, "finished") = <<"finished">>
  OBVIOUS
<1>6. pc.server = "tls" => ToServer' = <<"finished">>
  BY <1>1, <1>5
<1>2. BufInv' /\ ConnectInv' /\ SendInv'
  BY <1>1, <1>6 DEF Core, BufInv, ConnectInv, SendInv, Trying
<1>3. ReadInv'
  <2>1. CASE pc.server = "tls"
    <3>1. Len(ToServer') = 1 /\ ToServer'[1] = "finished"
      BY <1>6, <2>1
    <3> QED
      BY <1>1, <2>1, <3>1 DEF Core, ReadInv, StreamFrom, EndIsLate, NoHeaderIn, Stream, Eof
  <2> QED
    BY <1>1, <2>1 DEF ReadInv
<1>4. DialInv' /\ ReplyInv' /\ VerdictInv'
  BY <1>1 DEF Core, DialInv, ReplyInv, VerdictInv, Judged, Verified, Opened, Trying
<1> QED
  BY <1>2, <1>3, <1>4 DEF Core

LEMMA CoreSendsHeader ==
  ASSUME Typed, Core, pc.client = "header", link.tunnel = "open",
         pc' = [pc EXCEPT !["client"] = "reply"],
         ToServer' = ToServer \o Header, stamp' = now + skew,
         UNCHANGED <<link, buf, now, skew, sameKey, ToClient, shut>>
  PROVE  Core'
<1>1. /\ pc'.client = "reply" /\ pc'.server = pc.server
      /\ pc.server \in {"tls", "reading", "lost", "killed"}
      /\ now \in Int /\ skew \in Int
  BY TunnelAssumption DEF Typed, Moved, Node, Core, SendInv
<1>2. BufInv' /\ ConnectInv' /\ SendInv'
  BY <1>1 DEF Core, BufInv, ConnectInv, SendInv, Trying
<1>3. ReadInv'
  <2>1. CASE pc.server = "tls"
    <3>1. ToServer = <<"finished">> /\ buf = <<>>
      BY <2>1 DEF Core, SendInv, ReadInv
    <3>2. ToServer \in Seq(Msg) /\ Len(ToServer) = 1
      BY <3>1, Controls
    <3>3. /\ Len(ToServer') = 4 /\ ToServer'[1] = "finished"
          /\ ToServer'[2] = "fixed" /\ ToServer'[3] = "addr" /\ ToServer'[4] = "mac"
      BY <3>1, <3>2, Controls, FullStream
    <3>4. StreamFrom(ToServer', 0) /\ \A j \in 1..Len(ToServer') : ToServer'[j] # Eof
      BY <3>3 DEF StreamFrom, Stream, Eof
    <3> QED
      BY <1>1, <2>1, <3>1, <3>4 DEF ReadInv, EndIsLate
  <2>2. CASE pc.server = "reading"
    <3>1. ToServer' = <<"fixed", "addr", "mac">> /\ buf = <<>> /\ Len(buf) = 0
      BY <1>1, <2>2 DEF Core, SendInv, ReadInv, Header
    <3>2. StreamFrom(ToServer', 1) /\ \A j \in 1..Len(ToServer') : ToServer'[j] # Eof
      BY <3>1 DEF StreamFrom, Stream, Eof
    <3>3. StreamFrom(ToServer', 1 + Len(buf'))
      BY <3>1, <3>2
    <3> QED
      BY <1>1, <2>2, <3>1, <3>2, <3>3 DEF ReadInv, EndIsLate
  <2> QED
    BY <1>1, <2>1, <2>2 DEF ReadInv
<1>4. DialInv' /\ ReplyInv' /\ VerdictInv'
  BY <1>1 DEF Core, DialInv, ReplyInv, VerdictInv, Judged, Verified, Opened, Trying
<1> QED
  BY <1>2, <1>3, <1>4 DEF Core

LEMMA CoreOpens ==
  ASSUME Typed, Core, pc.client = "reply", ToClient # <<>>, Head(ToClient) = "ok",
         pc' = [pc EXCEPT !["client"] = "relay"],
         UNCHANGED <<link, buf, stamp, now, skew, sameKey, ToServer, shut>>
  PROVE  Core'
<1>1. /\ pc'.client = "relay" /\ pc'.server = pc.server
      /\ pc.server \in {"early", "relay", "closed", "lost", "killed"}
      /\ link.dest # "closed" /\ Verified
  BY DEF Typed, Moved, Node, Core, ReplyInv, Judged, Trying
<1>2. BufInv' /\ ConnectInv' /\ SendInv' /\ ReadInv'
  BY <1>1 DEF Core, BufInv, ConnectInv, SendInv, ReadInv, Trying
<1> QED
  BY <1>1, <1>2 DEF Core, DialInv, ReplyInv, VerdictInv, Judged, Verified, Opened, Trying

LEMMA CoreClient ==
  ASSUME Typed, Core, Client
  PROVE  Core'
<1> USE Halves, Controls
<1>0. wire \in Wires
  BY DEF Typed, Moved
<1>r. ASSUME NEW w \in Wires, NEW how \in ClientFailures,
             Return("client", how, w), w[TunUp] = ToServer,
             \/ w[TunDown] = ToClient
             \/ pc.server \notin {"idle", "tls", "reading", "dialing", "dialed"},
             how = "authFail" => Judged("authFail"),
             how = "dialFail" => Judged("dialFail"),
             pc.client \in {"greeting", "request", "connect"} \cup Trying,
             UNCHANGED <<link, buf, now, skew, sameKey>>,
             stamp' = stamp \/ (stamp' \in Int /\ stamp' <= now + skew)
      PROVE  Core'
  <2>1. /\ pc' = [pc EXCEPT !["client"] = how]
        /\ TunUp \in shut'
        /\ ToClient' = w[TunDown]
        /\ \/ UNCHANGED ToServer
           \/ TunUp \notin shut /\ link.tunnel = "open" /\ ToServer' = Append(ToServer, Eof)
    BY <1>r, ClientReturn
  <2> QED
    BY <1>r, <2>1, CoreClientLeaves
<1>q. ASSUME NEW how \in ClientFailures \ {"authFail", "dialFail"},
             Return("client", how, wire),
             pc.client \in {"greeting", "request", "connect"} \cup Trying,
             UNCHANGED <<link, buf, stamp, now, skew, sameKey>>
      PROVE  Core'
  BY <1>0, <1>q, <1>r DEF ToServer, ToClient
<1>1. CASE ReadGreeting
  <2>1. CASE /\ Arrives(AppUp, "greeting")
             /\ Goto("client", "request", Put(AppDown, <<"method">>, Take(AppUp, wire)))
    <3>1. Take(AppUp, wire) \in Wires /\ \A g \in Half \ {AppUp} : Take(AppUp, wire)[g] = wire[g]
      BY <1>0, <2>1, TakeType DEF Arrives
    <3>2. \A g \in Half \ {AppUp, AppDown} :
            Put(AppDown, <<"method">>, Take(AppUp, wire))[g] = wire[g]
      BY <3>1, PutOne
    <3>3. UNCHANGED <<ToServer, ToClient, shut>>
      BY <2>1, <3>2 DEF Goto, ToServer, ToClient
    <3> QED
      BY <1>1, <2>1, <3>3, CoreClientPrepares DEF ReadGreeting, Goto, header, setting
  <2>2. CASE Return("client", "socksError", wire)
    BY <1>1, <1>q, <2>2 DEF ReadGreeting, header, setting, ClientFailures
  <2> QED
    BY <1>1, <2>1, <2>2 DEF ReadGreeting
<1>2. CASE ReadRequest
  <2>0. pc.client = "request" /\ UNCHANGED <<link, buf, stamp, now, skew, sameKey>>
    BY <1>2 DEF ReadRequest, setting
  <2>1. ASSUME NEW m \in {"short", "long"}, Arrives(AppUp, m),
               Goto("client", "connect", Put(AppDown, <<"success">>, Take(AppUp, wire)))
        PROVE  Core'
    <3>1. Take(AppUp, wire) \in Wires /\ \A g \in Half \ {AppUp} : Take(AppUp, wire)[g] = wire[g]
      BY <1>0, <2>1, TakeType DEF Arrives
    <3>2. \A g \in Half \ {AppUp, AppDown} :
            Put(AppDown, <<"success">>, Take(AppUp, wire))[g] = wire[g]
      BY <3>1, PutOne
    <3>3. UNCHANGED <<ToServer, ToClient, shut>>
      BY <2>1, <3>2 DEF Goto, ToServer, ToClient
    <3> QED
      BY <2>0, <2>1, <3>3, CoreClientPrepares DEF Goto
  <2>2. CASE Return("client", "socksError", Put(AppDown, <<"refused">>, wire))
    <3>1. /\ Put(AppDown, <<"refused">>, wire) \in Wires
          /\ \A g \in Half \ {AppDown} : Put(AppDown, <<"refused">>, wire)[g] = wire[g]
      BY <1>0, PutOne
    <3> QED
      BY <1>r, <2>0, <2>2, <3>1 DEF ToServer, ToClient, ClientFailures
  <2>3. CASE Return("client", "socksError", wire)
    BY <1>q, <2>0, <2>3 DEF ClientFailures
  <2> QED
    BY <1>2, <2>1, <2>2, <2>3 DEF ReadRequest
<1>3. CASE ConnectServer
  <2>1. CASE /\ link' = [link EXCEPT !.tunnel = "open"]
             /\ pc' = [client |-> "tls", server |-> "tls"]
             /\ UNCHANGED <<wire, shut>>
    BY <1>3, <2>1, CoreConnects DEF ConnectServer, header, setting, ToServer, ToClient
  <2>2. CASE Return("client", "connectError", wire) /\ UNCHANGED link
    BY <1>3, <1>q, <2>2 DEF ConnectServer, header, setting, ClientFailures
  <2> QED
    BY <1>3, <2>1, <2>2 DEF ConnectServer
<1>4. CASE ConnectTls
  <2>1. CASE Up(TunUp) /\ Goto("client", "header", Put(TunUp, <<"finished">>, wire))
    <3>1. /\ ToServer' = Append(ToServer, "finished")
          /\ UNCHANGED <<ToClient, shut>>
      BY <1>0, <2>1, PutOne DEF Goto, ToServer, ToClient
    <3>2. link.tunnel = "open"
      BY <2>1 DEF Up, TunUp
    <3> QED
      BY <1>4, <2>1, <3>1, <3>2, CoreFinishes DEF ConnectTls, Goto, header, setting
  <2>2. CASE Return("client", "tlsError", wire)
    BY <1>4, <1>q, <2>2 DEF ConnectTls, header, setting, ClientFailures, Trying
  <2> QED
    BY <1>4, <2>1, <2>2 DEF ConnectTls
<1>5. CASE SendHeader
  <2>0. now \in Int /\ skew \in Int /\ stamp' = now + skew /\ pc.client = "header"
    BY <1>5, TunnelAssumption DEF Typed, SendHeader
  <2>1. CASE Up(TunUp) /\ Goto("client", AfterHeader, Put(TunUp, Header, wire))
    <3>1. /\ ToServer' = ToServer \o Header
          /\ UNCHANGED <<ToClient, shut>>
      BY <1>0, <2>1, PutHeader DEF Goto, ToServer, ToClient
    <3>2. link.tunnel = "open"
      BY <2>1 DEF Up, TunUp
    <3> QED
      BY <1>5, <2>0, <2>1, <3>1, <3>2, CoreSendsHeader DEF SendHeader, AfterHeader, Goto, setting
  <2>2. CASE Return("client", "ioError", wire)
    BY <1>0, <1>5, <1>r, <2>0, <2>2 DEF SendHeader, setting, ClientFailures, Trying, ToServer, ToClient
  <2> QED
    BY <1>5, <2>1, <2>2 DEF SendHeader
<1>6. CASE AwaitReply
  <2>0. pc.client = "reply" /\ UNCHANGED <<link, buf, stamp, now, skew, sameKey>>
    BY <1>6 DEF AwaitReply, header, setting
  <2>1. ASSUME NEW m \in {"ok", "authFail", "dialFail"}, Arrives(TunDown, m),
               IF m \in AcceptingReply THEN Goto("client", "relay", Take(TunDown, wire))
                                       ELSE Return("client", m, Take(TunDown, wire))
        PROVE  Core'
    <3>1. /\ Take(TunDown, wire) \in Wires
          /\ Take(TunDown, wire)[TunUp] = ToServer
      BY <1>0, <2>1, TakeType DEF Arrives, ToServer
    <3>2. ToClient # <<>> /\ Head(ToClient) = m
      BY <2>1 DEF Arrives, ToClient
    <3>3. Judged(m) /\ pc.server \notin {"idle", "tls", "reading", "dialing", "dialed"}
      BY <2>0, <3>2 DEF Core, ReplyInv, Trying
    <3>4. CASE m = "ok"
      <4>1. Goto("client", "relay", Take(TunDown, wire))
        BY <2>1, <3>4 DEF AcceptingReply
      <4> QED
        BY <2>0, <3>1, <3>2, <3>4, <4>1, CoreOpens DEF Goto, ToServer
    <3>5. CASE m \in {"authFail", "dialFail"}
      <4>1. Return("client", m, Take(TunDown, wire))
        BY <2>1, <3>5 DEF AcceptingReply
      <4> QED
        BY <1>r, <2>0, <3>1, <3>3, <3>5, <4>1 DEF ClientFailures, Trying
    <3> QED
      BY <2>1, <3>4, <3>5
  <2>2. CASE Return("client", "ioError", wire)
    BY <1>q, <2>0, <2>2 DEF ClientFailures, Trying
  <2> QED
    BY <1>6, <2>1, <2>2 DEF AwaitReply
<1> QED
  BY <1>1, <1>2, <1>3, <1>4, <1>5, <1>6 DEF Client

-----------------------------------------------------------------------------
(* The exit node's steps.                                                  *)

LEMMA ServerReturn ==
  ASSUME Typed, NEW w \in Wires, NEW how, Return("server", how, w)
  PROVE  /\ pc' = [pc EXCEPT !["server"] = how]
         /\ TunUp \in shut' <=> TunUp \in shut
         /\ ToServer' = w[TunUp]
         /\ \/ ToClient' = w[TunDown]
            \/ link.tunnel = "open" /\ ToClient' = Append(w[TunDown], Eof)
<1>1. Outputs("server") = {DestUp, TunDown} /\ "server" \in Node
  BY DEF Outputs, Output, Dir, Node
<1>2. TunUp \notin Outputs("server")
  BY <1>1, Halves
<1>3. Up(TunDown) => link.tunnel = "open"
  BY DEF Up, TunDown
<1> QED
  BY <1>1, <1>2, <1>3, ReturnType, Halves DEF Typed, Moved, ToServer, ToClient

LEMMA CoreAccepts ==
  ASSUME Typed, Core, pc.server = "tls", ToServer # <<>>, Head(ToServer) = "finished",
         pc' = [pc EXCEPT !["server"] = "reading"],
         ToServer' = Tail(ToServer),
         UNCHANGED <<link, buf, stamp, now, skew, sameKey, ToClient, shut>>
  PROVE  Core'
<1>1. /\ pc'.server = "reading" /\ pc'.client = pc.client
      /\ buf = <<>> /\ Len(buf) = 0 /\ ToServer \in Seq(Msg)
      /\ StreamFrom(ToServer, 0) /\ EndIsLate(ToServer)
      /\ stamp <= now + skew \/ NoHeaderIn(ToServer)
  BY Halves DEF Typed, Moved, Wires, ToServer, Node, Core, ReadInv
<1>2. /\ StreamFrom(ToServer', 1)
      /\ EndIsLate(ToServer) => EndIsLate(ToServer)'
      /\ NoHeaderIn(ToServer) => NoHeaderIn(ToServer')
  <2>1. /\ Len(ToServer') = Len(ToServer) - 1 /\ Len(ToServer) \in Nat
        /\ \A i \in 1..Len(ToServer') : ToServer'[i] = ToServer[i + 1]
    BY <1>1, HeadTailProperties, LenProperties
  <2>2. StreamFrom(ToServer', 0 + 1)
    BY <1>1, StreamTail
  <2>3. \A i \in 1..Len(ToServer') : i + 1 \in 1..Len(ToServer)
    BY <2>1
  <2> QED
    BY <2>1, <2>2, <2>3 DEF EndIsLate, NoHeaderIn
<1>3. BufInv' /\ ConnectInv'
  BY <1>1 DEF Core, BufInv, ConnectInv
<1>4. ReadInv'
  <2>1. StreamFrom(ToServer', 1 + Len(buf'))
    BY <1>1, <1>2
  <2> QED
    BY <1>1, <1>2, <2>1 DEF ReadInv
<1>5. SendInv'
  <2>1. pc.client = "header" => Tail(ToServer) = <<>>
    <3>1. Tail(<<"finished">>) = <<>>
      OBVIOUS
    <3> QED
      BY <3>1 DEF Core, SendInv
  <2> QED
    BY <1>1, <2>1 DEF Core, SendInv
<1>6. DialInv' /\ ReplyInv' /\ VerdictInv'
  BY <1>1 DEF Core, DialInv, ReplyInv, VerdictInv, Judged, Verified, Opened, Answering
<1> QED
  BY <1>3, <1>4, <1>5, <1>6 DEF Core

(* What a turn of the read loop does to the buffer and to the wire.        *)
LEMMA ReadsOn ==
  ASSUME Typed, Core, pc.server = "reading", NEW k \in 1..Len(ToServer),
         ~ReadsNothing(SubSeq(ToServer, 1, k)[k])
  PROVE  LET got == SubSeq(ToServer, 1, k)
             rest == SubSeq(ToServer, k + 1, Len(ToServer))
         IN  /\ Len(buf \o got) \in Nat /\ Len(buf \o got) <= 3
             /\ \A i \in 1..Len(buf \o got) : (buf \o got)[i] = Stream[i + 1]
             /\ StreamFrom(rest, 1 + Len(buf \o got))
             /\ TunUp \notin shut => \A j \in 1..Len(rest) : rest[j] # Eof
             /\ stamp <= now + skew
<1> DEFINE w == ToServer
           n == Len(buf)
           got == SubSeq(ToServer, 1, k)
           rest == SubSeq(ToServer, k + 1, Len(ToServer))
<1>0. /\ got = SubSeq(ToServer, 1, k)
      /\ rest = SubSeq(ToServer, k + 1, Len(ToServer))
      /\ ~ReadsNothing(got[k])
  OBVIOUS
<1> HIDE DEF got, rest
<1>1. /\ w \in Seq(Msg) /\ Len(w) \in Nat /\ k \in Nat /\ k <= Len(w)
      /\ buf \in Seq(Msg) /\ n \in Nat
  BY Halves, LenProperties DEF Typed, Moved, Wires, ToServer
<1>2. /\ got \in Seq(Msg) /\ Len(got) = k
      /\ \A i \in 1..k : got[i] = w[i]
  BY <1>0, <1>1, SubSeqProperties, ElementOfSeq
<1>3. /\ rest \in Seq(Msg) /\ Len(rest) = Len(w) - k
      /\ \A i \in 1..Len(w) - k : rest[i] = w[k + i]
  <2>1. \A i \in k + 1..Len(w) : w[i] \in Msg
    BY <1>1, ElementOfSeq
  <2>2. /\ rest \in Seq(Msg)
        /\ Len(rest) = IF k + 1 <= Len(w) THEN Len(w) - (k + 1) + 1 ELSE 0
        /\ \A i \in 1..Len(w) - (k + 1) + 1 : rest[i] = w[k + 1 + i - 1]
    BY <1>0, <1>1, <2>1, SubSeqProperties
  <2> QED
    BY <1>1, <2>2
<1>4. /\ StreamFrom(w, 1 + n) /\ EndIsLate(w)
      /\ stamp <= now + skew \/ (buf = <<>> /\ NoHeaderIn(w))
      /\ n <= 3 /\ \A i \in 1..n : buf[i] = Stream[i + 1]
  BY DEF Core, ReadInv, BufInv
<1>5. \A j \in 1..k : 1 + n + j <= 4 /\ w[j] = Stream[1 + n + j]
  <2> SUFFICES ASSUME NEW j \in 1..k
               PROVE  1 + n + j <= 4 /\ w[j] = Stream[1 + n + j]
    OBVIOUS
  <2>1. j \in 1..Len(w)
    BY <1>1
  <2>2. w[k] # Eof
    BY <1>0, <1>1, <1>2 DEF ReadsNothing
  <2>3. w[j] = Eof => j = k
    BY <1>1, <1>4, <2>1 DEF StreamFrom, Stream, Eof
  <2> QED
    BY <1>4, <2>1, <2>2, <2>3 DEF StreamFrom
<1>6. /\ buf \o got \in Seq(Msg) /\ Len(buf \o got) = n + k
      /\ \A i \in 1..n + k : (buf \o got)[i] = IF i <= n THEN buf[i] ELSE got[i - n]
  BY <1>1, <1>2, ConcatProperties
<1>7. n + k \in Nat /\ n + k <= 3
  BY <1>1, <1>5
<1>8. \A i \in 1..n + k : (buf \o got)[i] = Stream[i + 1]
  <2> SUFFICES ASSUME NEW i \in 1..n + k PROVE (buf \o got)[i] = Stream[i + 1]
    OBVIOUS
  <2>1. CASE i <= n
    BY <1>1, <1>4, <1>6, <2>1
  <2>2. CASE ~(i <= n)
    <3>1. i - n \in 1..k /\ 1 + n + (i - n) = i + 1
      BY <1>1, <2>2
    <3>2. (buf \o got)[i] = w[i - n]
      BY <1>2, <1>6, <2>2, <3>1
    <3>3. w[i - n] = Stream[1 + n + (i - n)]
      BY <1>5, <3>1
    <3> QED
      BY <3>1, <3>2, <3>3
  <2> QED
    BY <2>1, <2>2
<1>9. StreamFrom(rest, 1 + (n + k))
  <2> SUFFICES ASSUME NEW j \in 1..Len(rest)
               PROVE  \/ rest[j] = Eof /\ j = Len(rest)
                      \/ 1 + (n + k) + j <= 4 /\ rest[j] = Stream[1 + (n + k) + j]
    BY DEF StreamFrom
  <2>1. k + j \in 1..Len(w) /\ 1 + n + (k + j) = 1 + (n + k) + j /\ rest[j] = w[k + j]
    BY <1>1, <1>3
  <2>2. \/ w[k + j] = Eof /\ k + j = Len(w)
        \/ 1 + n + (k + j) <= 4 /\ w[k + j] = Stream[1 + n + (k + j)]
    BY <1>4, <2>1 DEF StreamFrom
  <2>3. k + j = Len(w) => j = Len(rest)
    <3>1. Len(w) \in Int /\ k \in Int /\ j \in Int
      BY <1>1
    <3>2. k + j = Len(w) => j = Len(w) - k
      BY <3>1
    <3> QED
      BY <1>3, <3>2
  <2> QED
    BY <2>1, <2>2, <2>3
<1>10. TunUp \notin shut => \A j \in 1..Len(rest) : rest[j] # Eof
  <2>1. \A j \in 1..Len(rest) : k + j \in 1..Len(w) /\ rest[j] = w[k + j]
    BY <1>1, <1>3
  <2> QED
    BY <1>4, <2>1 DEF EndIsLate
<1>11. stamp <= now + skew
  <2> SUFFICES ASSUME buf = <<>>, NoHeaderIn(w) PROVE FALSE
    BY <1>4
  <2>1. n = 0 /\ 1 \in 1..k /\ 1 \in 1..Len(w)
    BY <1>1
  <2>2. w[1] = Stream[2]
    BY <1>5, <2>1
  <2>3. w[1] \in {"finished", Eof}
    BY <2>1 DEF NoHeaderIn
  <2> QED
    BY <2>2, <2>3 DEF Stream, Eof
<1> QED
  BY <1>6, <1>7, <1>8, <1>9, <1>10, <1>11 DEF got, rest

LEMMA CoreReads ==
  ASSUME Typed, Core, pc.server = "reading", NEW k \in 1..Len(ToServer),
         ~ReadsNothing(SubSeq(ToServer, 1, k)[k]),
         buf' = buf \o SubSeq(ToServer, 1, k),
         ToServer' = SubSeq(ToServer, k + 1, Len(ToServer)),
         NEW result, result = ParseResult(buf'),
         \/ result = "truncated" /\ UNCHANGED pc
         \/ result = "valid" /\ pc' = [pc EXCEPT !["server"] = "dialing"],
         UNCHANGED <<link, stamp, now, skew, sameKey, ToClient, shut>>
  PROVE  Core'
<1>1. /\ Len(buf') \in Nat /\ Len(buf') <= 3 /\ BufInv'
      /\ StreamFrom(ToServer', 1 + Len(buf'))
      /\ EndIsLate(ToServer)'
      /\ stamp <= now + skew
  <2> DEFINE got == SubSeq(ToServer, 1, k)
             rest == SubSeq(ToServer, k + 1, Len(ToServer))
  <2>1. /\ Len(buf \o got) \in Nat /\ Len(buf \o got) <= 3
        /\ \A i \in 1..Len(buf \o got) : (buf \o got)[i] = Stream[i + 1]
        /\ StreamFrom(rest, 1 + Len(buf \o got))
        /\ TunUp \notin shut => \A j \in 1..Len(rest) : rest[j] # Eof
        /\ stamp <= now + skew
    BY ReadsOn
  <2>2. buf' = buf \o got /\ ToServer' = rest /\ shut' = shut
    OBVIOUS
  <2> HIDE DEF got, rest
  <2> QED
    BY <2>1, <2>2 DEF BufInv, EndIsLate
<1>2. now \in Int /\ skew \in Int /\ stamp \in Int /\ MaxSkew \in Nat /\ sameKey \in BOOLEAN
  BY TunnelAssumption DEF Typed
<1>3. pc.client \notin {"tls", "header"}
  <2>1. ToServer # <<>>
    <3>1. Len(<<>>) = 0
      OBVIOUS
    <3> QED
      BY <3>1
  <2> QED
    BY <2>1 DEF Core, SendInv
<1>4. CASE result = "truncated" /\ UNCHANGED pc
  <2>1. ConnectInv' /\ ReadInv' /\ SendInv'
    BY <1>1, <1>3, <1>4 DEF Core, ConnectInv, ReadInv, SendInv
  <2> QED
    BY <1>1, <1>4, <2>1
    DEF Core, DialInv, ReplyInv, VerdictInv, Judged, Verified, Opened
<1>5. CASE result = "valid" /\ pc' = [pc EXCEPT !["server"] = "dialing"]
  <2>1. pc'.server = "dialing" /\ pc'.client = pc.client
    BY <1>5 DEF Typed, Moved, Node
  <2>2. sameKey /\ Fresh
    BY <1>2, <1>5 DEF ParseResult
  <2>3. Verified
    BY <1>1, <1>2, <2>2 DEF Fresh, Verified
  <2>4. ConnectInv' /\ ReadInv' /\ SendInv'
    BY <1>3, <2>1 DEF Core, ConnectInv, ReadInv, SendInv
  <2>5. DialInv'
    BY <2>1, <2>3 DEF Core, DialInv, Verified, Answering
  <2>6. ReplyInv' /\ VerdictInv'
    BY <2>1 DEF Core, ReplyInv, VerdictInv, Judged, Verified, Opened, Answering
  <2> QED
    BY <1>1, <2>4, <2>5, <2>6 DEF Core
<1> QED
  BY <1>4, <1>5

LEMMA CoreDials ==
  ASSUME Typed, Core, pc.server = "dialing",
         pc' = [pc EXCEPT !["server"] = "dialed"],
         link' = [link EXCEPT !.dest = "open"],
         UNCHANGED <<buf, stamp, now, skew, sameKey, ToServer, ToClient, shut>>
  PROVE  Core'
<1>1. /\ pc'.server = "dialed" /\ pc'.client = pc.client
      /\ link'.dest = "open" /\ link'.tunnel = link.tunnel
  BY DEF Typed, Moved, Node, Link
<1>2. BufInv' /\ ConnectInv' /\ ReadInv' /\ SendInv'
  BY <1>1 DEF Core, BufInv, ConnectInv, ReadInv, SendInv
<1> QED
  BY <1>1, <1>2 DEF Core, DialInv, ReplyInv, VerdictInv, Judged, Verified, Opened, Answering

LEMMA CoreSendsOk ==
  ASSUME Typed, Core, pc.server = "dialed",
         pc' = [pc EXCEPT !["server"] = "early"],
         ToClient' = Append(ToClient, "ok"),
         UNCHANGED <<link, buf, stamp, now, skew, sameKey, ToServer, shut>>
  PROVE  Core'
<1>1. /\ pc'.server = "early" /\ pc'.client = pc.client
      /\ ToClient = <<>> /\ ToClient \in Seq(Msg)
  BY Halves DEF Typed, Moved, Wires, ToClient, Node, Core, ReplyInv
<1>2. ToClient' # <<>> /\ Head(ToClient') = "ok"
  BY <1>1, Controls, HeadTailAppend, AppendProperties
<1>3. BufInv' /\ ConnectInv' /\ ReadInv' /\ SendInv'
  BY <1>1 DEF Core, BufInv, ConnectInv, ReadInv, SendInv
<1>4. DialInv' /\ Judged("ok")'
  BY <1>1 DEF Core, DialInv, Judged, Verified, Answering
<1>5. ReplyInv'
  BY <1>1, <1>2, <1>4 DEF ReplyInv
<1> QED
  BY <1>1, <1>3, <1>4, <1>5 DEF Core, VerdictInv, Judged, Verified, Opened, Answering

(* The relay of the exit node moves on: nothing it may send can overtake   *)
(* the reply.                                                              *)
LEMMA CoreServerRelays ==
  ASSUME Typed, Core, pc.server \in {"early", "relay"},
         NEW where \in {"relay", "closed"}, pc' = [pc EXCEPT !["server"] = where],
         \/ UNCHANGED ToClient
         \/ link.tunnel = "open" /\ \E m \in Msg : ToClient' = Append(ToClient, m),
         TunUp \in shut' <=> TunUp \in shut,
         UNCHANGED <<link, buf, stamp, now, skew, sameKey>>
  PROVE  Core'
<1>1. /\ pc'.server = where /\ pc'.client = pc.client
      /\ ToClient \in Seq(Msg)
  BY Halves DEF Typed, Moved, Wires, ToClient, Node
<1>2. BufInv' /\ ConnectInv' /\ ReadInv' /\ SendInv'
  BY <1>1 DEF Core, BufInv, ConnectInv, ReadInv, SendInv
<1>3. DialInv' /\ VerdictInv'
  BY <1>1 DEF Core, DialInv, VerdictInv, Judged, Verified, Opened, Answering
<1>4. ReplyInv'
  <2>1. CASE UNCHANGED ToClient
    BY <1>1, <2>1 DEF Core, ReplyInv, Judged, Verified, Answering
  <2>2. ASSUME link.tunnel = "open", NEW m \in Msg, ToClient' = Append(ToClient, m)
        PROVE  ReplyInv'
    <3>1. /\ ToClient' # <<>>
          /\ Head(ToClient') = IF ToClient = <<>> THEN m ELSE Head(ToClient)
      BY <1>1, <2>2, HeadTailAppend, AppendProperties
    <3> QED
      BY <1>1, <2>2, <3>1 DEF Core, ReplyInv, Judged, Verified, Answering
  <2> QED
    BY <2>1, <2>2
<1> QED
  BY <1>2, <1>3, <1>4 DEF Core

(* By then the exit node is past all that Core says of the client's half.  *)
LEMMA CoreClientRelays ==
  ASSUME Typed, Core, pc.client = "relay",
         NEW where \in {"relay", "closed"}, pc' = [pc EXCEPT !["client"] = where],
         UNCHANGED <<link, buf, stamp, now, skew, sameKey>>
  PROVE  Core'
<1>1. /\ pc'.client = where /\ pc'.server = pc.server
      /\ pc.server \in {"early", "relay", "closed", "lost", "killed"}
  BY DEF Typed, Moved, Node, Core, VerdictInv, Opened, Judged
<1>2. BufInv' /\ ConnectInv' /\ ReadInv' /\ SendInv'
  BY <1>1 DEF Core, BufInv, ConnectInv, ReadInv, SendInv, Trying
<1> QED
  BY <1>1, <1>2 DEF Core, DialInv, ReplyInv, VerdictInv, Judged, Verified, Opened, Trying, Answering

LEMMA CoreServer ==
  ASSUME Typed, Core, Server
  PROVE  Core'
<1> USE Halves, Controls
<1>0. wire \in Wires
  BY DEF Typed, Moved
<1>r. ASSUME NEW how \in {"lost", "killed"}, Return("server", how, wire),
             pc.server \in {"tls", "reading", "dialing", "dialed", "early"},
             UNCHANGED <<link, buf, now, stamp, skew, sameKey>>
      PROVE  Core'
  <2>1. /\ pc' = [pc EXCEPT !["server"] = how]
        /\ TunUp \in shut' <=> TunUp \in shut
        /\ \/ UNCHANGED ToClient
           \/ link.tunnel = "open" /\ ToClient' = Append(ToClient, Eof)
    BY <1>0, <1>r, ServerReturn DEF ToClient
  <2>2. BufInv'
    BY <1>r DEF Core, BufInv
  <2>3. how \in ServerFailures /\ how \notin Answering /\ how # "unreachable"
    BY <1>r DEF ServerFailures, Answering
  <2> QED
    BY <1>r, <2>1, <2>2, <2>3, CoreServerLeaves
<1>1. CASE AcceptTls
  <2>1. CASE Arrives(TunUp, "finished") /\ Goto("server", "reading", Take(TunUp, wire))
    <3>1. ToServer # <<>> /\ Head(ToServer) = "finished"
      BY <2>1 DEF Arrives, ToServer
    <3>2. ToServer' = Tail(ToServer) /\ UNCHANGED <<ToClient, shut>>
      BY <1>0, <2>1, <3>1, TakeType DEF Goto, ToServer, ToClient
    <3> QED
      BY <1>1, <2>1, <3>1, <3>2, CoreAccepts DEF AcceptTls, Goto, header, setting
  <2>2. CASE Return("server", "lost", wire)
    BY <1>1, <1>r, <2>2 DEF AcceptTls, header, setting
  <2> QED
    BY <1>1, <2>1, <2>2 DEF AcceptTls
<1>2. CASE ReadHeader
  <2>0. pc.server = "reading" /\ UNCHANGED <<link, stamp, now, skew, sameKey>>
    BY <1>2 DEF ReadHeader, setting
  <2>1. ASSUME NEW k \in 1..Len(wire[TunUp]), NEW rest, NEW result,
               ~ReadsNothing(SubSeq(wire[TunUp], 1, k)[k]),
               rest = [wire EXCEPT ![TunUp] = SubSeq(@, k + 1, Len(@))],
               result = ParseResult(buf \o SubSeq(wire[TunUp], 1, k)),
               buf' = buf \o SubSeq(wire[TunUp], 1, k),
               CASE result = "truncated" -> Goto("server", "reading", rest)
                 [] result = "valid" -> Goto("server", "dialing", rest)
                 [] OTHER -> Return("server", result, Put(TunDown, <<"authFail">>, rest))
        PROVE  Core'
    <3>0. k \in 1..Len(ToServer) /\ ~ReadsNothing(SubSeq(ToServer, 1, k)[k])
          /\ buf' = buf \o SubSeq(ToServer, 1, k)
      BY <2>1 DEF ToServer
    <3>1. /\ rest \in Wires /\ rest[TunDown] = ToClient
          /\ rest[TunUp] = SubSeq(ToServer, k + 1, Len(ToServer))
      <4>1. ToServer \in Seq(Msg)
        BY <1>0 DEF Wires, ToServer
      <4>2. SubSeq(ToServer, k + 1, Len(ToServer)) \in Seq(Msg)
        BY <3>0, <4>1, SubSeqProperties, ElementOfSeq, LenProperties
      <4> QED
        BY <1>0, <2>1, <4>2 DEF Wires, ToServer, ToClient
    <3>2. result \in {"truncated", "valid", "tooLong", "badMac", "stale"}
      BY <2>1 DEF ParseResult
    <3>3. CASE result \in {"truncated", "valid"}
      <4> DEFINE where == IF result = "valid" THEN "dialing" ELSE "reading"
      <4>1. Goto("server", where, rest)
        BY <2>1, <3>3
      <4>2. ToServer' = SubSeq(ToServer, k + 1, Len(ToServer)) /\ UNCHANGED <<ToClient, shut>>
        BY <3>1, <4>1 DEF Goto, ToServer, ToClient
      <4>3. result = "truncated" => UNCHANGED pc
        BY <2>0, <4>1 DEF Goto, Typed, Moved, Node
      <4>4. result = "valid" => pc' = [pc EXCEPT !["server"] = "dialing"]
        BY <4>1 DEF Goto
      <4>5. result = ParseResult(buf')
        BY <2>1
      <4> QED
        BY <2>0, <3>0, <3>3, <4>2, <4>3, <4>4, <4>5, CoreReads
    <3>4. CASE result \in Answering
      <4>1. Return("server", result, Put(TunDown, <<"authFail">>, rest))
        BY <2>1, <3>4 DEF Answering
      <4>2. /\ Put(TunDown, <<"authFail">>, rest) \in Wires
            /\ Put(TunDown, <<"authFail">>, rest)[TunDown] = Append(ToClient, "authFail")
        <5>1. "authFail" \in Msg
          OBVIOUS
        <5> QED
          BY <3>1, <5>1, PutDown
      <4>3. ToClient = <<>> /\ Append(ToClient, "authFail") \in Seq(Msg)
            /\ Append(ToClient, "authFail") # <<>> /\ Head(Append(ToClient, "authFail")) = "authFail"
        <5>1. ToClient = <<>> /\ ToClient \in Seq(Msg)
          BY <1>0, <2>0 DEF Core, ReplyInv, Wires, ToClient
        <5> QED
          BY <5>1, HeadTailAppend, AppendProperties
      <4>4. /\ pc' = [pc EXCEPT !["server"] = result]
            /\ TunUp \in shut' <=> TunUp \in shut
            /\ \/ ToClient' = Append(ToClient, "authFail")
               \/ ToClient' = Append(Append(ToClient, "authFail"), Eof)
        BY <4>1, <4>2, ServerReturn
      <4>5. ToClient' # <<>> /\ Head(ToClient') = "authFail"
        <5>1. CASE ToClient' = Append(ToClient, "authFail")
          BY <4>3, <5>1
        <5>2. CASE ToClient' = Append(Append(ToClient, "authFail"), Eof)
          BY <4>3, <5>2, AppendOne
        <5> QED
          BY <4>4, <5>1, <5>2
      <4>6. BufInv'
        BY <2>0, <3>0, ReadsOn DEF BufInv
      <4>7. ToServer # <<>>
        <5>1. Len(<<>>) = 0
          OBVIOUS
        <5> QED
          BY <3>0, <5>1
      <4>8. result \in ServerFailures /\ result # "unreachable"
        BY <3>4 DEF Answering, ServerFailures
      <4> QED
        BY <2>0, <3>4, <4>4, <4>5, <4>6, <4>7, <4>8, CoreServerLeaves
    <3> QED
      BY <3>2, <3>3, <3>4 DEF Answering
  <2>2. CASE Return("server", "lost", wire) /\ UNCHANGED buf
    BY <1>r, <2>0, <2>2
  <2> QED
    BY <1>2, <2>1, <2>2 DEF ReadHeader
<1>3. CASE Dial
  <2>0. pc.server = "dialing" /\ UNCHANGED <<buf, stamp, now, skew, sameKey>>
    BY <1>3 DEF Dial, header, setting
  <2>1. CASE link' = [link EXCEPT !.dest = "open"] /\ Goto("server", "dialed", wire)
    BY <2>0, <2>1, CoreDials DEF Goto, ToServer, ToClient
  <2>2. CASE DialFailed /\ UNCHANGED link
    <3>0. ToClient = <<>> /\ ToClient \in Seq(Msg)
      BY <1>0, <2>0 DEF Core, ReplyInv, Wires, ToClient
    <3> DEFINE w == IF Up(TunDown) THEN Put(TunDown, <<"dialFail">>, wire) ELSE wire
    <3>1. /\ w \in Wires
          /\ w[TunDown] = IF Up(TunDown) THEN Append(ToClient, "dialFail") ELSE ToClient
      <4>1. "dialFail" \in Msg
        OBVIOUS
      <4> QED
        BY <1>0, <4>1, PutDown DEF ToClient
    <3>2. Return("server", "unreachable", w)
      BY <2>2 DEF DialFailed
    <3> HIDE DEF w
    <3>3. /\ pc' = [pc EXCEPT !["server"] = "unreachable"]
          /\ TunUp \in shut' <=> TunUp \in shut
          /\ \/ ToClient' = w[TunDown]
             \/ link.tunnel = "open" /\ ToClient' = Append(w[TunDown], Eof)
      BY <3>1, <3>2, ServerReturn
    <3>4. Up(TunDown) => ToClient' # <<>> /\ Head(ToClient') = "dialFail"
      <4>1. LET d == Append(ToClient, "dialFail")
            IN  d \in Seq(Msg) /\ d # <<>> /\ Head(d) = "dialFail"
        BY <3>0, HeadTailAppend, AppendProperties
      <4>2. Up(TunDown) => w[TunDown] = Append(ToClient, "dialFail")
        BY <3>1
      <4>3. Head(Append(w[TunDown], Eof)) = IF w[TunDown] = <<>> THEN Eof ELSE Head(w[TunDown])
        BY <3>1, AppendOne DEF Wires
      <4>4. Append(w[TunDown], Eof) # <<>>
        BY <3>1, AppendOne DEF Wires
      <4> QED
        BY <3>3, <4>1, <4>2, <4>3, <4>4
    <3>5. BufInv'
      BY <2>0 DEF Core, BufInv
    <3>6. "unreachable" \in ServerFailures /\ "unreachable" \notin Answering
      BY DEF ServerFailures, Answering
    <3>7. \/ UNCHANGED ToClient
          \/ link.tunnel = "open" /\ ToClient' = Append(ToClient, Eof)
          \/ ToClient' # <<>> /\ Head(ToClient') = "dialFail"
      BY <3>1, <3>3, <3>4
    <3> QED
      BY <2>0, <2>2, <3>3, <3>5, <3>6, <3>7, CoreServerLeaves
  <2> QED
    BY <1>3, <2>1, <2>2 DEF Dial
<1>4. CASE SendOk
  <2>1. CASE Goto("server", "early", Put(TunDown, <<"ok">>, wire))
    <3>1. ToClient' = Append(ToClient, "ok") /\ UNCHANGED <<ToServer, shut>>
      BY <1>0, <2>1, PutOne DEF Goto, ToServer, ToClient
    <3> QED
      BY <1>4, <2>1, <3>1, CoreSendsOk DEF SendOk, Goto, header, setting
  <2>2. CASE Return("server", "lost", wire)
    BY <1>4, <1>r, <2>2 DEF SendOk, header, setting
  <2> QED
    BY <1>4, <2>1, <2>2 DEF SendOk
<1>5. CASE ForwardEarly
  <2> DEFINE leftover == SubSeq(buf, Len(Header) + 1, Len(buf))
  <2>1. CASE Goto("server", "relay", Put(DestUp, leftover, wire))
    <3>1. leftover \in Seq(Msg)
      BY SubSeqProperties, ElementOfSeq, LenProperties DEF Typed
    <3>2. UNCHANGED <<ToClient, shut>>
      <4>1. TunDown # DestUp
        OBVIOUS
      <4>2. Put(DestUp, leftover, wire)[TunDown] = wire[TunDown]
        BY <1>0, <4>1 DEF Put, Wires
      <4> QED
        BY <2>1, <4>2 DEF Goto, ToClient
    <3> QED
      BY <1>5, <2>1, <3>2, CoreServerRelays DEF ForwardEarly, Goto, header, setting
  <2>2. CASE Return("server", "lost", wire)
    BY <1>5, <1>r, <2>2 DEF ForwardEarly, header, setting
  <2> QED
    BY <1>5, <2>1, <2>2 DEF ForwardEarly
<1> QED
  BY <1>1, <1>2, <1>3, <1>4, <1>5 DEF Server

-----------------------------------------------------------------------------
(* The relays, the ends and the network.                                   *)

LEMMA CoreRelay ==
  ASSUME Typed, Core, Relay
  PROVE  Core'
<1> USE Halves, Controls
<1>0. wire \in Wires /\ shut \subseteq Half
      /\ "client" \in Node /\ "server" \in Node /\ Node = {"client", "server"}
      /\ pc \in [Node -> ClientPc \cup ServerPc]
  BY DEF Typed, Moved, Node
<1>1. ASSUME NEW n \in Node, CopyFails(n) PROVE Core'
  <2>0. pc[n] = "relay" /\ Return(n, "closed", wire)
        /\ UNCHANGED <<link, buf, stamp, now, skew, sameKey>>
    BY <1>1 DEF CopyFails, header, setting
  <2>1. CASE n = "client"
    <3>1. pc' = [pc EXCEPT !["client"] = "closed"]
      BY <1>0, <2>0, <2>1, ReturnType
    <3> QED
      BY <2>0, <2>1, <3>1, CoreClientRelays
  <2>2. CASE n = "server"
    <3>1. /\ pc' = [pc EXCEPT !["server"] = "closed"]
          /\ TunUp \in shut' <=> TunUp \in shut
          /\ \/ UNCHANGED ToClient
             \/ link.tunnel = "open" /\ ToClient' = Append(ToClient, Eof)
      BY <1>0, <2>0, <2>2, ServerReturn DEF ToClient
    <3> QED
      BY <2>0, <2>2, <3>1, CoreServerRelays
  <2> QED
    BY <1>0, <2>1, <2>2
<1>2. ASSUME NEW n \in Node, NEW d \in Dir, Copy(n, d) PROVE Core'
  <2> DEFINE in == Input[n][d]
             out == Output[n][d]
             m == Head(wire[in])
             rest == Take(in, wire)
             left == RunningAfter(n, d)
  <2>0. /\ pc[n] = "relay" /\ wire[in] # <<>> /\ Up(out)
        /\ UNCHANGED <<link, buf, stamp, now, skew, sameKey>>
    BY <1>2 DEF Copy, header, setting
  <2>1. \/ Goto(n, "relay", Put(out, <<m>>, rest))
        \/ Return(n, "closed", rest)
        \/ CloseAll({out}, rest) /\ UNCHANGED pc
    BY <1>2 DEF Copy
  <2>2. in \in Half /\ out \in Half /\ {out} \in SUBSET Half
    OBVIOUS
  <2>3. rest \in Wires /\ \A g \in Half \ {in} : rest[g] = wire[g]
    BY <1>0, <2>0, <2>2, TakeType
  <2>4. m \in Msg
    BY <1>0, <2>0, <2>2, HeadTailProperties DEF Wires
  <2>5. CASE n = "client"
    <3>1. CASE Return(n, "closed", rest)
      <4>1. pc' = [pc EXCEPT !["client"] = "closed"]
        BY <1>0, <2>3, <2>5, <3>1, ReturnType
      <4> QED
        BY <2>0, <2>5, <4>1, CoreClientRelays
    <3>2. CASE pc' = [pc EXCEPT !["client"] = "relay"]
      BY <2>0, <2>5, <3>2, CoreClientRelays
    <3>3. CASE UNCHANGED pc
      <4>1. pc' = [pc EXCEPT !["client"] = "relay"]
        BY <1>0, <2>0, <2>5, <3>3
      <4> QED
        BY <3>2, <4>1
    <3> QED
      BY <2>1, <2>5, <3>1, <3>2, <3>3 DEF Goto
  <2>6. CASE n = "server"
    <3>0. in # TunDown /\ out # TunUp
      BY <2>6 DEF Input, Output, Node, Dir, TunUp, TunDown, DestUp, DestDown
    <3>1. rest[TunDown] = ToClient
      BY <2>3, <3>0 DEF ToClient
    <3>2. out = TunDown => link.tunnel = "open"
      BY <2>0 DEF Up, TunDown
    <3> HIDE DEF in, out, m, rest, left
    <3>3. CASE Goto(n, "relay", Put(out, <<m>>, rest))
      <4>1. \/ UNCHANGED ToClient
            \/ link.tunnel = "open" /\ ToClient' = Append(ToClient, m)
        <5>1. wire' = Put(out, <<m>>, rest)
          BY <3>3 DEF Goto
        <5>2. CASE out = TunDown
          <6>1. Put(TunDown, <<m>>, rest)[TunDown] = Append(rest[TunDown], m)
            BY <2>3, <2>4, PutDown
          <6> QED
            BY <3>1, <3>2, <5>1, <5>2, <6>1 DEF ToClient
        <5>3. CASE out # TunDown
          BY <2>2, <2>3, <3>1, <5>1, <5>3 DEF Put, Wires, ToClient
        <5> QED
          BY <5>2, <5>3
      <4>2. pc' = [pc EXCEPT !["server"] = "relay"] /\ shut' = shut
        BY <2>6, <3>3 DEF Goto
      <4> QED
        BY <2>0, <2>4, <2>6, <4>1, <4>2, CoreServerRelays
    <3>4. CASE Return(n, "closed", rest)
      <4>1. /\ pc' = [pc EXCEPT !["server"] = "closed"]
            /\ TunUp \in shut' <=> TunUp \in shut
            /\ \/ UNCHANGED ToClient
               \/ link.tunnel = "open" /\ ToClient' = Append(ToClient, Eof)
        BY <2>3, <2>6, <3>1, <3>4, ServerReturn
      <4> QED
        BY <2>0, <2>6, <4>1, CoreServerRelays
    <3>5. CASE CloseAll({out}, rest) /\ UNCHANGED pc
      <4>1. /\ shut' = shut \cup {out}
            /\ \/ wire'[TunDown] = rest[TunDown]
               \/ TunDown \in {out} /\ wire'[TunDown] = Append(rest[TunDown], Eof)
        BY <1>0, <2>2, <2>3, <3>5, CloseType
      <4>2. pc' = [pc EXCEPT !["server"] = "relay"]
        BY <1>0, <2>0, <2>6, <3>5
      <4>3. \/ UNCHANGED ToClient
            \/ link.tunnel = "open" /\ ToClient' = Append(ToClient, Eof)
        BY <3>1, <3>2, <4>1 DEF ToClient
      <4>4. TunUp \in shut' <=> TunUp \in shut
        BY <3>0, <4>1
      <4> QED
        BY <2>0, <2>6, <4>2, <4>3, <4>4, CoreServerRelays
    <3> QED
      BY <2>1, <3>3, <3>4, <3>5
  <2> QED
    BY <1>0, <2>5, <2>6
<1> QED
  BY <1>1, <1>2 DEF Relay

LEMMA CoreKill ==
  ASSUME Typed, Core, NEW n \in Node, Kill(n)
  PROVE  Core'
<1>0. /\ wire \in Wires /\ Return(n, "killed", wire)
      /\ pc[n] \notin ClientFailures \cup ServerFailures \cup {"idle", "relay", "closed"}
      /\ UNCHANGED <<link, buf, stamp, now, skew, sameKey>>
      /\ Node = {"client", "server"}
      /\ pc.client \in ClientPc /\ pc.server \in ServerPc
  BY DEF Kill, Typed, Moved, header, setting, Node
<1>1. CASE n = "client"
  <2>1. /\ pc' = [pc EXCEPT !["client"] = "killed"]
        /\ TunUp \in shut'
        /\ ToClient' = ToClient
        /\ \/ UNCHANGED ToServer
           \/ TunUp \notin shut /\ link.tunnel = "open" /\ ToServer' = Append(ToServer, Eof)
    BY <1>0, <1>1, ClientReturn DEF ToServer, ToClient
  <2>2. pc.client \in {"greeting", "request", "connect"} \cup Trying
    BY <1>0, <1>1 DEF ClientPc, Trying
  <2>3. "killed" \in ClientFailures
    BY DEF ClientFailures
  <2> QED
    BY <1>0, <2>1, <2>2, <2>3, CoreClientLeaves
<1>2. CASE n = "server"
  <2>1. /\ pc' = [pc EXCEPT !["server"] = "killed"]
        /\ TunUp \in shut' <=> TunUp \in shut
        /\ \/ UNCHANGED ToClient
           \/ link.tunnel = "open" /\ ToClient' = Append(ToClient, Eof)
    BY <1>0, <1>2, ServerReturn DEF ToClient
  <2>2. pc.server \in {"tls", "reading", "dialing", "dialed", "early"}
    BY <1>0, <1>2 DEF ServerPc
  <2>3. "killed" \in ServerFailures /\ "killed" \notin Answering
    BY DEF ServerFailures, Answering
  <2>4. BufInv'
    BY <1>0 DEF Core, BufInv
  <2> QED
    BY <1>0, <2>1, <2>2, <2>3, <2>4, CoreServerLeaves
<1> QED
  BY <1>0, <1>1, <1>2

LEMMA CoreCut ==
  ASSUME Typed, Core, NEW l \in Link, Cut(l)
  PROVE  Core'
<1>0. /\ link[l] = "open" /\ link' = [link EXCEPT ![l] = "cut"]
      /\ wire' = [h \in Half |-> IF h[1] = l THEN <<>> ELSE wire[h]]
      /\ UNCHANGED <<pc, shut, buf, stamp, now, skew, sameKey>>
  BY DEF Cut, header, setting
<1>1. /\ ToServer' = IF l = "tunnel" THEN <<>> ELSE ToServer
      /\ ToClient' = IF l = "tunnel" THEN <<>> ELSE ToClient
  BY <1>0, Halves DEF ToServer, ToClient, TunUp, TunDown
<1>2. /\ link'.dest = "closed" <=> link.dest = "closed"
      /\ link'.tunnel = "closed" <=> link.tunnel = "closed"
      /\ link'.tunnel = IF l = "tunnel" THEN "cut" ELSE link.tunnel
  BY <1>0 DEF Typed, Link
<1>3. StreamFrom(<<>>, 0) /\ StreamFrom(<<>>, 1 + Len(buf)) /\ NoHeaderIn(<<>>)
  BY DEF StreamFrom, NoHeaderIn
<1>4. BufInv' /\ ConnectInv' /\ SendInv'
  BY <1>0, <1>1, <1>2 DEF Core, BufInv, ConnectInv, SendInv
<1>5. ReadInv'
  <2>1. CASE l = "tunnel"
    <3>1. EndIsLate(ToServer)'
      BY <1>1, <2>1 DEF EndIsLate
    <3>2. StreamFrom(ToServer', 0) /\ StreamFrom(ToServer', 1 + Len(buf')) /\ NoHeaderIn(ToServer')
      BY <1>0, <1>1, <1>3, <2>1
    <3> QED
      BY <1>0, <3>1, <3>2 DEF Core, ReadInv
  <2>2. CASE l # "tunnel"
    <3>1. ToServer' = ToServer
      BY <1>1, <2>2
    <3> QED
      BY <1>0, <3>1 DEF Core, ReadInv, EndIsLate
  <2> QED
    BY <2>1, <2>2
<1>6. DialInv' /\ VerdictInv' /\ ReplyInv'
  BY <1>0, <1>1, <1>2 DEF Core, DialInv, ReplyInv, VerdictInv, Judged, Verified, Opened
<1> QED
  BY <1>4, <1>5, <1>6 DEF Core

LEMMA CoreStep ==
  ASSUME Typed, Core, [Next]_vars
  PROVE  Core'
<1> USE Halves
<1>0. wire \in Wires /\ shut \subseteq Half /\ now \in Int
  BY TunnelAssumption DEF Typed, Moved
<1>1. CASE AppSend
  <2>1. UNCHANGED <<ToServer, ToClient>>
    BY <1>0, <1>1 DEF AppSend, Put, ToServer, ToClient, Wires
  <2> QED
    BY <1>0, <1>1, <2>1, CoreFrame DEF AppSend, header, setting
<1>2. CASE AppClose
  <2>1. /\ UNCHANGED <<ToServer, ToClient>>
        /\ TunUp \in shut' <=> TunUp \in shut
    BY <1>0, <1>2 DEF AppClose, CloseAll, ToServer, ToClient, Wires
  <2> QED
    BY <1>0, <1>2, <2>1, CoreFrame DEF AppClose, header, setting
<1>3. CASE AppRecv
  <2>1. UNCHANGED <<ToServer, ToClient>>
    BY <1>0, <1>3 DEF AppRecv, Take, ToServer, ToClient, Wires
  <2> QED
    BY <1>0, <1>3, <2>1, CoreFrame DEF AppRecv, header, setting
<1>4. CASE DestSend
  <2>1. UNCHANGED <<ToServer, ToClient>>
    BY <1>0, <1>4 DEF DestSend, Put, ToServer, ToClient, Wires
  <2> QED
    BY <1>0, <1>4, <2>1, CoreFrame DEF DestSend, header, setting
<1>5. CASE DestClose
  <2>1. /\ UNCHANGED <<ToServer, ToClient>>
        /\ TunUp \in shut' <=> TunUp \in shut
    BY <1>0, <1>5 DEF DestClose, CloseAll, ToServer, ToClient, Wires
  <2> QED
    BY <1>0, <1>5, <2>1, CoreFrame DEF DestClose, header, setting
<1>6. CASE DestRecv
  <2>1. UNCHANGED <<ToServer, ToClient>>
    BY <1>0, <1>6 DEF DestRecv, Take, ToServer, ToClient, Wires
  <2> QED
    BY <1>0, <1>6, <2>1, CoreFrame DEF DestRecv, header, setting
<1>7. CASE Tick
  <2>1. now' \in Int /\ now' >= now
    BY <1>0, <1>7 DEF Tick
  <2> QED
    BY <1>7, <2>1, CoreFrame DEF Tick, header, setting, ToServer, ToClient
<1>8. CASE UNCHANGED vars
  BY <1>0, <1>8, CoreFrame DEF vars, header, setting, ToServer, ToClient
<1> QED
  BY <1>1, <1>2, <1>3, <1>4, <1>5, <1>6, <1>7, <1>8,
     CoreClient, CoreServer, CoreRelay, CoreKill, CoreCut DEF Next, Environment

LEMMA CoreInit == Init => Core
<1> SUFFICES ASSUME Init PROVE Core
  OBVIOUS
<1>1. /\ pc.client = "greeting" /\ pc.server = "idle" /\ buf = <<>> /\ shut = {}
      /\ ToServer = <<>> /\ ToClient = <<>>
      /\ link.tunnel = "closed" /\ link.dest = "closed"
  BY Halves DEF Init, ToServer, ToClient, Link
<1> QED
  BY <1>1 DEF Core, BufInv, ConnectInv, ReadInv, SendInv, DialInv, ReplyInv, VerdictInv,
     Trying, Answering, Opened

LEMMA CoreAlways == Spec => [](Typed /\ Core)
<1>1. Init => Typed /\ Core
  BY TypedInit, CoreInit
<1>2. Typed /\ Core /\ [Next]_vars => Typed' /\ Core'
  BY TypedStep, CoreStep
<1> QED
  BY <1>1, <1>2, PTL DEF Spec

-----------------------------------------------------------------------------
(* Every variable has its type, for payloads of any length and any skews,  *)
(* and an end of stream never enters the header buffer.                    *)
THEOREM TunnelTypeCorrect == Spec => []TypeOK
<1>1. Typed /\ Core => TypeOK
  <2> SUFFICES ASSUME Typed, Core PROVE TypeOK
    OBVIOUS
  <2>1. Eof \notin Range(buf)
    <3>1. \A i \in 1..Len(buf) : buf[i] # Eof
      BY LenProperties DEF Typed, Core, BufInv, Stream, Eof
    <3> QED
      BY <3>1, LenProperties DEF Range, Typed
  <2>2. Len(buf) <= Len(Header) + Len(AppData)
    BY TunnelAssumption, Controls, LenProperties DEF Typed, Core, BufInv
  <2>3. DOMAIN wire = Half
    BY DEF Typed, Moved, Wires
  <2> QED
    BY <2>1, <2>2, <2>3 DEF TypeOK, Typed, Moved, ClientPc, ServerPc
<1> QED
  BY <1>1, CoreAlways, PTL

(* However a header is cut up, the exit node's reads before its reply are  *)
(* header-only.                                                            *)
THEOREM HeaderOnly == Spec => []OnlyHeaderBeforeReply
<1>1. Typed /\ Core => OnlyHeaderBeforeReply
  <2> SUFFICES ASSUME Typed, Core PROVE OnlyHeaderBeforeReply
    OBVIOUS
  <2>1. /\ buf \in Seq(Msg) /\ Len(buf) \in Nat /\ Len(buf) <= 3
        /\ Header \in Seq(Msg) /\ Len(Header) = 3
        /\ \A i \in 1..Len(buf) : buf[i] \in Msg /\ buf[i] = Header[i]
    <3>1. \A i \in 1..3 : Header[i] = Stream[i + 1]
      BY Controls DEF Stream
    <3>2. buf \in Seq(Msg) /\ Len(buf) \in Nat /\ Len(buf) <= 3
      BY LenProperties DEF Typed, Core, BufInv
    <3> QED
      BY <3>1, <3>2, Controls, ElementOfSeq DEF Core, BufInv
  <2>2. \A i \in 1..Len(buf) : Header[i] \in Msg
    BY <2>1
  <2> DEFINE a == SubSeq(buf, 1, Len(buf))
             b == SubSeq(Header, 1, Len(buf))
  <2>3. /\ a \in Seq(Msg) /\ b \in Seq(Msg)
        /\ Len(a) = Len(buf) /\ Len(b) = Len(buf)
        /\ \A i \in 1..Len(buf) : a[i] = buf[i] /\ b[i] = Header[i]
    <3>1. /\ a \in Seq(Msg)
          /\ Len(a) = IF 1 <= Len(buf) THEN Len(buf) - 1 + 1 ELSE 0
          /\ \A i \in 1..Len(buf) - 1 + 1 : a[i] = buf[1 + i - 1]
      BY <2>1, SubSeqProperties
    <3>2. /\ b \in Seq(Msg)
          /\ Len(b) = IF 1 <= Len(buf) THEN Len(buf) - 1 + 1 ELSE 0
          /\ \A i \in 1..Len(buf) - 1 + 1 : b[i] = Header[1 + i - 1]
      BY <2>1, <2>2, SubSeqProperties
    <3> HIDE DEF a, b
    <3> QED
      BY <2>1, <3>1, <3>2
  <2> HIDE DEF a, b
  <2>4. a = b
    BY <2>1, <2>3, SeqEqual
  <2> QED
    BY <2>1, <2>4 DEF OnlyHeaderBeforeReply, IsPrefix, a, b
<1> QED
  BY <1>1, CoreAlways, PTL

(* The reply the client acts on is the truth about the exit node.          *)
THEOREM VerdictIsTrue == Spec => []VerdictMatchesServer
<1>1. Core => VerdictMatchesServer
  BY DEF Core, VerdictInv, Judged, DialInv, VerdictMatchesServer, Answering
<1> QED
  BY <1>1, CoreAlways, PTL

(* No other secret, and no clock more than max_skew behind, opens a tunnel,*)
(* whatever the delay.                                                     *)
THEOREM SkewBound == Spec => []OpenedWithinSkew
<1>1. Core => OpenedWithinSkew
  BY DEF Core, VerdictInv, Judged, Verified, OpenedWithinSkew
<1> QED
  BY <1>1, CoreAlways, PTL
==============================================================================
