------------------------------ MODULE Rotation -------------------------------
(***************************************************************************)
(* How the exit node's serverNames and the client's pool follow the epoch  *)
(* without talking to each other.                                          *)
(*                                                                         *)
(* On the server a systemd timer runs `hydra server-names`, which prints   *)
(* the accepted window of the current epoch; the operator's hook, which    *)
(* the unit leaves to the operator, reloads the front end with the names   *)
(* printed last.  The client reads its own clock.  Here it refreshes and   *)
(* picks in one step: what its tasks do to each other is Pipeline's        *)
(* business.                                                               *)
(***************************************************************************)
EXTENDS EpochPool, Integers

CONSTANTS
  Period,    \* the timer fires at least this often
  MaxSkew,   \* the client's clock is at most this far from the server's
  MaxClock,  \* bound on both clocks, for model checking
  None       \* no name presented yet

ASSUME RotationAssumption ==
  /\ Period \in Nat \ {0}
  /\ MaxSkew \in Nat
  /\ MaxClock \in Nat /\ EpochAt(MaxClock) <= MaxEpoch
  /\ None \notin SNI

VARIABLES
  clock,        \* the server's clock
  clientClock,  \* the client's clock
  printedAt,    \* when server-names last ran
  serverNames,  \* what that run printed
  accepted,     \* the names the front end has loaded
  acceptedAt,   \* history: when those were printed
  clientEpoch,  \* the client's watch channel
  clientPool,   \* the client's pool
  presented     \* the SNI of the client's latest connection

vars == <<clock, clientClock, printedAt, serverNames, accepted, acceptedAt,
          clientEpoch, clientPool, presented>>

Dist(x, y) == IF x < y THEN y - x ELSE x - y

(* Faulty variant: --single is the default. *)
ServerNamesSingle(e, window) == KeyedEpochSubset[e]

(* hydra server-names, without and with --single. *)
ServerNames(e, window) ==
  IF window THEN AcceptedPoolWindow(e) ELSE KeyedEpochSubset[e]

Init ==
  /\ clock \in 0..MaxClock
  /\ clientClock \in 0..MaxClock /\ Dist(clock, clientClock) <= MaxSkew
  /\ printedAt = clock
  /\ serverNames = ServerNames(EpochAt(clock), TRUE)
  /\ accepted = serverNames /\ acceptedAt = clock
  /\ clientEpoch = EpochAt(clientClock)
  /\ clientPool = AcceptedPoolWindow(clientEpoch)
  /\ presented = None

(* Time passes, but not past the next firing of the timer. *)
Tick ==
  /\ clock < MaxClock /\ clock < printedAt + Period
  /\ clock' = clock + 1
  /\ Dist(clock', clientClock) <= MaxSkew
  /\ UNCHANGED <<clientClock, printedAt, serverNames, accepted, acceptedAt,
                 clientEpoch, clientPool, presented>>

ClientTick ==
  /\ clientClock < MaxClock
  /\ clientClock' = clientClock + 1
  /\ Dist(clock, clientClock') <= MaxSkew
  /\ UNCHANGED <<clock, printedAt, serverNames, accepted, acceptedAt,
                 clientEpoch, clientPool, presented>>

(* The timer's oneshot service. *)
PrintServerNames ==
  /\ printedAt' = clock
  /\ serverNames' = ServerNames(EpochAt(clock), TRUE)
  /\ UNCHANGED <<clock, clientClock, accepted, acceptedAt,
                 clientEpoch, clientPool, presented>>

(* The operator's hook, at any time after the run, or never. *)
Reload ==
  /\ accepted' = serverNames
  /\ acceptedAt' = printedAt
  /\ UNCHANGED <<clock, clientClock, printedAt, serverNames,
                 clientEpoch, clientPool, presented>>

(* Faulty variant: the new epoch is sent without renewing the pool. *)
ConnectOldPool ==
  /\ clientEpoch' = EpochAt(clientClock)
  /\ presented' \in clientPool
  /\ UNCHANGED <<clock, clientClock, printedAt, serverNames, accepted,
                 acceptedAt, clientPool>>

(* A connection: maybe_refresh_epoch, then a pick from the pool. *)
Connect ==
  /\ clientEpoch' = EpochAt(clientClock)
  /\ clientPool' = IF clientEpoch' # clientEpoch
                   THEN AcceptedPoolWindow(clientEpoch') ELSE clientPool
  /\ presented' \in clientPool'
  /\ UNCHANGED <<clock, clientClock, printedAt, serverNames, accepted, acceptedAt>>

Next == Tick \/ ClientTick \/ PrintServerNames \/ Reload \/ Connect

Spec == Init /\ [][Next]_vars

-----------------------------------------------------------------------------
(* Types, and that each set of names is the window of the time recorded    *)
(* for it.                                                                 *)
TypeOK ==
  /\ clock \in 0..MaxClock /\ clientClock \in 0..MaxClock
  /\ printedAt \in 0..clock /\ acceptedAt \in 0..printedAt
  /\ serverNames = AcceptedPoolWindow(EpochAt(printedAt))
  /\ accepted = AcceptedPoolWindow(EpochAt(acceptedAt))
  /\ clientEpoch \in Epoch
  /\ clientPool = AcceptedPoolWindow(clientEpoch)
  /\ presented \in SNI \cup {None}

(* The budget of the +-1 window: as long as the client's clock is within   *)
(* one epoch length of the time the loaded names were printed for (skew    *)
(* and the lag of timer and reload together), every name of the subset for *)
(* the client's epoch is accepted.                                         *)
SkewAndLagTolerated ==
  Dist(clientClock, acceptedAt) <= EpochLen =>
    KeyedEpochSubset[EpochAt(clientClock)] \subseteq accepted

(* A client whose pool is for the epoch of the loaded names presents an    *)
(* accepted one, whatever it presented before.                             *)
AcceptedWhenEpochsAgree ==
  [][Connect /\ clientEpoch' = EpochAt(acceptedAt) => presented' \in accepted]_vars

(* Up to two epochs apart the two windows still share a name.              *)
CommonNameWithinTwoEpochs ==
  Dist(clientEpoch, EpochAt(acceptedAt)) <= 2 => clientPool \cap accepted # {}

(* What the documentation promises: a client whose clock is up to one      *)
(* epoch off still presents an SNI the server accepts.                     *)
OneEpochOffIsAccepted ==
  [][Connect /\ Dist(clientEpoch', EpochAt(acceptedAt)) <= 1
       => presented' \in accepted]_vars
=============================================================================
