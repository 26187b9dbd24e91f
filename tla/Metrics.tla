------------------------------- MODULE Metrics --------------------------------
(***************************************************************************)
(* The counters of the hardening crate and the monitor that reports what   *)
(* changed between one snapshot and the next.  A counter is one atomic     *)
(* word, so an add is one step; a snapshot reads the counters one after    *)
(* the other, and adds come in between.  An unknown name panics and leaves *)
(* the counters alone, so it is no step.                                   *)
(***************************************************************************)
EXTENDS Integers, Sequences

CONSTANTS
  AllNames,  \* ALL_NAMES, in the order a snapshot reads them
  Width,     \* the number of values of a counter, 2^64 in the code
  Amounts,   \* what one call may add
  MaxAdded   \* bound on what is added to a counter altogether

VARIABLES
  value,     \* the counters
  reading,   \* the values a snapshot under way has read so far
  latest,    \* the last finished snapshot; the default one is empty
  reported,  \* the sum of the deltas between successive snapshots
  added,     \* history: all that was added to each counter
  since      \* history: the counters when the snapshot under way began

metricsVars == <<value, reading, latest, reported, added, since>>

Slots == 1..Len(AllNames)
Name == { AllNames[i] : i \in Slots }

(* The names are a list, and a counter is a word.                          *)
ASSUME MetricsAssumption ==
  AllNames \in Seq(Name) /\ Width \in Nat \ {0} /\ Amounts \subseteq Nat

MetricsInit ==
  /\ value = [name \in Name |-> 0]
  /\ reading = <<>>
  /\ latest = <<>>
  /\ reported = [i \in Slots |-> 0]
  /\ added = value
  /\ since = value

(* Faulty: a plain store where the code has fetch_add.                     *)
AddedTo(v, n) == n

FetchAdd(v, n) == (v + n) % Width

(* inc is an add of one.                                                   *)
Add(name, n) ==
  /\ added[name] + n <= MaxAdded
  /\ value' = [value EXCEPT ![name] = FetchAdd(@, n)]
  /\ added' = [added EXCEPT ![name] = @ + n]
  /\ UNCHANGED <<reading, latest, reported, since>>

(* Faulty: the values are paired with the names from the other end.        *)
SlotFromTheEnd(i) == Len(AllNames) + 1 - i

Slot(i) == i

(* Snapshot::take, one counter per step.                                   *)
ReadCounter ==
  /\ Len(reading) < Len(AllNames)
  /\ reading' = Append(reading, value[AllNames[Slot(Len(reading) + 1)]])
  /\ since' = IF reading = <<>> THEN value ELSE since
  /\ UNCHANGED <<value, latest, reported, added>>

(* Faulty: the deltas are taken against the default snapshot every time.   *)
DeltaFromZero(val, earlier, i) == val

(* A name the earlier snapshot lacks counts from 0; a counter that went    *)
(* back has no delta.                                                      *)
Delta(val, earlier, i) ==
  LET prev == IF i \in DOMAIN earlier THEN earlier[i] ELSE 0
  IN  IF val < prev THEN 0 ELSE val - prev

(* The monitor: the snapshot is complete and compared with the last one.   *)
(* No crate of the workspace has one yet; it is what `delta` is made for.  *)
Report ==
  /\ Len(reading) = Len(AllNames)
  /\ reported' = [i \in Slots |-> reported[i] + Delta(reading[i], latest, i)]
  /\ latest' = reading
  /\ reading' = <<>>
  /\ UNCHANGED <<value, added, since>>

MetricsNext ==
  \/ \E name \in Name, n \in Amounts : Add(name, n)
  \/ ReadCounter
  \/ Report

MetricsSpec == MetricsInit /\ [][MetricsNext]_metricsVars

-----------------------------------------------------------------------------
(* Properties.                                                             *)

(* A snapshot is no state the counters were ever in, but each of its       *)
(* values is one its counter had between the first read and now.           *)
SnapshotIsRecent ==
  \A i \in DOMAIN reading :
    added[AllNames[i]] < Width =>
      /\ since[AllNames[i]] <= reading[i]
      /\ reading[i] <= value[AllNames[i]]

(* Adds that come while a snapshot is taken are reported once, in this     *)
(* delta or in the next: the deltas add up to what the last snapshot read. *)
(* A counter that wraps loses some, and never reports what was not added.  *)
DeltasAddUp ==
  \A i \in Slots :
    /\ reported[i] <= added[AllNames[i]]
    /\ added[AllNames[i]] < Width /\ latest # <<>> => reported[i] = latest[i]
=============================================================================
