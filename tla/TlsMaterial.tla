----------------------------- MODULE TlsMaterial -----------------------------
(***************************************************************************)
(* The exit node's certificate on disk, over starts, crashes and restarts  *)
(* of `hydra server` on one directory.  fs::write truncates first and      *)
(* writes after: a death in between leaves the file empty or partly        *)
(* written.  An identity stands for a generated pair: its certificate, its *)
(* key and its pin.                                                        *)
(***************************************************************************)
EXTENDS Naturals, FiniteSets

CONSTANTS
  Proc,    \* the server processes that may run on the directory
  MaxId    \* bound on the pairs ever generated

ASSUME TlsAssumption == MaxId \in Nat

Id == 1..MaxId
Absent == [state |-> "absent", id |-> 0]
Empty == [state |-> "empty", id |-> 0]
Torn(i) == [state |-> "torn", id |-> i]
Whole(i) == [state |-> "whole", id |-> i]
Content == {Absent, Empty} \cup { Torn(i) : i \in Id } \cup { Whole(i) : i \in Id }
Down == {"stopped", "failed"}
Writing == {"create_cert", "write_cert", "create_key", "write_key"}

VARIABLES
  cert,     \* cert.der
  key,      \* key.der
  ids,      \* how many pairs have been generated
  pc,       \* where each process stands
  mat,      \* the TlsMaterial each process holds, as the contents it came from
  printed   \* the pins operators have been given: what certificate they are of

files == <<cert, key>>
vars == <<files, ids, pc, mat, printed>>

NoMaterial == [cert |-> Absent, key |-> Absent]

Init ==
  /\ cert = Absent
  /\ key = Absent
  /\ ids = 0
  /\ pc = [p \in Proc |-> "stopped"]
  /\ mat = [p \in Proc |-> NoMaterial]
  /\ printed = {}

Start(p) ==
  /\ pc[p] \in Down
  /\ pc' = [pc EXCEPT ![p] = "check"]
  /\ UNCHANGED <<files, ids, mat, printed>>

-----------------------------------------------------------------------------
(* load_or_generate.                                                       *)

(* Faulty: every start generates.                                          *)
NeverReuse == FALSE

BothExist == cert # Absent /\ key # Absent

(* Faulty: the certificate of one generation and the key of the next.      *)
PairOfTwo(i) == [cert |-> Whole(i), key |-> Whole(i + 1)]

Pair(i) == [cert |-> Whole(i), key |-> Whole(i)]

(* Faulty: the new pair is not persisted.                                  *)
AfterGeneratePrint == "print"

AfterGenerate == "create_cert"

Generate(p) ==
  /\ pc[p] = "check"
  /\ ~BothExist
  /\ ids < MaxId
  /\ ids' = ids + 1
  /\ mat' = [mat EXCEPT ![p] = Pair(ids + 1)]
  /\ pc' = [pc EXCEPT ![p] = AfterGenerate]
  /\ UNCHANGED <<files, printed>>

LoadCert(p) ==
  /\ pc[p] = "check"
  /\ BothExist
  /\ mat' = [mat EXCEPT ![p].cert = cert]
  /\ pc' = [pc EXCEPT ![p] = "load_key"]
  /\ UNCHANGED <<files, ids, printed>>

(* Of the two files only an empty certificate is refused at this point.    *)
LoadKey(p) ==
  /\ pc[p] = "load_key"
  /\ mat' = [mat EXCEPT ![p].key = key]
  /\ pc' = [pc EXCEPT ![p] = IF mat[p].cert = Empty THEN "failed" ELSE "print"]
  /\ UNCHANGED <<files, ids, printed>>

-----------------------------------------------------------------------------
(* persist: two fs::write, certificate first.                              *)

CreateCert(p) ==
  /\ pc[p] = "create_cert"
  /\ cert' = Empty
  /\ pc' = [pc EXCEPT ![p] = "write_cert"]
  /\ UNCHANGED <<key, ids, mat, printed>>

WriteCert(p) ==
  /\ pc[p] = "write_cert"
  /\ cert' = mat[p].cert
  /\ pc' = [pc EXCEPT ![p] = "create_key"]
  /\ UNCHANGED <<key, ids, mat, printed>>

CreateKey(p) ==
  /\ pc[p] = "create_key"
  /\ key' = Empty
  /\ pc' = [pc EXCEPT ![p] = "write_key"]
  /\ UNCHANGED <<cert, ids, mat, printed>>

WriteKey(p) ==
  /\ pc[p] = "write_key"
  /\ key' = mat[p].key
  /\ pc' = [pc EXCEPT ![p] = "print"]
  /\ UNCHANGED <<cert, ids, mat, printed>>

-----------------------------------------------------------------------------
(* hydra-cli's server run: the pin is printed, then serve is entered.      *)

PrintPin(p) ==
  /\ pc[p] = "print"
  /\ printed' = printed \cup {mat[p].cert}
  /\ pc' = [pc EXCEPT ![p] = "serve"]
  /\ UNCHANGED <<files, ids, mat>>

(* with_single_cert refuses material that is not a certificate and its key.*)
ServerConfigOk(m) == m.cert.state = "whole" /\ m.key = m.cert

(* serve binds the listener first; only one process can hold it.           *)
Serve(p) ==
  /\ pc[p] = "serve"
  /\ pc' = [pc EXCEPT ![p] = IF /\ \A q \in Proc : pc[q] # "serving"
                                /\ ServerConfigOk(mat[p])
                             THEN "serving" ELSE "failed"]
  /\ UNCHANGED <<files, ids, mat, printed>>

-----------------------------------------------------------------------------
(* A write is cut short: by a full disk, or by the death of the process.   *)
Shortened(c) == {Empty, Torn(c.id)}

Interrupted(p, how) ==
  /\ pc[p] \notin Down
  /\ pc' = [pc EXCEPT ![p] = how]
  /\ IF pc[p] = "write_cert" THEN cert' \in Shortened(mat[p].cert) ELSE cert' = cert
  /\ IF pc[p] = "write_key" THEN key' \in Shortened(mat[p].key) ELSE key' = key
  /\ UNCHANGED <<ids, mat, printed>>

WriteFails(p) ==
  /\ pc[p] \in Writing
  /\ Interrupted(p, "failed")

Crash(p) == Interrupted(p, "stopped")

Next == \E p \in Proc :
  \/ Start(p) \/ Generate(p) \/ LoadCert(p) \/ LoadKey(p)
  \/ CreateCert(p) \/ WriteCert(p) \/ CreateKey(p) \/ WriteKey(p)
  \/ PrintPin(p) \/ Serve(p)
  \/ WriteFails(p) \/ Crash(p)

Spec == Init /\ [][Next]_vars

-----------------------------------------------------------------------------
(* Properties.                                                             *)

(* Every variable has its type, and what is being written is a generated   *)
(* pair.                                                                   *)
TypeOK ==
  /\ cert \in Content /\ key \in Content
  /\ ids \in 0..MaxId
  /\ pc \in [Proc -> Down \cup Writing \cup {"check", "load_key", "print", "serve", "serving"}]
  /\ mat \in [Proc -> [cert : Content, key : Content]]
  /\ printed \subseteq Content
  /\ \A p \in Proc : pc[p] \in Writing => mat[p].cert.id \in Id /\ mat[p].key.id \in Id

(* One pin over the life of the directory, wherever its runs die: an       *)
(* operator is never given a second one ("Later runs load those files so   *)
(* the pin stays stable across restarts").  Two overlapping first starts   *)
(* can print two, so this is about one process at a time.                  *)
PinStable == Cardinality(printed) <= 1

(* A server that accepts connections presents the certificate every client *)
(* configured from this directory's output has pinned, and its files hold  *)
(* the pair it serves: the next start will load it.                        *)
ServesWhatItPrinted ==
  \A p \in Proc : pc[p] = "serving" =>
    /\ printed = {mat[p].cert}
    /\ cert = mat[p].cert
    /\ key = mat[p].key

(* "On first run the server generates the cert, writes cert.der + key.der  *)
(* [...].  Later runs load those files": a run that has loaded the files   *)
(* of earlier runs can serve with them.  A death between the two writes    *)
(* leaves both files in place but no usable key, and no later run repairs  *)
(* them.                                                                   *)
LaterRunsServe == \A p \in Proc : pc[p] = "serve" => ServerConfigOk(mat[p])
=============================================================================
