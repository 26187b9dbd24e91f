------------------------------- MODULE MCOnDisk -------------------------------
(* The three parts whose state is files, each with the crashes that cut    *)
(* its writes short: a behaviour is one of one of them.                    *)
EXTENDS TlsMaterial, ServiceUnits, Installer

VARIABLES part

MCBins == <<"hydra", "hydra-client">>

Parts == {"tls", "service", "installer"}

Init_ ==
  /\ part \in Parts
  /\ Init /\ ServiceInit /\ InstallerInit

Next_ ==
  \/ part = "tls" /\ Next
       /\ UNCHANGED <<part, serviceVars, installerVars>>
  \/ part = "service" /\ ServiceNext
       /\ UNCHANGED <<part, vars, installerVars>>
  \/ part = "installer" /\ InstallerNext
       /\ UNCHANGED <<part, vars, serviceVars>>
=============================================================================
