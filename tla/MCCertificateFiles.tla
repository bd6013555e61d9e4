-------------------------- MODULE MCCertificateFiles --------------------------
(* Runs of the command for one organisation without and with a logo, and     *)
(* under a new name.                                                         *)
EXTENDS CertificateFiles

MCRegistrations ==
    {[name |-> "Bron", logo |-> "none"], [name |-> "Bron", logo |-> "kroon"],
     [name |-> "Dienst", logo |-> "none"]}
=============================================================================
