--------------------------- MODULE MCCertificates ---------------------------
(***************************************************************************)
(* Small instances of Certificates for TLC: an organization, and a second  *)
(* one that comes and goes.                                                *)
(***************************************************************************)
EXTENDS CertificatesProperties
=============================================================================
