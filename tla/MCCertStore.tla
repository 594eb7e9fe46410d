---------------------------- MODULE MCCertStore -----------------------------
(* One call sign: its certificates, renewals and requests are what can come  *)
(* into each other's way; key files of different call signs are separate.    *)
EXTENDS CertStore
=============================================================================
