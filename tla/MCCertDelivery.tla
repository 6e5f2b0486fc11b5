--------------------------- MODULE MCCertDelivery ---------------------------
(* CertDelivery for TLC.                                                    *)
EXTENDS CertDelivery

LetsEncrypt == [email |-> TRUE, provider |-> "letsencrypt", eab |-> FALSE]
=============================================================================
