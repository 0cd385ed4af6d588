--------------------------- MODULE MCCertificates ---------------------------
EXTENDS Certificates, TLC

\* One Secret that stays when it is not wanted and one that is deleted.
TwoKinds == <<"cluster", "proxy">>
=============================================================================
