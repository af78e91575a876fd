----------------------------- MODULE MCOidcKeys -----------------------------
\* Instances of OidcKeys for TLC.
EXTENDS OidcKeys, TLC
=============================================================================
