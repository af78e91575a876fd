------------------------- MODULE MCResumableUpload -------------------------
\* Instances of ResumableUpload for TLC.
EXTENDS ResumableUpload, TLC
=============================================================================
