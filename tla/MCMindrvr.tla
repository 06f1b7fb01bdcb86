----------------------------- MODULE MCMindrvr ------------------------------
EXTENDS Mindrvr

MCSignature == <<"signature">>

MCDriveKinds ==
  {[d \in {0, 1} |-> IF d = 0 THEN k ELSE "none"] : k \in {"none", "ATA", "ATAPI"}}
    \cup {[d \in {0, 1} |-> "ATA"]}
=============================================================================
