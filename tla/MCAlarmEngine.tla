--------------------------- MODULE MCAlarmEngine ---------------------------
(* Values of the constants of AlarmEngine for TLC.                           *)
EXTENDS AlarmEngine
High   == [level |-> "high", good |-> TRUE]
Band   == [level |-> "band", good |-> TRUE]
Normal == [level |-> "normal", good |-> TRUE]
Bad    == [level |-> "high", good |-> FALSE]
Two   == {High, Normal}
Four  == {High, Band, Normal, Bad}
Later == {[r \in Rules |-> "later"]}
Now   == {[r \in Rules |-> "now"]}
Both  == Later \cup Now
=============================================================================
