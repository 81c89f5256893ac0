--------------------------- MODULE MCScanPipeline ---------------------------
(* Small instances of ScanPipeline for TLC. Native and Prowler check ids     *)
(* never coincide ("prowler_" prefixes the latter), so neither do the        *)
(* batches. A batch that names a check twice is one resource seen from two   *)
(* regions.                                                                  *)
EXTENDS ScanPipeline

CONSTANTS c1, c2, p1

NoBatch        == {}
AsyncBatches   == {<<>>, <<c1, c1>>, <<c1, c2>>}
OneCheck       == {<<>>, <<c1>>}
TwiceSeen      == {<<c1, c1>>}
LiveBatches    == {<<c1, c1>>, <<c2, c1>>}
UploadBatches  == {<<p1>>}
EagerBatches   == {<<c1, c2>>, <<c2>>}

AsyncEvents == {"crash", "broker", "purge", "triage", "disconnect"}
LiveEvents  == {"redelivery", "triage", "disconnect"}
EagerEvents == {"crash", "disconnect"}
RedeliveryOnly == {"redelivery"}
NoEvents    == {}

=============================================================================
