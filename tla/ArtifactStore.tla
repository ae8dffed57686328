--------------------------- MODULE ArtifactStore ---------------------------
(***************************************************************************)
(* What a content-addressed evidence store promises its users: an object   *)
(* is written at most once and never disappears, a receipt is issued only  *)
(* for an object that is stored, and only a receipted object is used.      *)
(***************************************************************************)
CONSTANT Objects

VARIABLES stored, receipts, used

svars == <<stored, receipts, used>>

StoreInit == stored = {} /\ receipts = {} /\ used = {}

Write(o) ==
  /\ o \notin stored
  /\ stored' = stored \cup {o}
  /\ UNCHANGED <<receipts, used>>

Certify(o) ==
  /\ o \in stored
  /\ receipts' = receipts \cup {o}
  /\ UNCHANGED <<stored, used>>

Use(o) ==
  /\ o \in stored \cap receipts
  /\ used' = used \cup {o}
  /\ UNCHANGED <<stored, receipts>>

StoreNext == \E o \in Objects : Write(o) \/ Certify(o) \/ Use(o)

StoreSpec == StoreInit /\ [][StoreNext]_svars
=============================================================================
