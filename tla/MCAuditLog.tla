----------------------------- MODULE MCAuditLog -----------------------------
(* Small instances of AuditLog for TLC. *)
EXTENDS AuditLog

CONSTANTS s1, r1, r2, r3, quote, agreement, nothing

OneSubject == {s1}
ThreeRequests == {r1, r2, r3}
MCValues == {quote, agreement}
MixedShapes == {"move", "submit", "org"}
=============================================================================
