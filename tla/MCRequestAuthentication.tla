---------------------- MODULE MCRequestAuthentication ----------------------
(* Small instances of RequestAuthentication for TLC. *)
EXTENDS RequestAuthentication

CONSTANTS r1, r2, t1, t2, p1, p2, elsewhere, k0, k1

Quiet == [credentials |-> {"session"}, provider |-> p1, rotating |-> FALSE, refresh |-> TRUE,
          logouts |-> FALSE, faults |-> FALSE, overlap |-> TRUE,
          logins |-> 1, arrivals |-> 2, ticks |-> 2, changes |-> 0]

(* Overlapping refreshes with a provider that rotates tokens, and one that *)
(* does not; in the last, refreshes one after the other.                   *)
Refreshes == {[Quiet EXCEPT !.rotating = b, !.arrivals = 3] : b \in BOOLEAN}
             \cup {[Quiet EXCEPT !.rotating = TRUE, !.overlap = FALSE, !.arrivals = 4, !.ticks = 3]}
(* Another provider, refresh switched off, failures of the token endpoint. *)
Refusals == {[Quiet EXCEPT !.provider = p2], [Quiet EXCEPT !.refresh = FALSE],
             [Quiet EXCEPT !.rotating = TRUE, !.faults = TRUE]}
(* Logouts, late responses and logins; account writes during the awaits.   *)
Endings == {[Quiet EXCEPT !.logouts = TRUE, !.arrivals = 3, !.ticks = 1, !.logins = 2],
            [Quiet EXCEPT !.ticks = 1, !.changes = 2, !.arrivals = 3]}
(* The first requests of a process, with the database down at times.       *)
ColdStarts == {[Quiet EXCEPT !.credentials = {"session", "basic"}, !.faults = TRUE, !.arrivals = 3, !.ticks = 0, !.changes = 1]}
Bearers == {[Quiet EXCEPT !.credentials = {"bearer"}, !.faults = TRUE, !.overlap = FALSE, !.logins = 0]}
(* p1 publishes a key id with its keys and changes it when it rotates; p2  *)
(* publishes none.                                                         *)
KeyIds == [p \in Provider |-> [g \in 0 .. MaxGeneration |-> IF p = p2 THEN NoKid ELSE IF g = 0 THEN k0 ELSE k1]]
AllScenarios == Refreshes \cup Refusals \cup Endings \cup ColdStarts \cup Bearers
=============================================================================
