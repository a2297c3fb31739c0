---------------------------- MODULE MCWebSession ----------------------------
(* TLC instance of WebSession: two users, two workers, one flow, two tabs. *)
EXTENDS WebSession, TLC

Symmetry == Permutations(Users) \cup Permutations(Slots) \cup Permutations(Workers)

\* Bound: random secrets are explored with the first login only; a second user,
\* which matters for identities and flows, with the configured secret.
OneLoginWithoutSecret == secretConfigured \/ nextLogin <= 2
=============================================================================
