-------------------------------- MODULE TlsCert --------------------------------
(***************************************************************************)
(* The certificate of native HTTPS: tls.py writes a self-signed pair the   *)
(* first time gunicorn.conf.py (or main.py) is evaluated, and every later  *)
(* start finds the files and keeps them.  The two files are written one    *)
(* after the other, in place, and the process can die between any two      *)
(* steps, with a file truncated or half written; systemd starts it again.  *)
(***************************************************************************)
EXTENDS Naturals

CONSTANTS
    Absent,      \* there is no file
    Torn,        \* an empty or half-written file
    Setups,      \* which of the two paths config.yaml sets, see Configurations
    MaxCrashes,  \* bound: how often the process is killed
    MaxStops     \* bound: how often the service is stopped and started again

\* A path left empty is filled with the default path, each on its own.
Configurations == {"default", "own", "ownCert", "ownKey"}

ASSUME ContentsAssumption == Absent \notin Nat /\ Torn \notin Nat /\ Absent # Torn
ASSUME SetupsAssumption == Setups \subseteq Configurations
ASSUME BoundsAssumption == MaxCrashes \in Nat /\ MaxStops \in Nat

VARIABLES
    setup,    \* the configuration in force
    cert,     \* what the certificate file holds
    key,      \* what the key file holds
    pc,       \* where the starting process is
    pair,     \* number of the pair being generated, or last generated
    trusted,  \* the certificate a user marked as trusted in the browser
    crashes, stops

vars == <<setup, cert, key, pc, pair, trusted, crashes, stops>>
files == <<cert, key>>
bounds == <<crashes, stops>>

\* A file that is neither absent nor torn holds its half of a pair: 0 is the pair the
\* operator configured, 1, 2, ... are generated.
Own == 0
Missing(content) == content = Absent
CertSet(c) == c \in {"own", "ownCert"}
KeySet(c) == c \in {"own", "ownKey"}

Init ==
    /\ setup \in Setups
    /\ cert = IF CertSet(setup) THEN Own ELSE Absent
    /\ key = IF KeySet(setup) THEN Own ELSE Absent
    /\ pc = "down"
    /\ pair = 0
    /\ trusted = Absent
    /\ crashes = 0
    /\ stops = 0
-------------------------------------------------------------------------------
(* ensure_self_signed_certificate, at every start. *)

\* Mutant: a new pair at every start.
KeptNever(c, k) == FALSE

\* Mutant: one of the files is enough.
KeptIfAny(c, k) == ~Missing(c) \/ ~Missing(k)

\* The early return: both files exist, whatever they hold.
Kept(c, k) == ~Missing(c) /\ ~Missing(k)

Start ==
    /\ pc = "down"
    /\ IF Kept(cert, key)
       THEN pc' = "load" /\ UNCHANGED pair
       ELSE pc' = "openKey" /\ pair' = pair + 1
    /\ UNCHANGED <<setup, files, trusted, bounds>>

\* write_bytes truncates the file when it opens it, and writes when told.
Write(from, to, file, content) ==
    /\ pc = from
    /\ pc' = to
    /\ file' = content
    /\ UNCHANGED <<setup, pair, trusted, bounds>>

OpenKey   == Write("openKey", "writeKey", key, Torn) /\ UNCHANGED cert
WriteKey  == Write("writeKey", "openCert", key, pair) /\ UNCHANGED cert
OpenCert  == Write("openCert", "writeCert", cert, Torn) /\ UNCHANGED key
WriteCert == Write("writeCert", "load", cert, pair) /\ UNCHANGED key

\* The server loads both files; a torn or foreign half gives no handshake.
Usable == cert = key /\ cert # Torn

\* Mutant: unusable files stop the service.
LoadOrExit ==
    /\ pc = "load"
    /\ pc' = IF Usable THEN "serving" ELSE "down"
    /\ UNCHANGED <<setup, files, pair, trusted, bounds>>

\* Mutant: a process that cannot load the pair is not told from one that exited.
LoadOrFail ==
    /\ pc = "load"
    /\ pc' = IF Usable THEN "serving" ELSE "failed"
    /\ UNCHANGED <<setup, files, pair, trusted, bounds>>

Load ==
    /\ pc = "load"
    /\ pc' = IF Usable THEN "serving" ELSE "broken"
    /\ UNCHANGED <<setup, files, pair, trusted, bounds>>

\* A user accepts the certificate that is served.
Trust ==
    /\ pc = "serving"
    /\ trusted = Absent
    /\ trusted' = cert
    /\ UNCHANGED <<setup, files, pc, pair, bounds>>

\* Killed, power lost, disk full: what is on disk stays.
Crash ==
    /\ pc # "down"
    /\ crashes < MaxCrashes
    /\ crashes' = crashes + 1
    /\ pc' = "down"
    /\ UNCHANGED <<setup, files, pair, trusted, stops>>

\* An update, or systemctl restart.
Stop ==
    /\ pc \in {"serving", "broken"}
    /\ stops < MaxStops
    /\ stops' = stops + 1
    /\ pc' = "down"
    /\ UNCHANGED <<setup, files, pair, trusted, crashes>>

Generate == OpenKey \/ WriteKey \/ OpenCert \/ WriteCert

Next == Start \/ Generate \/ Load \/ Trust \/ Crash \/ Stop

Spec == Init /\ [][Next]_vars

\* systemd starts the service again (Restart=on-failure), and a started process
\* gets on with its own steps.
FairSpec == Spec /\ WF_vars(Start \/ Generate \/ Load)
-------------------------------------------------------------------------------
(* Properties. *)

Contents == {Absent, Torn} \cup Nat

\* Every variable has its type.
TypeOK ==
    /\ setup \in Setups
    /\ cert \in Contents /\ key \in Contents
    /\ pc \in {"down", "openKey", "writeKey", "openCert", "writeCert", "load",
               "serving", "broken"}
    /\ pair \in Nat
    /\ trusted \in Contents
    /\ crashes \in Nat /\ stops \in Nat

\* tls.py "restarting the service must not invalidate a certificate a user already
\* marked as trusted": whatever is served later is the certificate that was trusted,
\* through crashes at any point and restarts.
TrustedStaysServed ==
    trusted # Absent /\ pc = "serving" => cert = trusted

\* Writing the key before the certificate leaves one gap only: no crash makes the
\* service unusable but one between opening and finishing the certificate file.
\* (That one is for ever: a torn file exists, so the pair is never made again.)
OnlyTornCertBreaks == pc = "broken" => cert = Torn

\* A start comes to an end: the service is up, or up with files nobody can use.
ComesUp == pc = "down" ~> pc \in {"serving", "broken"}

\* config.py "Explizit gesetzt = eigenes Cert/Key wird verwendet" (set explicitly =
\* the own cert/key is used): a certificate or key file the operator configured
\* keeps the operator's content.
OwnFilesUsed ==
    /\ CertSet(setup) => cert = Own
    /\ KeySet(setup) => key = Own

===============================================================================
