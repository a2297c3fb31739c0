---------------------------- MODULE TlsCertProofs ----------------------------
(***************************************************************************)
(* Proofs about TlsCert for any number of crashes and restarts, as long as *)
(* config.yaml sets both paths or none.                                    *)
(***************************************************************************)
EXTENDS TlsCert, TLAPS

Both == {"default", "own"}

\* The operator's pair is there from the start and no start generates another.
OwnInv ==
    setup = "own" => /\ cert = Own /\ key = Own
                     /\ pc \in {"down", "load", "serving"}

\* Generating: the key comes before the certificate, and only where no certificate
\* is yet; a complete certificate therefore has its key beside it.
GeneratedInv ==
    setup = "default" =>
        /\ key = Absent => cert = Absent
        /\ cert \in Nat => cert = key
        /\ pc \in {"openKey", "writeKey", "openCert"} => cert = Absent
        /\ pc = "openCert" => key = pair
        /\ pc = "writeCert" => key = pair /\ cert = Torn
        /\ pc \in {"load", "serving", "broken"} => cert # Absent

\* What was trusted is a complete pair.
TrustedInv == trusted # Absent => trusted = cert /\ cert = key /\ cert \in Nat

SafeInv ==
    /\ TypeOK
    /\ setup \in Both
    /\ OwnInv
    /\ GeneratedInv
    /\ TrustedInv
    /\ pc = "serving" => cert = key /\ cert \in Nat
    /\ pc = "broken" => cert = Torn
-------------------------------------------------------------------------------
\* The invariant holds at the start.
LEMMA SafeInit == Setups \subseteq Both /\ Init => SafeInv
  BY ContentsAssumption DEF Init, SafeInv, TypeOK, Contents, Both, OwnInv, GeneratedInv,
     TrustedInv, Own, CertSet, KeySet

\* Every step keeps it.
LEMMA SafeStep == SafeInv /\ [Next]_vars => SafeInv'
  <1> SUFFICES ASSUME SafeInv, [Next]_vars PROVE SafeInv'
    OBVIOUS
  <1> USE ContentsAssumption DEF SafeInv, TypeOK, Contents, Both, OwnInv, GeneratedInv,
                                 TrustedInv, Own
  <1>1. CASE Start
    BY <1>1 DEF Start, Kept, Missing, files, bounds
  <1>2. CASE OpenKey
    BY <1>2 DEF OpenKey, Write, bounds
  <1>3. CASE WriteKey
    BY <1>3 DEF WriteKey, Write, bounds
  <1>4. CASE OpenCert
    BY <1>4 DEF OpenCert, Write, bounds
  <1>5. CASE WriteCert
    BY <1>5 DEF WriteCert, Write, bounds
  <1>6. CASE Load
    BY <1>6 DEF Load, Usable, files, bounds
  <1>7. CASE Trust
    BY <1>7 DEF Trust, files, bounds
  <1>8. CASE Crash
    BY <1>8 DEF Crash, files
  <1>9. CASE Stop
    BY <1>9 DEF Stop, files
  <1>10. CASE UNCHANGED vars
    BY <1>10 DEF vars, files, bounds
  <1>11. QED
    BY <1>1, <1>2, <1>3, <1>4, <1>5, <1>6, <1>7, <1>8, <1>9, <1>10 DEF Next, Generate

\* It holds always.
LEMMA SafeAlways == Setups \subseteq Both /\ Spec => []SafeInv
  BY SafeInit, SafeStep, PTL DEF Spec

\* A trusted certificate stays the one served, whenever the process is killed and
\* however often.
THEOREM TrustKept == Setups \subseteq Both /\ Spec => []TrustedStaysServed
  <1>1. SafeInv => TrustedStaysServed
    BY DEF SafeInv, TrustedInv, TrustedStaysServed
  <1>2. QED
    BY <1>1, SafeAlways, PTL

\* Only a crash inside the write of the certificate leaves the service unusable.
THEOREM OneGap == Setups \subseteq Both /\ Spec => []OnlyTornCertBreaks
  <1>1. SafeInv => OnlyTornCertBreaks
    BY DEF SafeInv, OnlyTornCertBreaks
  <1>2. QED
    BY <1>1, SafeAlways, PTL

\* An operator's pair is never overwritten when both paths are set.
THEOREM OwnPairKept == Setups \subseteq Both /\ Spec => []OwnFilesUsed
  <1>1. SafeInv => OwnFilesUsed
    BY DEF SafeInv, Both, OwnInv, OwnFilesUsed, CertSet, KeySet
  <1>2. QED
    BY <1>1, SafeAlways, PTL

\* Every variable has its type, whichever paths config.yaml sets.
THEOREM FilesTyped == Spec => []TypeOK
  <1>1. Init => TypeOK
    BY ContentsAssumption DEF Init, TypeOK, Contents, Own
  <1>2. TypeOK /\ [Next]_vars => TypeOK'
    <2> SUFFICES ASSUME TypeOK, [Next]_vars PROVE TypeOK'
      OBVIOUS
    <2> USE DEF TypeOK, Contents
    <2>1. CASE Start
      BY <2>1 DEF Start, files, bounds
    <2>2. CASE Generate
      BY <2>2 DEF Generate, OpenKey, WriteKey, OpenCert, WriteCert, Write, bounds
    <2>3. CASE Load \/ Trust
      BY <2>3 DEF Load, Trust, files, bounds
    <2>4. CASE Crash \/ Stop
      BY <2>4 DEF Crash, Stop, files
    <2>5. CASE UNCHANGED vars
      BY <2>5 DEF vars, files, bounds
    <2>6. QED
      BY <2>1, <2>2, <2>3, <2>4, <2>5 DEF Next
  <1>3. QED
    BY <1>1, <1>2, PTL DEF Spec
===============================================================================
