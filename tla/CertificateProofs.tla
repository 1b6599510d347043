------------------------- MODULE CertificateProofs --------------------------
(***************************************************************************)
(* The identity that paired devices pin, for any keys, places, validity,   *)
(* modes and faults.                                                       *)
(***************************************************************************)
EXTENDS Certificate, TLAPS

Present(file) == file \notin {None, Torn}

Generated(m) == m # None /\ mode = "self-signed"

\* The certificate, the key and the record a start holds fit together, and it
\* holds some from the moment it begins to write.
MaterialFits ==
    /\ stage \in {"cert", "key", "persist"} => material # None
    /\ stage \in {"reissue", "cert", "key"} => mode = "self-signed"
    /\ material # None =>
         /\ material.cert.key = material.key
         /\ mode = "self-signed" => material.key \in Keys
         /\ mode # "self-signed" =>
              material.key = OperatorKey /\ material.record.fingerprint = OperatorKey

\* At most one generated key is ever served: the one in the key file, where
\* there is one.
OneIdentity ==
    /\ \A j, k \in pinned : j = k
    /\ keyFile = None => pinned = {}
    /\ Present(keyFile) => pinned \subseteq {keyFile}
    /\ stage = "serving" /\ Generated(material) => material.key \in pinned

\* The files behind a start, from the re-issue to the record.
FilesFit ==
    /\ Present(certFile) /\ Present(keyFile) => certFile.key = keyFile
    /\ stage \in {"cert", "key"} => keyFile \in {None, material.key}
    /\ stage = "key" => certFile = material.cert
    /\ stage = "persist" /\ mode = "self-signed" =>
         certFile = material.cert /\ keyFile = material.key

\* A record of a generated certificate expires no later than the certificate
\* in the file, or the one on its way there.
RecordIsOlder ==
    record # None /\ record.fingerprint # OperatorKey =>
        /\ record.expiresAt <= clock + Validity
        /\ Present(certFile) => record.expiresAt <= certFile.expiresAt
        /\ stage \in {"cert", "key"} => record.expiresAt <= material.cert.expiresAt

MaterialExpires ==
    stage \in {"cert", "key", "persist"} /\ mode = "self-signed" =>
        \/ material.record = record
        \/ /\ material.record = RecordOf(material.cert)
           /\ material.cert.expiresAt <= clock + Validity

CertificateInv ==
    /\ TypeOK
    /\ MaterialFits /\ OneIdentity /\ FilesFit /\ RecordIsOlder /\ MaterialExpires

LEMMA InitHolds == Init => CertificateInv
  BY CertificateAssumption, NoneAssumption
  DEF Init, CertificateInv, TypeOK, MaterialFits, OneIdentity, FilesFit, RecordIsOlder,
      MaterialExpires, Present, Generated

\* A start that loads something touches no file.
LEMMA LoadedKeeps ==
    ASSUME CertificateInv, NEW m \in TlsMaterial \cup {None}, NEW next,
           Loaded(m, next), stage \in {"load", "reissue", "persist"},
           \/ m = None /\ next \in {"stopped", "serving", "reissue"}
              /\ (next = "serving" => mode = "off")
              /\ (next = "reissue" => mode = "self-signed")
           \/ /\ next = "persist" /\ m # None /\ mode # "self-signed"
              /\ m.key = OperatorKey /\ m.cert.key = m.key
              /\ m.record.fingerprint = OperatorKey
           \/ /\ next = "persist" /\ m # None /\ mode = "self-signed"
              /\ Present(certFile) /\ Present(keyFile)
              /\ m = [cert |-> certFile, key |-> keyFile, record |-> record]
           \/ /\ next = "cert" /\ mode = "self-signed" /\ m # None
              /\ m.key \in Keys /\ m.cert.key = m.key /\ m.record = RecordOf(m.cert)
              /\ m.cert.expiresAt = clock + Validity
              /\ keyFile \in {None, m.key}
    PROVE  CertificateInv'
  <1> USE CertificateAssumption, NoneAssumption DEF CertificateInv
  <1>1. UNCHANGED <<clock, network, certFile, keyFile, record, mode, sans, pinned>>
        /\ material' = m /\ stage' = next
    BY DEF Loaded
  <1>2. TypeOK'
    BY <1>1 DEF TypeOK
  <1>3. MaterialFits'
    BY <1>1 DEF MaterialFits, FilesFit, TypeOK, Present
  <1>4. OneIdentity'
    BY <1>1 DEF OneIdentity, Present, Generated
  <1>5. FilesFit'
    BY <1>1 DEF FilesFit, Present
  <1>6. RecordIsOlder'
    BY <1>1 DEF RecordIsOlder, TypeOK, CertificateRecords, Present
  <1>7. MaterialExpires'
    BY <1>1 DEF MaterialExpires, TypeOK
  <1> QED
    BY <1>2, <1>3, <1>4, <1>5, <1>6, <1>7

LEMMA StepHolds == CertificateInv /\ [Next]_vars => CertificateInv'
  <1> SUFFICES ASSUME CertificateInv, [Next]_vars PROVE CertificateInv'
    OBVIOUS
  <1> USE CertificateAssumption, NoneAssumption DEF CertificateInv
  <1>1. ASSUME NEW m \in Modes, Start(m) PROVE CertificateInv'
    BY <1>1 DEF Start, TypeOK, MaterialFits, OneIdentity, FilesFit, RecordIsOlder,
       MaterialExpires, Present, Generated
  <1>2. CASE ServePlain
    BY <1>2, LoadedKeeps DEF ServePlain
  <1>3. CASE ReadFiles
    <2>1. PICK expiresAt \in {clock, clock + Validity} :
            LET c == [key |-> OperatorKey, sans |-> sans, expiresAt |-> expiresAt] IN
            Loaded([cert |-> c, key |-> OperatorKey, record |-> RecordOf(c)], "persist")
      BY <1>3 DEF ReadFiles
    <2> DEFINE c == [key |-> OperatorKey, sans |-> sans, expiresAt |-> expiresAt]
               m == [cert |-> c, key |-> OperatorKey, record |-> RecordOf(c)]
    <2>2. stage = "load" /\ mode = "files"
      BY <1>3 DEF ReadFiles
    <2>3. m \in TlsMaterial
      BY DEF TypeOK, TlsMaterial, Certificates, CertificateRecords, AllKeys, RecordOf,
         spkiFingerprint
    <2>4. m # None /\ m.record.fingerprint = OperatorKey /\ m.key = OperatorKey
          /\ m.cert.key = m.key
      BY <2>3 DEF RecordOf, spkiFingerprint
    <2>5. Loaded(m, "persist")
      BY <2>1
    <2> HIDE DEF m
    <2> QED
      BY <2>2, <2>3, <2>4, <2>5, LoadedKeeps
  <1>4. CASE Reuse
    <2>1. CASE Torn \in {certFile, keyFile}
      BY <1>4, <2>1, LoadedKeeps DEF Reuse
    <2>2. CASE Torn \notin {certFile, keyFile}
      <3> DEFINE m == [cert |-> certFile, key |-> keyFile, record |-> record]
      <3>1. stage = "load" /\ mode = "self-signed" /\ Loaded(m, "persist")
            /\ Present(certFile) /\ Present(keyFile) /\ record # None
        BY <1>4, <2>2 DEF Reuse, Present, Covered
      <3>2. m \in TlsMaterial
        BY <3>1 DEF TypeOK, Present, TlsMaterial, AllKeys
      <3>3. m = [cert |-> certFile, key |-> keyFile, record |-> record] /\ m # None
        BY <3>2
      <3> HIDE DEF m
      <3> QED
        BY <3>1, <3>2, <3>3, LoadedKeeps
    <2> QED
      BY <2>1, <2>2
  <1>5. CASE Regenerate
    BY <1>5, LoadedKeeps DEF Regenerate
  <1>6. CASE generate
    <2>1. PICK key \in KeyToIssueOn(keyFile) :
            LET c == [key |-> key, sans |-> sans, expiresAt |-> clock + Validity] IN
            Loaded([cert |-> c, key |-> key, record |-> RecordOf(c)], "cert")
      BY <1>6 DEF generate
    <2> DEFINE c == [key |-> key, sans |-> sans, expiresAt |-> clock + Validity]
               m == [cert |-> c, key |-> key, record |-> RecordOf(c)]
    <2>2. stage = "reissue" /\ mode = "self-signed"
      BY <1>6 DEF generate, MaterialFits
    <2>3. key \in Keys /\ keyFile \in {None, key}
      BY <2>1 DEF KeyToIssueOn, TypeOK
    <2>4. m \in TlsMaterial
      BY <2>3 DEF TypeOK, TlsMaterial, Certificates, CertificateRecords, AllKeys, RecordOf,
         spkiFingerprint
    <2>5. /\ m # None /\ m.key = key /\ m.cert.key = m.key
          /\ m.record = RecordOf(m.cert) /\ m.cert.expiresAt = clock + Validity
      BY <2>4
    <2>6. Loaded(m, "cert")
      BY <2>1
    <2> HIDE DEF m
    <2> QED
      BY <2>2, <2>3, <2>4, <2>5, <2>6, LoadedKeeps
  <1>7. CASE KeyUnreadable
    BY <1>7, LoadedKeeps DEF KeyUnreadable
  <1>8. CASE LoadFails
    BY <1>8, LoadedKeeps DEF LoadFails
  <1>9. CASE WriteCert
    <2>1. certFile' = material.cert /\ material \in TlsMaterial /\ mode = "self-signed"
      BY <1>9 DEF WriteCert, MaterialFits, TypeOK
    <2>2. TypeOK'
      BY <1>9, <2>1 DEF WriteCert, TypeOK, TlsMaterial
    <2>3. MaterialFits' /\ OneIdentity'
      BY <1>9 DEF WriteCert, MaterialFits, OneIdentity, Present, Generated
    <2>4. FilesFit'
      BY <1>9, <2>1 DEF WriteCert, FilesFit, MaterialFits, Present
    <2>5. RecordIsOlder' /\ MaterialExpires'
      BY <1>9, <2>1 DEF WriteCert, RecordIsOlder, MaterialExpires, Present
    <2> QED
      BY <2>2, <2>3, <2>4, <2>5
  <1>10. CASE WriteKey
    <2>1. keyFile' = material.key /\ material \in TlsMaterial /\ mode = "self-signed"
          /\ material.key \in Keys
      BY <1>10 DEF WriteKey, MaterialFits, TypeOK
    <2>2. TypeOK'
      BY <1>10, <2>1 DEF WriteKey, TypeOK
    <2>3. MaterialFits'
      BY <1>10 DEF WriteKey, MaterialFits
    <2>4. OneIdentity'
      BY <1>10, <2>1 DEF WriteKey, OneIdentity, FilesFit, Present, Generated
    <2>5. FilesFit'
      BY <1>10, <2>1 DEF WriteKey, FilesFit, MaterialFits, Present
    <2>6. RecordIsOlder' /\ MaterialExpires'
      BY <1>10, <2>1 DEF WriteKey, RecordIsOlder, MaterialExpires, Present
    <2> QED
      BY <2>2, <2>3, <2>4, <2>5, <2>6
  <1>11. CASE WriteTorn
    BY <1>11 DEF WriteTorn, TypeOK, MaterialFits, OneIdentity, FilesFit, RecordIsOlder,
       MaterialExpires, Present, Generated
  <1>12. CASE Persist
    <2>1. /\ stage = "persist" /\ stage' = "serving" /\ material \in TlsMaterial
          /\ record' \in {record, material.record}
          /\ pinned' = pinned \cup ({material.key} \ {OperatorKey})
          /\ UNCHANGED <<clock, network, certFile, keyFile, mode, sans, material>>
      BY <1>12 DEF Persist, MaterialFits, TypeOK
    <2>2. TypeOK'
      BY <2>1 DEF TypeOK, TlsMaterial, AllKeys
    <2>3. MaterialFits' /\ FilesFit' /\ MaterialExpires'
      BY <2>1 DEF MaterialFits, FilesFit, MaterialExpires
    <2>4. OneIdentity'
      <3>1. CASE mode = "self-signed"
        <4>1. keyFile = material.key /\ material.key \in Keys /\ Present(keyFile)
          BY <2>1, <3>1 DEF FilesFit, MaterialFits, Present
        <4> QED
          BY <2>1, <4>1 DEF OneIdentity, Present, Generated
      <3>2. CASE mode # "self-signed"
        BY <2>1, <3>2 DEF OneIdentity, MaterialFits, Present, Generated
      <3> QED
        BY <3>1, <3>2
    <2>5. RecordIsOlder'
      <3>1. CASE mode = "self-signed"
        BY <2>1, <3>1 DEF RecordIsOlder, MaterialExpires, FilesFit, Present, RecordOf,
           TypeOK, TlsMaterial, Certificates
      <3>2. CASE mode # "self-signed"
        BY <2>1, <3>2 DEF RecordIsOlder, MaterialFits, Present
      <3> QED
        BY <3>1, <3>2
    <2> QED
      BY <2>2, <2>3, <2>4, <2>5
  <1>13. CASE PersistFails
    BY <1>13, LoadedKeeps DEF PersistFails
  <1>14. CASE Ends
    BY <1>14 DEF Ends, TypeOK, MaterialFits, OneIdentity, FilesFit, RecordIsOlder,
       MaterialExpires, Present, Generated
  <1>15. CASE Move
    BY <1>15 DEF Move, TypeOK, MaterialFits, OneIdentity, FilesFit, RecordIsOlder,
       MaterialExpires, Present, Generated
  <1>16. CASE LoseCert
    BY <1>16 DEF LoseCert, TypeOK, MaterialFits, OneIdentity, FilesFit, RecordIsOlder,
       MaterialExpires, Present, Generated
  <1>17. CASE Tick
    <2>1. clock' = clock + 1 /\ clock' \in 0..MaxClock /\ clock \in Nat
          /\ UNCHANGED <<network, certFile, keyFile, record, stage, mode, sans, material, pinned>>
      BY <1>17 DEF Tick, TypeOK
    <2>2. TypeOK' /\ MaterialFits' /\ OneIdentity' /\ FilesFit'
      BY <2>1 DEF TypeOK, MaterialFits, OneIdentity, FilesFit, Present, Generated
    <2>3. RecordIsOlder'
      BY <2>1 DEF RecordIsOlder, Present, TypeOK, CertificateRecords
    <2>4. MaterialExpires'
      BY <2>1 DEF MaterialExpires, MaterialFits, TypeOK, TlsMaterial, Certificates
    <2> QED
      BY <2>2, <2>3, <2>4
  <1>18. CASE UNCHANGED vars
    BY <1>18 DEF vars, TypeOK, MaterialFits, OneIdentity, FilesFit, RecordIsOlder,
       MaterialExpires, Present, Generated
  <1> QED
    BY <1>1, <1>2, <1>3, <1>4, <1>5, <1>6, <1>7, <1>8, <1>9, <1>10, <1>11, <1>12, <1>13,
       <1>14, <1>15, <1>16, <1>17, <1>18 DEF Next

LEMMA InvariantHolds == Spec => []CertificateInv
  BY InitHolds, StepHolds, PTL DEF Spec

-----------------------------------------------------------------------------
(* What the paired devices rely on.                                        *)

\* The certificate, its files and its record keep their types
\* (src/tls.ts:162-213).
THEOREM TypesHold == Spec => []TypeOK
  <1>1. CertificateInv => TypeOK
    BY DEF CertificateInv
  <1> QED
    BY <1>1, InvariantHolds, PTL

\* The generated key that devices pin never changes (src/tls.ts:144-148).
THEOREM PinHolds == Spec => []PinSurvives
  <1>1. ASSUME CertificateInv
        PROVE  Served => material.key \in pinned \cup {OperatorKey}
    BY <1>1 DEF CertificateInv, MaterialFits, OneIdentity, Served, Generated
  <1>2. CertificateInv => PinSurvives
    BY <1>1 DEF CertificateInv, OneIdentity, PinSurvives
  <1> QED
    BY <1>2, InvariantHolds, PTL

\* The certificate that is served belongs to the key that is served
\* (src/tls.ts:123-124, 193-198).
THEOREM PairHolds == Spec => []PairMatches
  <1>1. CertificateInv => PairMatches
    BY DEF CertificateInv, MaterialFits, PairMatches, Served
  <1> QED
    BY <1>1, InvariantHolds, PTL

\* Whatever failed, moved or was lost before, a start takes the generated
\* certificate up again only while it is valid, if the stored record is not one
\* of the operator's files (src/tls.ts:140, 189-202).  The record of a generated
\* certificate is never younger than the file, which is written first; a record
\* of the operator's files says nothing of the generated one's expiry.
THEOREM ExpiryHolds == Spec => NeverReusesExpired
  <1> DEFINE Good == stage = "load" /\ stage' = "persist" /\ mode = "self-signed"
                       /\ record.fingerprint # OperatorKey => clock < certFile.expiresAt
  <1>1. CertificateInv /\ [Next]_vars => [Good]_vars
    <2> SUFFICES ASSUME CertificateInv, Next, stage = "load", stage' = "persist",
                        mode = "self-signed", record.fingerprint # OperatorKey
                 PROVE  clock < certFile.expiresAt
      OBVIOUS
    <2> USE CertificateAssumption, NoneAssumption
    <2>1. Reuse
      BY DEF Next, Start, ServePlain, ReadFiles, Regenerate, generate, KeyUnreadable,
         LoadFails, WriteCert, WriteKey, WriteTorn, Persist, PersistFails, Ends, Move,
         LoseCert, Tick, Loaded
    <2>2. Present(certFile) /\ Present(keyFile) /\ record # None /\ clock < record.expiresAt
      BY <2>1 DEF Reuse, Covered, Present, Loaded
    <2>3. record.expiresAt <= certFile.expiresAt
      BY <2>2 DEF CertificateInv, RecordIsOlder
    <2>4. clock \in Nat /\ record.expiresAt \in Nat /\ certFile.expiresAt \in Nat
      BY <2>2 DEF CertificateInv, TypeOK, Present, CertificateRecords, Certificates
    <2> QED
      BY <2>2, <2>3, <2>4
  <1> QED
    BY <1>1, InvariantHolds, PTL DEF Spec, NeverReusesExpired
=============================================================================
