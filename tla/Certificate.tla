---------------------------- MODULE Certificate -----------------------------
(***************************************************************************)
(* The certificate of the primary listener (src/tls.ts) and the record of  *)
(* it in the durable state (src/index.ts).                                 *)
(*                                                                         *)
(* Paired devices pin the key.  A start reads the record, then the two     *)
(* files, and re-issues on the stored key when the record has expired or   *)
(* names other addresses; it writes the certificate, then the key, and     *)
(* last the record.  The files are written in place, the process may die   *)
(* between any two steps, the network and the configuration may change     *)
(* between two starts, and a certificate file may be lost.                 *)
(***************************************************************************)
EXTENDS Naturals

CONSTANTS
    Keys,         \* the keys that may be generated
    OperatorKey,  \* the one behind tlsCertPath and tlsKeyPath
    Networks,     \* the sets of names and addresses to cover
    Modes,        \* subset of {"self-signed", "files", "off"}
    Faults,       \* subset of {"crash", "io", "lost"}
    Validity,     \* VALIDITY_DAYS
    MaxClock,     \* bound
    Torn,         \* a file whose writing was cut off
    None          \* no file, no record, no certificate

ASSUME CertificateAssumption ==
    /\ OperatorKey \notin Keys /\ None \notin Keys /\ Torn \notin Keys /\ Torn # None
    /\ Modes \subseteq {"self-signed", "files", "off"}
    /\ Validity \in Nat \ {0} /\ MaxClock \in Nat

VARIABLES
    clock,
    network,   \* where the machine is now
    certFile,  \* relay-cert.pem
    keyFile,   \* relay-key.pem
    record,    \* state.certificate
    stage,     \* how far the start has come
    mode,      \* its configuration
    sans,      \* the names it computed
    material,  \* the certificate, the key and the record it loaded or made
    pinned     \* the generated keys that were ever served

vars == <<clock, network, certFile, keyFile, record, stage, mode, sans, material, pinned>>

AllKeys == Keys \cup {OperatorKey}

Certificates == [key : AllKeys, sans : Networks, expiresAt : Nat]

CertificateRecords == [fingerprint : AllKeys, sans : Networks, expiresAt : Nat]

TlsMaterial == [cert : Certificates, key : AllKeys, record : CertificateRecords]

ASSUME NoneAssumption == None \notin TlsMaterial

TypeOK ==
    /\ clock \in 0..MaxClock
    /\ network \in Networks /\ sans \in Networks
    /\ certFile \in Certificates \cup {None, Torn}
    /\ keyFile \in Keys \cup {None, Torn}
    /\ record \in CertificateRecords \cup {None}
    /\ stage \in {"stopped", "load", "reissue", "cert", "key", "persist", "serving"}
    /\ mode \in {"self-signed", "files", "off"}
    /\ material \in TlsMaterial \cup {None}
    /\ pinned \subseteq Keys

Init ==
    /\ clock = 0
    /\ network \in Networks /\ sans = network
    /\ certFile = None /\ keyFile = None /\ record = None
    /\ stage = "stopped"
    /\ mode \in Modes
    /\ material = None
    /\ pinned = {}

spkiFingerprint(certificate) == certificate.key

RecordOf(certificate) ==
    [fingerprint |-> spkiFingerprint(certificate), sans |-> certificate.sans,
     expiresAt |-> certificate.expiresAt]

-----------------------------------------------------------------------------
(* Loading.                                                                *)

Start(m) ==
    /\ stage = "stopped"
    /\ stage' = "load"
    /\ mode' = m
    /\ sans' = network
    /\ material' = None
    /\ UNCHANGED <<clock, network, certFile, keyFile, record, pinned>>

Loaded(m, next) ==
    /\ material' = m
    /\ stage' = next
    /\ UNCHANGED <<clock, network, certFile, keyFile, record, mode, sans, pinned>>

\* The process listens with what it has, and keeps no record of plaintext.
ServePlain == stage = "load" /\ mode = "off" /\ Loaded(None, "serving")

\* The operator's certificate; its record claims the names of this machine.
ReadFiles ==
    /\ stage = "load" /\ mode = "files"
    /\ \E expiresAt \in {clock, clock + Validity} :
         LET c == [key |-> OperatorKey, sans |-> sans, expiresAt |-> expiresAt] IN
         Loaded([cert |-> c, key |-> OperatorKey, record |-> RecordOf(c)], "persist")

Covered ==
    /\ record # None
    /\ record.sans = sans
    /\ clock < record.expiresAt

\* Faulty variant: whatever the files hold is served.
ReuseTorn ==
    /\ stage = "load" /\ mode = "self-signed"
    /\ Covered /\ certFile # None /\ keyFile # None
    /\ Loaded([cert |-> certFile, key |-> keyFile, record |-> record], "persist")

\* Both files are there: they are served under the record as it is.  With torn
\* ones no connection can be set up.
Reuse ==
    /\ stage = "load" /\ mode = "self-signed"
    /\ Covered /\ certFile # None /\ keyFile # None
    /\ IF Torn \in {certFile, keyFile}
       THEN Loaded(None, "stopped")
       ELSE Loaded([cert |-> certFile, key |-> keyFile, record |-> record], "persist")

Regenerate ==
    /\ stage = "load" /\ mode = "self-signed"
    /\ ~(Covered /\ certFile # None /\ keyFile # None)
    /\ Loaded(None, "reissue")

\* Faulty variant: every re-issue mints a key.
IssueOn(stored) == Keys \ pinned

\* A missing key is a first boot; a torn one cannot be parsed.
KeyToIssueOn(stored) ==
    IF stored = None THEN Keys \ pinned ELSE IF stored = Torn THEN {} ELSE {stored}

\* A fresh key differs from every key that was served before.
generate ==
    /\ stage = "reissue"
    /\ \E key \in KeyToIssueOn(keyFile) :
         LET c == [key |-> key, sans |-> sans, expiresAt |-> clock + Validity] IN
         Loaded([cert |-> c, key |-> key, record |-> RecordOf(c)], "cert")

\* Any error but ENOENT ends the start.
LoadFails ==
    "io" \in Faults /\ stage \in {"load", "reissue"} /\ mode # "off" /\ Loaded(None, "stopped")

KeyUnreadable == stage = "reissue" /\ keyFile = Torn /\ Loaded(None, "stopped")

-----------------------------------------------------------------------------
(* Writing: each file in place, so that a fault in the middle tears it.    *)

WriteCert ==
    /\ stage = "cert"
    /\ certFile' = material.cert
    /\ stage' = "key"
    /\ UNCHANGED <<clock, network, keyFile, record, mode, sans, material, pinned>>

WriteKey ==
    /\ stage = "key"
    /\ keyFile' = material.key
    /\ stage' = "persist"
    /\ UNCHANGED <<clock, network, certFile, record, mode, sans, material, pinned>>

\* A full disk, or the death of the process, in the middle of a write.
WriteTorn ==
    /\ Faults \cap {"io", "crash"} # {}
    /\ \/ stage = "cert" /\ certFile' = Torn /\ UNCHANGED keyFile
       \/ stage = "key" /\ keyFile' = Torn /\ UNCHANGED certFile
    /\ stage' = "stopped"
    /\ UNCHANGED <<clock, network, record, mode, sans, material, pinned>>

\* material is None for plaintext, which never comes here.
RecordChanged ==
    record # None =>
        <<material.record.fingerprint, material.record.sans>> # <<record.fingerprint, record.sans>>

\* store.update(), and the listener binds.
Persist ==
    /\ stage = "persist"
    /\ record' = IF RecordChanged THEN material.record ELSE record
    /\ stage' = "serving"
    /\ pinned' = pinned \cup ({material.key} \ {OperatorKey})
    /\ UNCHANGED <<clock, network, certFile, keyFile, mode, sans, material>>

PersistFails ==
    "io" \in Faults /\ stage = "persist" /\ RecordChanged /\ Loaded(None, "stopped")

-----------------------------------------------------------------------------
(* Around it.                                                              *)

\* stop(), or the death of the process between two steps.
Ends ==
    /\ stage = "serving" \/ (stage # "stopped" /\ "crash" \in Faults)
    /\ stage' = "stopped"
    /\ UNCHANGED <<clock, network, certFile, keyFile, record, mode, sans, material, pinned>>

Move ==
    /\ stage = "stopped"
    /\ network' \in Networks \ {network}
    /\ UNCHANGED <<clock, certFile, keyFile, record, stage, mode, sans, material, pinned>>

LoseCert ==
    /\ "lost" \in Faults /\ stage = "stopped" /\ certFile # None
    /\ certFile' = None
    /\ UNCHANGED <<clock, network, keyFile, record, stage, mode, sans, material, pinned>>

Tick ==
    /\ clock < MaxClock
    /\ clock' = clock + 1
    /\ UNCHANGED <<network, certFile, keyFile, record, stage, mode, sans, material, pinned>>

Next ==
    \/ \E m \in Modes : Start(m)
    \/ ServePlain \/ ReadFiles \/ Reuse \/ Regenerate \/ generate \/ KeyUnreadable
    \/ LoadFails \/ WriteCert \/ WriteKey \/ WriteTorn \/ Persist \/ PersistFails
    \/ Ends \/ Move \/ LoseCert \/ Tick

Spec == Init /\ [][Next]_vars

-----------------------------------------------------------------------------
(* What the paired devices rely on.                                        *)

Served == stage = "serving" /\ material # None

\* Whatever happens to the addresses, the clock, the certificate file and the
\* process, the generated key that devices pin is the same for ever: only a
\* first boot creates an identity (src/tls.ts:144-148).
PinSurvives ==
    \A j, k \in pinned \cup (IF Served THEN {material.key} \ {OperatorKey} ELSE {}) : j = k

\* The certificate that is served belongs to the key that is served, though
\* the two files are written apart.
PairMatches == Served => material.cert.key = material.key

\* "A generated certificate is regenerated when it has expired"
\* (src/tls.ts:140), however the last re-issue ended.  That holds with one
\* exception: a record of the operator's files, left by a start with `files`,
\* vouches for the generated ones too until the operator's certificate expires.
NeverReusesExpired ==
    [][stage = "load" /\ stage' = "persist" /\ mode = "self-signed"
         /\ record.fingerprint # OperatorKey => clock < certFile.expiresAt]_vars

\* "persist the record when either changed -- or the next start re-issues for
\* nothing against a record that no longer describes the file"
\* (src/index.ts:261-263): after a start with a generated certificate the
\* record describes the certificate.
RecordDescribesFile ==
    Served /\ mode = "self-signed" => record = RecordOf(material.cert)
=============================================================================
