------------------------------ MODULE Backups ------------------------------
(***************************************************************************)
(* Backups (features/backup, features/migration): a redacted, checksummed  *)
(* copy of the settings, its validation, and the plan of a restore.        *)
(*                                                                         *)
(* The checksum of an envelope stands for its contents: FNV-1a over their  *)
(* canonical form, taken to be injective.  A version is <<major, minor,    *)
(* patch>>, or None when it cannot be read.                                *)
(***************************************************************************)
EXTENDS Integers, FiniteSets

CONSTANT None

BACKUP_FORMAT_VERSION == 1
MIN_SUPPORTED_VERSION == <<1, 0, 0>>
MAX_BACKUP_KEYS == 400

PROTECTED_KEYS == {"vlUUID", "trPass", "securePath"}
Nested == {"xrayUdpNoises"}    \* lists of objects, no settings-shaped values

KeepOnly(settings, keys) == [k \in DOMAIN settings \cap keys |-> settings[k]]

Redact(settings) == KeepOnly(settings, DOMAIN settings \ (PROTECTED_KEYS \cup Nested))

Contents(envelope) == [envelope EXCEPT !.checksum = None]

CreateBackup(settings, version) ==
    LET envelope == [product |-> "rayzen", format |-> BACKUP_FORMAT_VERSION,
                     version |-> version, settings |-> Redact(settings), checksum |-> None]
    IN  [envelope EXCEPT !.checksum = envelope]

\* validateBackup: what is fatal.  A missing checksum and protected keys are only reported.
Readable(envelope) ==
    /\ envelope.product = "rayzen"
    /\ envelope.format <= BACKUP_FORMAT_VERSION
    /\ Cardinality(DOMAIN envelope.settings) \in 1..MAX_BACKUP_KEYS
    /\ envelope.checksum # None => envelope.checksum = Contents(envelope)

\* compareVersions.
Older(a, b) == \E i \in 1..3 : a[i] < b[i] /\ \A j \in 1..(i - 1) : a[j] = b[j]

\* assessBackupCompatibility.
CompatibleBackup(from, version) ==
    /\ from # None
    /\ ~Older(from, MIN_SUPPORTED_VERSION)
    /\ ~Older(version, from)

\* mutant: the plan diffs against nothing and rewrites protected keys too.
PlanRestore_Protected(envelope, current) ==
    KeepOnly(envelope.settings,
             {k \in DOMAIN envelope.settings \cap DOMAIN current :
                envelope.settings[k] # current[k]})

\* planRestore: the patch of the settings that would change.
PlanRestore(envelope, current) ==
    KeepOnly(envelope.settings,
             {k \in (DOMAIN envelope.settings \cap DOMAIN current) \ PROTECTED_KEYS :
                envelope.settings[k] # current[k]})
=============================================================================
