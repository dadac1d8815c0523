--------------------------- MODULE LicenseManager ---------------------------
(***************************************************************************)
(* license_manager.c: which licences of this build the user has accepted,   *)
(* and the file that remembers it (accepted_licenses.cfg).                  *)
(*                                                                          *)
(* A licence is identified by its ID; its hash, here the version of its     *)
(* text, comes with the build.  The file maps IDs to the hash that was      *)
(* accepted.  X-Plane's thread makes every call, so an operation is one     *)
(* step; the steps are operators over the manager's state, and module       *)
(* Plugin decides when they are taken.                                      *)
(***************************************************************************)
EXTENDS Naturals

CONSTANTS Licenses,    \* the licence IDs of the build
          Versions     \* the hashes a licence text may have

ASSUME LicensesAssumption == Versions \subseteq Nat \ {0}

None == 0

VARIABLES hashes,      \* the hash of each licence in the installed build
          file,        \* accepted_licenses.cfg: the accepted hash, or None
          pending,     \* _pending_licenses
          consent,     \* the hashes agreed to since the last rejection (history)
          removeFailed \* deleting the file on a rejection failed (history)

licenseVars == <<hashes, file, pending, consent, removeFailed>>

NoFile == [l \in Licenses |-> None]
NoConsent == [l \in Licenses |-> {}]

LicenseTypeOK ==
  /\ hashes \in [Licenses -> Versions]
  /\ file \in [Licenses -> Versions \union {None}]
  /\ pending \subseteq Licenses
  /\ consent \in [Licenses -> SUBSET Versions]
  /\ removeFailed \in BOOLEAN

LicenseInit ==
  /\ hashes \in [Licenses -> Versions]
  /\ file = NoFile
  /\ pending = {}
  /\ consent = NoConsent
  /\ removeFailed = FALSE

-----------------------------------------------------------------------------
\* What loading finds: the file's lines, or nothing when it cannot be read.
\* Lines of licences the build no longer has, and bad lines, are skipped.
load_accepted_licenses(f) == {f, NoFile}

\* MUTANT of compare_licenses: any accepted version of a licence will do.
CompareById(accepted) == {l \in Licenses : accepted[l] = None}

\* A licence is pending when it is new or its text has changed.
compare_licenses(accepted) == {l \in Licenses : accepted[l] # hashes[l]}

\* create_license_manager: compares once; _pending_licenses is kept after that.
create_license_manager ==
  /\ \E accepted \in load_accepted_licenses(file) : pending' = compare_licenses(accepted)
  /\ UNCHANGED <<hashes, file, consent, removeFailed>>

all_licenses_accepted(p) == p = {}

\* The file after an attempt to write one line per licence: complete,
\* untouched (the directory or the file cannot be opened), or cut off.
persist_all_licenses ==
  {[l \in Licenses |-> IF l \in written THEN hashes[l] ELSE None] : written \in SUBSET Licenses}
    \union {file}

\* Nothing is pending afterwards, whether or not the file was written.
accept_all_licenses ==
  /\ file' \in persist_all_licenses
  /\ pending' = {}
  /\ consent' = [l \in Licenses |-> consent[l] \union {hashes[l]}]
  /\ UNCHANGED <<hashes, removeFailed>>

get_all_licenses_as_pending == Licenses

\* The file is deleted if it exists; a failure is only logged.
reject_licenses ==
  /\ \/ file' = NoFile /\ removeFailed' = FALSE
     \/ file # NoFile /\ UNCHANGED file /\ removeFailed' = TRUE
  /\ pending' = get_all_licenses_as_pending
  /\ consent' = NoConsent
  /\ UNCHANGED hashes

destroy_license_manager ==
  /\ pending' = {}
  /\ UNCHANGED <<hashes, file, consent, removeFailed>>

\* The simulator is started anew, perhaps with another build of the plugin.
NewBuild ==
  /\ hashes' \in [Licenses -> Versions]
  /\ pending' = {}
  /\ UNCHANGED <<file, consent, removeFailed>>

=============================================================================
