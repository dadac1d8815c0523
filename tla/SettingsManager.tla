-------------------------- MODULE SettingsManager --------------------------
(***************************************************************************)
(* settings.c, settings_manager.c and the apply button of                   *)
(* gui/settings_window.c: settings in memory and in the three files         *)
(* settings.cfg, password.cfg and port.cfg.  The latter two are shared with *)
(* the clients, which find the server by them.                              *)
(*                                                                          *)
(* A file is written by truncating it first, so a failure or a crash while  *)
(* it is written leaves a part of it.  Fields that are only stored and      *)
(* loaded (auto_startup, the interface, IPv6) are represented by            *)
(* auto_startup, the two log levels by log_level.                           *)
(***************************************************************************)
EXTENDS Naturals, Sequences

CONSTANTS Ports,          \* port numbers, valid and invalid
          MinPort, MaxPort,
          Levels,         \* log levels, valid and invalid
          ValidLevels,
          Passwords,      \* passwords, valid and invalid
          ValidPasswords,
          NoFile,         \* no such file, or no line for the field
          Unparsable,     \* a value that does not parse
          Malformed       \* a line without "="

ASSUME SettingsAssumption ==
  /\ Ports \subseteq Nat /\ MinPort \in Ports /\ MaxPort \in Ports
  /\ ValidLevels \subseteq Levels /\ ValidPasswords \subseteq Passwords
  /\ ValidLevels # {} /\ ValidPasswords # {}
  /\ \A none \in {NoFile, Unparsable, Malformed} :
       /\ none \notin Levels /\ none \notin Ports /\ none \notin Passwords /\ none \notin BOOLEAN
       /\ none \notin MinPort..MaxPort
  /\ NoFile # Unparsable /\ NoFile # Malformed /\ Unparsable # Malformed

VARIABLES settings,       \* the manager's settings
          settingsFile,   \* what settings.cfg holds for each field, or NoFile
          passwordFile, portFile,
          result,         \* what the last operation reported
          saved           \* the settings that were last stored completely, or
                          \* NoFile once an access to a file failed (history)

settingsVars == <<settings, settingsFile, passwordFile, portFile, result, saved>>

\* The fields of settings.cfg in the order they are written.
Fields == <<"auto_startup", "auto_regen_password", "log_level">>
FieldNames == {Fields[i] : i \in DOMAIN Fields}

DefaultLevel == CHOOSE l \in ValidLevels : TRUE

\* create_settings: the defaults with a generated password.
create_settings(password) ==
  [auto_startup |-> TRUE, auto_regen_password |-> TRUE, log_level |-> DefaultLevel,
   network_port |-> MinPort, password |-> password]

Settings == [auto_startup : BOOLEAN, auto_regen_password : BOOLEAN, log_level : Levels,
             network_port : Ports, password : Passwords]

validate_settings(s) ==
  /\ s.password \in ValidPasswords
  /\ s.log_level \in ValidLevels
  /\ s.network_port \in MinPort..MaxPort

\* MUTANT of copy_settings: one field is forgotten.
CopyWithoutRegen(dest, src) ==
  [src EXCEPT !.password = dest.password, !.auto_regen_password = dest.auto_regen_password]

\* copy_settings with SETTINGS_KEEP_PASSWORD; with the password it is src itself.
copy_settings(dest, src) == [src EXCEPT !.password = dest.password]

\* What a line of settings.cfg may hold for each field.
NoValueRead == {NoFile, Unparsable, Malformed}
FileContents ==
  [auto_startup : BOOLEAN \union NoValueRead, auto_regen_password : BOOLEAN \union NoValueRead,
   log_level : Levels \union NoValueRead]

\* No file is none of the things that are compared with it.
ASSUME NoFileAssumption == NoFile \notin Settings /\ NoFile \notin FileContents

SettingsTypeOK ==
  /\ settings \in Settings /\ saved \in Settings \union {NoFile}
  /\ settingsFile \in FileContents \union {NoFile}
  /\ passwordFile \in Passwords \union {NoFile} /\ portFile \in Ports \union {NoFile, Unparsable}
  /\ result \in {"-", "saving_port", "saving_settings", "NONE", "NO_PREVIOUS_SETTINGS", "NOT_SAVED",
                 "SETTINGS_REVERTED", "SETTINGS_NOT_SAVED", "PASSWORD_INVALID", "PASSWORD_NOT_LOADED",
                 "PASSWORD_NOT_SAVED", "PORT_NOT_SAVED"}

-----------------------------------------------------------------------------
(* The files. *)

serialize_server_settings(s) == [f \in FieldNames |-> s[f]]

\* A file cut off in line n: that line is missing, too, has no separator, a
\* value that does not parse or a shorter number.
CutInLine(s, n, last) ==
  [f \in FieldNames |->
     IF \E i \in 1..(n - 1) : Fields[i] = f THEN s[f]
     ELSE IF f # Fields[n] THEN NoFile
     ELSE IF last \in Levels /\ f # "log_level" THEN Unparsable ELSE last]
CutOff(s) ==
  {CutInLine(s, n, last) : n \in 1..Len(Fields), last \in {NoFile, Unparsable, Malformed} \union Levels}

\* The outcomes of writing a file: it succeeds, cannot be opened, or is cut off.
Writes(old, new, cut) ==
  {[err |-> FALSE, content |-> new], [err |-> TRUE, content |-> old]}
    \union {[err |-> TRUE, content |-> c] : c \in cut}

save_server_settings(s) == Writes(settingsFile, serialize_server_settings(s), CutOff(s))
save_password(s) == Writes(passwordFile, s.password, Passwords \ ValidPasswords)
\* An invalid port is refused; a port that is cut off may be another valid one.
save_port(s) ==
  IF s.network_port \in MinPort..MaxPort
  THEN Writes(portFile, s.network_port, Ports \union {Unparsable})
  ELSE {[err |-> TRUE, content |-> portFile]}

\* A value as deserialize_setting takes it: a bad one leaves the default.
deserialize_setting(default, value) == IF value \in {NoFile, Unparsable} THEN default ELSE value

constrain_settings(s) ==
  [s EXCEPT !.log_level = IF @ \in ValidLevels THEN @ ELSE DefaultLevel]

\* Loading goes through a fresh instance; a line without separator ends it and
\* nothing is applied.  "incomplete" still applies what could be read.
load_server_settings(dest) ==
  LET fresh == create_settings(dest.password)
      read == [f \in DOMAIN fresh |->
                 IF f \in FieldNames THEN deserialize_setting(fresh[f], settingsFile[f])
                                     ELSE fresh[f]]
      whole == settingsFile # NoFile /\ \A f \in FieldNames : settingsFile[f] # Malformed
  IN  IF ~whole THEN [err |-> TRUE, settings |-> dest]
      ELSE [err |-> \/ \E f \in FieldNames : settingsFile[f] = Unparsable
                    \/ constrain_settings(read) # read,
            settings |-> copy_settings(dest, constrain_settings(read))]

\* A read that fails although the file is there.
Unreadable(dest) == [err |-> TRUE, settings |-> dest]

-----------------------------------------------------------------------------
(* configure_settings_manager_from_storage, on start-up. *)

FirstInitialization == settingsFile = NoFile /\ passwordFile = NoFile /\ portFile = NoFile

\* settings.cfg is created, or loaded; the directory can only be missing when
\* there are no files at all.
StoredSettings(fresh) ==
  IF FirstInitialization
  THEN {[load |-> FALSE, save |-> w.err, file |-> w.content, settings |-> fresh] :
          w \in save_server_settings(fresh)}
  ELSE {[load |-> l.err, save |-> FALSE, file |-> settingsFile, settings |-> l.settings] :
          l \in {load_server_settings(fresh), Unreadable(fresh)}}

\* The generated password is saved, or the stored one loaded.
StoredPassword(s) ==
  IF s.auto_regen_password
  THEN {[load |-> FALSE, save |-> w.err, file |-> w.content, password |-> s.password] :
          w \in save_password(s)}
  ELSE {[load |-> TRUE, save |-> FALSE, file |-> passwordFile, password |-> s.password]}
    \union {[load |-> FALSE, save |-> FALSE, file |-> p, password |-> p] :
              p \in {passwordFile} \ {NoFile}}

\* A port that cannot be loaded is replaced by the one in use.
StoredPort(s) ==
  LET replaced == {[save |-> w.err, file |-> w.content, port |-> s.network_port] :
                     w \in save_port(s)}
  IN  replaced \union (IF portFile \in MinPort..MaxPort
                       THEN {[save |-> FALSE, file |-> portFile, port |-> portFile]}
                       ELSE {})

\* Errors of higher priority hide the others.
Reported(loaded, password, port) ==
  CASE loaded.load                              -> "SETTINGS_REVERTED"
    [] ~loaded.load /\ password.password \notin ValidPasswords -> "PASSWORD_INVALID"
    [] OTHER ->
         IF password.load THEN "PASSWORD_NOT_LOADED"
         ELSE IF loaded.save THEN "SETTINGS_NOT_SAVED"
         ELSE IF password.save THEN "PASSWORD_NOT_SAVED"
         ELSE IF port.save THEN "PORT_NOT_SAVED"
         ELSE IF FirstInitialization THEN "NO_PREVIOUS_SETTINGS" ELSE "NONE"

\* What start-up makes of the three files.
Configured(loaded, password, port) ==
  LET s == [loaded.settings EXCEPT !.password = password.password, !.network_port = port.port]
      kept == portFile \in {port.file, NoFile}
  IN  /\ settings' = s
      /\ settingsFile' = loaded.file
      /\ passwordFile' = password.file
      /\ portFile' = port.file
      /\ result' = Reported(loaded, password, port)
      /\ saved' = CASE result' = "NO_PREVIOUS_SETTINGS"  -> s
                   [] result' = "NONE" /\ kept           -> saved
                   [] OTHER                              -> NoFile

configure_settings_manager_from_storage ==
  /\ result = "-"
  /\ \E generated \in ValidPasswords :
     \E loaded \in StoredSettings(create_settings(generated)) :
     \E password \in StoredPassword(loaded.settings) :
     \E port \in StoredPort(loaded.settings) : Configured(loaded, password, port)

-----------------------------------------------------------------------------
\* The window only applies valid settings; the password cannot be edited there.
\* persist_settings_from_manager then tries all three files in turn.
Saving == {"saving_port", "saving_settings"}

apply_settings ==
  /\ result \notin {"-"} \union Saving
  /\ \E s \in Settings :
       /\ validate_settings(s) /\ s.password = settings.password
       /\ settings' = s
       /\ \E w \in save_password(s) :
            /\ passwordFile' = w.content
            /\ saved' = IF w.err THEN NoFile ELSE s
  /\ result' = "saving_port"
  /\ UNCHANGED <<settingsFile, portFile>>

PersistPort ==
  /\ result = "saving_port" /\ result' = "saving_settings"
  /\ \E w \in save_port(settings) :
       /\ portFile' = w.content
       /\ saved' = IF w.err THEN NoFile ELSE saved
  /\ UNCHANGED <<settings, settingsFile, passwordFile>>

PersistSettings ==
  /\ result = "saving_settings"
  /\ \E w \in save_server_settings(settings) :
       /\ settingsFile' = w.content
       /\ saved' = IF w.err THEN NoFile ELSE saved
  /\ result' = IF saved' = NoFile THEN "NOT_SAVED" ELSE "NONE"
  /\ UNCHANGED <<settings, passwordFile, portFile>>

\* X-Plane ends or crashes; what was in memory is lost.
SettingsRestart ==
  /\ result # "-" /\ result' = "-"
  /\ saved' = IF result \in Saving THEN NoFile ELSE saved
  /\ UNCHANGED <<settings, settingsFile, passwordFile, portFile>>

\* Another server, or the user, has left password.cfg and port.cfg behind: the
\* protocol shares these two files among servers.
ForeignFiles ==
  /\ result = "-" /\ FirstInitialization
  /\ passwordFile' \in Passwords \union {NoFile}
  /\ portFile' \in Ports \union {NoFile, Unparsable}
  /\ UNCHANGED <<settings, settingsFile, result, saved>>

SettingsInit ==
  /\ settings = create_settings(CHOOSE p \in ValidPasswords : TRUE)
  /\ settingsFile = NoFile /\ passwordFile = NoFile /\ portFile = NoFile
  /\ saved = NoFile /\ result = "-"

SettingsNext ==
  \/ configure_settings_manager_from_storage
  \/ apply_settings \/ PersistPort \/ PersistSettings
  \/ SettingsRestart \/ ForeignFiles

SettingsSpec == SettingsInit /\ [][SettingsNext]_settingsVars

-----------------------------------------------------------------------------
\* Whenever configuring or applying reports success the settings in use are
\* valid and the password and port files tell a client how to reach the server;
\* and what was stored completely comes back after a restart, a regenerated
\* password excepted, for as long as no access to a file fails.
SettingsRoundTrip ==
  /\ result = "NONE" =>
       /\ validate_settings(settings)
       /\ passwordFile = settings.password /\ portFile = settings.network_port
  /\ result # "-" /\ saved # NoFile =>
       [settings EXCEPT !.password = saved.password] = saved
         /\ (saved.auto_regen_password \/ settings.password = saved.password)
=============================================================================
