------------------------------ MODULE Settings ------------------------------
(***************************************************************************)
(* The settings of a profile: one row per setting, written one statement   *)
(* after the other without a transaction, and read back with a default per *)
(* row.  A statement can fail, and the process can end between any two.    *)
(*                                                                         *)
(* The fields are one of each kind the code distinguishes, in the order in *)
(* which save_full_config_to_db writes them.                               *)
(***************************************************************************)
EXTENDS Integers, Sequences, FiniteSets

CONSTANTS
  Ip,        \* an address
  Ttl, NoTtl,
  Configs,   \* what a save may be of
  MaxSaves   \* bound: the calls of save_settings

(***************************************************************************)
(* FullConfig.  nothing is the empty text, and a row that is not there.    *)
(***************************************************************************)
Keys == <<"bootstrap_ip", "bootstrap_addrs", "tor_enabled", "default_ttl", "storage", "accept_relay">>
KeySet == {Keys[i] : i \in 1 .. Len(Keys)}

FullConfig ==
  [bootstrap_ip : {"", Ip}, bootstrap_addrs : SUBSET {Ip, "other"}, tor_enabled : BOOLEAN,
   default_ttl : {Ttl, NoTtl}, storage : {"default quota", "own quota"}, accept_relay : BOOLEAN]

FromIp(ip) == IF ip = "" THEN {} ELSE {ip}

ASSUME SettingsAssumption ==
  MaxSaves \in Nat /\ Configs \subseteq FullConfig /\ Ttl # ""   \* a number, as text

Default ==
  [bootstrap_ip |-> "", bootstrap_addrs |-> {}, tor_enabled |-> FALSE, default_ttl |-> NoTtl,
   storage |-> "default quota", accept_relay |-> FALSE]

Absent == [row |-> FALSE]

VARIABLES
  settings,      \* the older table of settings
  app_settings,  \* the newer one; the row of storage_settings is kept here
  runtime,       \* runtime_config
  open,          \* conn_opt
  writing,       \* the config being saved and the next statement of it, or Idle
  disturbed,     \* a save of this session was cut short
  since,         \* the last config saved completely, and those tried after it
  saves

settingsVars == <<settings, app_settings, runtime, open, writing, disturbed, since, saves>>
tables == <<settings, app_settings>>

Idle == [busy |-> FALSE]

(***************************************************************************)
(* A value as text, and back: a missing or empty text has its own meaning. *)
(***************************************************************************)
Text(key, v) ==
  IF key \in {"tor_enabled", "accept_relay"} THEN (IF v THEN "true" ELSE "false")
  ELSE IF key = "default_ttl" /\ v = NoTtl THEN "" ELSE v

SettingBool(row) == row # Absent /\ row.value = "true"
SettingOptI64Mutant(row) == IF row = Absent THEN NoTtl ELSE row.value
SettingOptI64(row) == IF row = Absent \/ row.value = "" THEN NoTtl ELSE row.value

(***************************************************************************)
(* save_setting writes the older table, then the newer; load_setting asks  *)
(* the newer first.                                                        *)
(***************************************************************************)
LoadSetting(key) == IF app_settings[key] # Absent THEN app_settings[key] ELSE settings[key]

BootstrapAddrsMutant(row, ip) == IF row = Absent \/ row.value = {} THEN FromIp(ip) ELSE row.value

BootstrapAddrs(row, ip) == IF row = Absent THEN FromIp(ip) ELSE row.value

LoadFullConfig ==
  LET ip == LoadSetting("bootstrap_ip")
      own == IF ip = Absent THEN "" ELSE ip.value
  IN  [bootstrap_ip |-> own,
       bootstrap_addrs |-> BootstrapAddrs(LoadSetting("bootstrap_addrs"), own),
       tor_enabled |-> SettingBool(LoadSetting("tor_enabled")),
       default_ttl |-> SettingOptI64(LoadSetting("default_ttl")),
       storage |-> app_settings["storage"].value,
       accept_relay |-> SettingBool(LoadSetting("accept_relay"))]

Written(config, key) == [row |-> TRUE, value |-> Text(key, config[key])]

SettingsInit ==
  /\ settings = [key \in KeySet |-> Absent]
  /\ app_settings = [settings EXCEPT !["storage"] = Written(Default, "storage")]
  /\ runtime = Default /\ open = FALSE /\ writing = Idle /\ disturbed = FALSE
  /\ since = {Default} /\ saves = 0

StartSession ==
  /\ writing = Idle /\ open' = TRUE /\ runtime' = LoadFullConfig /\ disturbed' = FALSE
  /\ UNCHANGED <<tables, writing, since, saves>>

(***************************************************************************)
(* save_settings (derives the addresses when they are not given) and       *)
(* save_full_config send it; without a database nothing happens.           *)
(***************************************************************************)
SaveSettings(c, given) ==
  LET config == IF given THEN c ELSE [c EXCEPT !.bootstrap_addrs = FromIp(c.bootstrap_ip)]
  IN  /\ open /\ writing = Idle /\ saves < MaxSaves /\ saves' = saves + 1
      /\ writing' = [busy |-> TRUE, config |-> config, at |-> 1, table |-> "settings"]
      /\ since' = since \cup {config}
      /\ UNCHANGED <<tables, runtime, open, disturbed>>

NextStatement(w) ==
  IF w.table = "settings" THEN [w EXCEPT !.table = "app_settings"]
  ELSE [w EXCEPT !.at = @ + 1, !.table = "settings"]

Statement ==
  /\ writing # Idle /\ writing.at <= Len(Keys)
  /\ LET key == Keys[writing.at]
         row == Written(writing.config, key)
     IN  IF writing.table = "settings" /\ key # "storage"
         THEN settings' = [settings EXCEPT ![key] = row] /\ UNCHANGED app_settings
         ELSE app_settings' = [app_settings EXCEPT ![key] = row] /\ UNCHANGED settings
  /\ writing' = IF Keys[writing.at] = "storage" THEN [writing EXCEPT !.at = @ + 1]
                ELSE NextStatement(writing)
  /\ UNCHANGED <<runtime, open, disturbed, since, saves>>

Saved ==
  /\ writing # Idle /\ writing.at > Len(Keys) /\ writing' = Idle
  /\ runtime' = writing.config /\ disturbed' = FALSE /\ since' = {writing.config}
  /\ UNCHANGED <<tables, open, saves>>

StatementFails ==   \* the error is dropped, and the runtime follows all the same
  /\ writing # Idle /\ writing.at <= Len(Keys) /\ writing' = Idle
  /\ runtime' = writing.config /\ disturbed' = TRUE
  /\ UNCHANGED <<tables, open, since, saves>>

Restart ==   \* the process ends, wherever it is
  /\ open' = FALSE /\ writing' = Idle /\ runtime' = Default /\ disturbed' = FALSE
  /\ UNCHANGED <<tables, since, saves>>

SettingsNext ==
  \/ StartSession
  \/ \E c \in Configs, given \in BOOLEAN : SaveSettings(c, given)
  \/ Statement
  \/ Saved
  \/ StatementFails
  \/ Restart

SettingsSpec == SettingsInit /\ [][SettingsNext]_settingsVars
-----------------------------------------------------------------------------
(* Whatever was cut short and wherever, each setting that is read is one    *)
(* that was saved completely or tried since; the addresses may instead be   *)
(* derived from such an address.  After a complete save they are its own.   *)
OldOrNew ==
  writing = Idle =>
    \A key \in KeySet :
      \/ \E c \in since : LoadFullConfig[key] = c[key]
      \/ key = "bootstrap_addrs" /\ \E c \in since : LoadFullConfig[key] = FromIp(c.bootstrap_ip)

(* While a session runs undisturbed, the next one starts with the settings  *)
(* this one runs with.                                                      *)
NextSessionSame == open /\ writing = Idle /\ ~disturbed => LoadFullConfig = runtime
=============================================================================
