------------------------------- MODULE Config -------------------------------
(***************************************************************************)
(* The configuration file: what a client and a clipboard section become   *)
(* on disk and what they are read back as (src/config.rs), and the        *)
(* watcher that keeps the daemon's copy of the file current while the     *)
(* user edits it with another program.  An optional field of the file is   *)
(* a sequence of at most one value.                                        *)
(***************************************************************************)
EXTENDS Naturals, Sequences, SequencesExt, FiniteSets

CONSTANTS Client,      \* the clients a file may list
          MaxEvents    \* the bound on the undelivered file-system events

Nothing == <<>>
Some(x) == <<x>>
unwrap_or(option, default) == IF option = Nothing THEN default ELSE option[1]

\* a value is left out of the file when it is the default
OmitDefault(x, default) == IF x = default THEN Nothing ELSE Some(x)

----------------------------------------------------------------------------
(* Conversions                                                             *)

DEFAULT_PORT == 2268
DEFAULT_MAX_FILE_SIZE == 50
MIN_SECS == 5
DefaultChannels == [mouse_button |-> "datagram", keyboard |-> "stream"]

\* impl From<TomlClient> for ConfigClient
FromToml(t) ==
    [ips |-> IF t.ips = Nothing THEN {} ELSE ToSet(t.ips[1]),
     hostname |-> t.hostname,
     port |-> unwrap_or(t.port, DEFAULT_PORT),
     pos |-> unwrap_or(t.position, "left"),
     active |-> unwrap_or(t.activate_on_startup, FALSE),
     enter_hook |-> t.enter_hook,
     input_channels |-> unwrap_or(t.input_channels, DefaultChannels),
     monitor |-> t.monitor,
     enable_clipboard_to |-> unwrap_or(t.enable_clipboard_to, TRUE)]

\* impl From<ConfigClient> for TomlClient
ToToml(c) ==
    [hostname |-> c.hostname,
     ips |-> Some(SetToSortSeq(c.ips, <)),
     port |-> OmitDefault(c.port, DEFAULT_PORT),
     position |-> Some(c.pos),
     activate_on_startup |-> OmitDefault(c.active, FALSE),
     enter_hook |-> c.enter_hook,
     input_channels |-> OmitDefault(c.input_channels, DefaultChannels),
     monitor |-> c.monitor,
     enable_clipboard_to |-> OmitDefault(c.enable_clipboard_to, TRUE)]

\* Config::clipboard_config, of the optional [clipboard] section
clipboard_config(section) ==
    IF section = Nothing
    THEN [enabled |-> TRUE, accept_dir |-> "env", ignore_text |-> FALSE,
          ignore_images |-> FALSE, ignore_files |-> FALSE,
          max_file_size |-> DEFAULT_MAX_FILE_SIZE, keep_partial |-> FALSE,
          inject_to_clipboard |-> TRUE]
    ELSE LET cb == section[1] IN
         [enabled |-> unwrap_or(cb.enabled, TRUE),
          accept_dir |-> unwrap_or(cb.accept_dir, "env"),
          ignore_text |-> unwrap_or(cb.ignore_text, FALSE),
          ignore_images |-> unwrap_or(cb.ignore_images, FALSE),
          ignore_files |-> unwrap_or(cb.ignore_files, FALSE),
          max_file_size |-> unwrap_or(cb.max_file_size, DEFAULT_MAX_FILE_SIZE),
          keep_partial |-> unwrap_or(cb.keep_partial, FALSE),
          inject_to_clipboard |-> unwrap_or(cb.inject_to_clipboard, TRUE)]

\* Config::set_clipboard_config: true is left out of the section, for every
\* flag, whatever its default is
TrueOmitted(flag) == OmitDefault(flag, TRUE)

set_clipboard_config(cfg) ==
    Some([enabled |-> TrueOmitted(cfg.enabled),
          accept_dir |-> Some(cfg.accept_dir),
          ignore_text |-> TrueOmitted(cfg.ignore_text),
          ignore_images |-> TrueOmitted(cfg.ignore_images),
          ignore_files |-> TrueOmitted(cfg.ignore_files),
          max_file_size |-> OmitDefault(cfg.max_file_size, DEFAULT_MAX_FILE_SIZE),
          keep_partial |-> TrueOmitted(cfg.keep_partial),
          inject_to_clipboard |-> TrueOmitted(cfg.inject_to_clipboard)])

\* Config::set_quic_idle_timeout and quic_idle_timeout
AtLeast(secs) == IF secs < MIN_SECS THEN MIN_SECS ELSE secs
set_quic_idle_timeout(secs) == Some(AtLeast(secs))
quic_idle_timeout(saved) == AtLeast(unwrap_or(saved, MIN_SECS))

(* Saving the clients and starting again gives the same clients: every     *)
(* field that From<ConfigClient> leaves out of the file is one that        *)
(* From<TomlClient> reads back with the same default.                      *)
ClientReadsBack(c) == FromToml(ToToml(c)) = c

(* Every clipboard setting a frontend sends is the setting the next        *)
(* clipboard_config() returns.                                             *)
ClipboardConfigReadsBack(cfg) == clipboard_config(set_clipboard_config(cfg)) = cfg

----------------------------------------------------------------------------
(* The watched file.  A content is the set of the clients it lists; the    *)
(* file may also be "absent", or "torn" when it does not parse.            *)

VARIABLES
    file,       \* "absent", "torn", or the content, in a sequence
    toml,       \* Config::config_toml: Nothing or Some(content)
    clients,    \* the clients of the running service
    watching,   \* the directory is watched
    events,     \* file-system events naming the file, not yet received
    saving,     \* write_back has stopped watching and not yet resumed
    missed      \* the file was edited while nobody watched

cfgVars == <<file, toml, clients, watching, events, saving, missed>>

Contents == SUBSET Client
Torn == <<"not", "toml">>
Absent == <<"no", "such", "file">>
IsContent(f) == f \notin {Torn, Absent}

\* an empty file parses as the default configuration
CfgInit ==
    \E f \in {Torn, Absent} \cup {Some(c) : c \in Contents} :
        /\ file = IF f = Absent THEN Some({}) ELSE f
        /\ toml = IF f = Torn THEN Nothing ELSE file
        /\ clients = unwrap_or(toml, {})
        /\ watching = TRUE
        /\ events = 0
        /\ saving = FALSE
        /\ missed = FALSE

\* another program writes, truncates or removes the file
Edit(f) ==
    /\ f # file
    /\ watching => events < MaxEvents
    /\ file' = f
    /\ events' = IF watching THEN events + 1 ELSE events
    /\ missed' = (missed \/ ~watching)
    /\ UNCHANGED <<toml, clients, watching, saving>>

\* Config::read_from_disk of a file that can be read: what config_toml becomes
ReadFile(f) == IF f = Torn THEN toml ELSE f

\* Config::changed and Service::handle_config_change.  A file that cannot be
\* read ends changed with an error, which the service handles as a change.
handle_config_change(new_toml) == unwrap_or(new_toml, {})

ConfigChanged ==
    /\ events > 0 /\ ~saving
    /\ events' = events - 1
    /\ IF file = Absent
       THEN /\ clients' = handle_config_change(toml)
            /\ UNCHANGED <<toml, missed>>
       ELSE /\ toml' = ReadFile(file)
            /\ clients' = IF toml' # toml THEN handle_config_change(toml') ELSE clients
            /\ missed' = (missed /\ file = Torn)
    /\ UNCHANGED <<file, watching, saving>>

\* the saved list is kept when no client is left
set_clients(c) == IF c = {} THEN toml ELSE Some(c)
\* authorized keys are saved beside the clients, in a default section if need be
set_authorized_keys(new_toml) == Some(unwrap_or(new_toml, {}))

\* a frontend request changes the clients and saves; write_back stops watching
Save(c) ==
    /\ ~saving /\ c # clients
    /\ clients' = c
    /\ toml' = set_authorized_keys(set_clients(c))
    /\ watching' = FALSE
    /\ saving' = TRUE
    /\ UNCHANGED <<file, events, missed>>

\* the rest of write_back: an error returns before the directory is watched
WriteBack ==
    /\ saving
    /\ saving' = FALSE
    /\ \/ /\ file' = toml
          /\ missed' = FALSE
          /\ watching' = TRUE
       \/ file' \in {file, Torn, Some({})} /\ UNCHANGED <<watching, missed>>
    /\ UNCHANGED <<toml, clients, events>>

CfgNext ==
    \/ \E f \in {Torn, Absent} \cup {Some(c) : c \in Contents} : Edit(f)
    \/ ConfigChanged
    \/ \E c \in Contents : Save(c)
    \/ WriteBack

(* A file the daemon watches, with no event on its way, is the one it has  *)
(* in memory: an edit is never overlooked, and a save never leaves memory  *)
(* and disk apart.  Edits made inside the window in which write_back does  *)
(* not watch are the exception.                                            *)
MemoryFollowsFile ==
    watching /\ events = 0 /\ ~missed /\ IsContent(file) => toml = file

=============================================================================
