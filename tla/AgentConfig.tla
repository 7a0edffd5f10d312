---------------------------- MODULE AgentConfig ----------------------------
(***************************************************************************)
(* The agent's configuration (envproxy-agent/src/config.rs) and what is    *)
(* made of it at start (main.rs, backend/): the defaults, the backend, and *)
(* how the Vault backend gets a token.                                     *)
(*                                                                         *)
(* A table of the TOML file is a function from the keys it has to their    *)
(* values.  A duration is a sequence of tokens: " ", "s", "m", "h", and    *)
(* maximal runs of other characters.                                       *)
(***************************************************************************)
EXTENDS Naturals, SequencesExt

CONSTANTS
  None,           \* Rust's None, or a file that cannot be read or is not TOML
  Numbers,        \* u64::from_str: the words that are numbers, with their value
  Width,          \* how many values a u64 has: 2^64
  DefaultSocket,  \* DEFAULT_SOCKET_PATH
  JsonFiles,      \* the files that read as a JSON object of strings
  OtherFiles      \* the other files that can be read

-----------------------------------------------------------------------------
(* parse_duration.                                                            *)

Trim(text) ==
  LET words == {i \in DOMAIN text : text[i] # " "}
  IN  IF words = {} THEN <<>> ELSE SubSeq(text, Min(words), Max(words))

Seconds == [s |-> 1, m |-> 60, h |-> 3600]

\* A mutant: every character of the unit is stripped, not the last one.
ParseDurationAnyUnits(text) ==
  LET s    == Trim(text)
      unit == IF s # <<>> /\ Last(s) \in DOMAIN Seconds THEN Last(s) ELSE "s"
      num  == SelectSeq(s, LAMBDA w : w \notin DOMAIN Seconds)
  IN  IF Len(num) # 1 \/ num[1] \notin DOMAIN Numbers THEN None
      ELSE (Numbers[num[1]] * Seconds[unit]) % Width

\* In a release build, `num * 60` and `num * 3600` wrap around.
ParseDuration(text) ==
  LET s       == Trim(text)
      hasUnit == s # <<>> /\ Last(s) \in DOMAIN Seconds
      num     == IF hasUnit THEN Front(s) ELSE s
  IN  IF Len(num) # 1 \/ num[1] \notin DOMAIN Numbers THEN None
      ELSE (Numbers[num[1]] * Seconds[IF hasUnit THEN Last(s) ELSE "s"]) % Width

-----------------------------------------------------------------------------
(* Config::from_file.                                                         *)

AgentDefaults == [socket |-> DefaultSocket, log_level |-> "info"]

\* The fields that a backend must have, and the values of those it need not have.
Required ==
  [file |-> {"path"}, http |-> {"url"},
   kubernetes |-> {"namespace", "secret_name"}, vault |-> {"address"}]

Defaults(type) ==
  CASE type = "vault" -> [auth_method |-> "kubernetes", auth_mount |-> "kubernetes",
                          role |-> "", token |-> None, token_file |-> None,
                          cache_ttl |-> <<"5", "m">>]
    [] type = "http"  -> [auth_token |-> None, timeout_ms |-> 5000]
    [] OTHER          -> <<>>

WithDefaults(table, defaults) ==
  [key \in DOMAIN table \cup DOMAIN defaults |->
     IF key \in DOMAIN table THEN table[key] ELSE defaults[key]]

\* None if it does not parse: there is no backend, none of this type, or fields are missing.
FromFile(toml) ==
  LET agent   == IF "agent" \in DOMAIN toml THEN toml.agent ELSE <<>>
      backend == toml.backend
  IN  IF /\ toml # None
         /\ "backend" \in DOMAIN toml /\ "type" \in DOMAIN backend
         /\ backend.type \in DOMAIN Required
         /\ Required[backend.type] \subseteq DOMAIN backend
        THEN [agent   |-> WithDefaults(agent, AgentDefaults),
              backend |-> WithDefaults(backend, Defaults(backend.type))]
        ELSE None

-----------------------------------------------------------------------------
(* The outcomes that creating a backend may have.                             *)

Serving == "serving"
Failed  == "failed"

\* FileBackend::new: a file that does not exist is empty, one that does not parse is an
\* error.
NewFile(backend) == {IF backend.path \in OtherFiles THEN Failed ELSE Serving}

\* VaultBackend::new: the token of "token" auth is the configured one, the file's or the
\* environment's, in this order; "kubernetes" logs in; there is no other method.
NewVault(backend, env) ==
  LET HasToken ==
        \/ backend.token # None
        \/ IF backend.token_file # None THEN backend.token_file \in JsonFiles \cup OtherFiles
           ELSE "VAULT_TOKEN" \in DOMAIN env
  IN  IF ParseDuration(backend.cache_ttl) = None THEN {Failed}
      ELSE IF backend.auth_method = "token" THEN {IF HasToken THEN Serving ELSE Failed}
      ELSE IF backend.auth_method = "kubernetes" THEN {Serving, Failed}
      ELSE {Failed}

\* HttpBackend::new: a placeholder, which has nothing that could fail.
NewHttp == {Serving}

\* KubernetesBackend::new: there may be nothing to make a client of; whatever goes wrong
\* with the Secret itself is no error.
NewKubernetes == {Serving, Failed}

\* main: the backend is created from the configuration.
CreateBackend(config, env) ==
  LET backend == config.backend
  IN  CASE backend.type = "file"       -> NewFile(backend)
        [] backend.type = "http"       -> NewHttp
        [] backend.type = "kubernetes" -> NewKubernetes
        [] backend.type = "vault"      -> NewVault(backend, env)

\* main, up to the socket, which is free: the file is read and the backend created.
StartOutcomes(toml, env) ==
  IF FromFile(toml) = None THEN {Failed} ELSE CreateBackend(FromFile(toml), env)

=============================================================================
