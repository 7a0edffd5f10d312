------------------------------ MODULE MCWebhook ------------------------------
(***************************************************************************)
(* TLC instance of Webhook: a pod of three containers, one with a command,  *)
(* one without and one that is disabled, under each annotation that changes *)
(* what is done to it.                                                      *)
(***************************************************************************)
EXTENDS Webhook

MCNumbers == [w \in {"5"} |-> 5]

\* A container that has settings of its own, one of which the injector overrides.
Container(name, command, args, enabled) ==
  [name |-> name, command |-> command, args |-> args, mounts |-> <<>>,
   env |-> <<<<"ENVPROXY_SOCKET", "mine">>, <<"PYTHONPATH", <<<<"app">>>>>>,
             <<"ENVPROXY_NO_JAVA", "0">>, <<"ENVPROXY_NO_PYTHON", "0">>,
             <<"ENVPROXY_ENABLED", enabled>>>>]

MCPaths == RuntimeFiles \cup {MountPath \o <<l>> : l \in Program!Languages} \cup {<<"app">>}

Usual == [inject |-> TRUE, injected |-> FALSE, quantities |-> TRUE, vaultAddr |-> TRUE,
          authMethod |-> None, vaultCacheTTL |-> None, containers |-> None,
          noPython |-> FALSE, noJava |-> FALSE]

MCAnnotations ==
  {Usual, [Usual EXCEPT !.inject = FALSE], [Usual EXCEPT !.quantities = FALSE],
   [Usual EXCEPT !.vaultAddr = FALSE, !.containers = {}],
   [Usual EXCEPT !.authMethod = "token", !.noPython = TRUE],
   [Usual EXCEPT !.vaultCacheTTL = <<"5", "s">>, !.containers = {"app"}, !.noJava = TRUE]}

MCTemplates ==
  {[annotations |-> a, volumes |-> <<>>, init |-> <<>>,
    containers  |-> <<Container("app", <<"serve">>, <<"--fast">>, "1"),
                      Container("db", <<>>, <<"--big">>, "1"),
                      Container("off", <<"serve">>, <<>>, "0")>>] : a \in MCAnnotations}

==============================================================================
