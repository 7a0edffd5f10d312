--------------------------- MODULE MCVaultBackend ---------------------------
(***************************************************************************)
(* TLC instance of VaultBackend: one secret with two keys and perhaps a    *)
(* third one, which reads like the second and a version.  The references   *)
(* are parsed and formatted by VaultRef; the clients send the documented   *)
(* notation with and without a version and a malformed text.               *)
(***************************************************************************)
EXTENDS VaultBackend, TLC

R == INSTANCE VaultRef WITH
  Words   <- {"data", "kv", "db", "user", "pass", "0", "1"},
  Numeral <- [w \in {"0", "1"} |-> IF w = "0" THEN 0 ELSE 1],
  Decimal <- [n \in {0, 1} |-> IF n = 0 THEN "0" ELSE "1"]

MCPaths == {<<<<"kv">>, <<"db">>>>}
MCKeys  == {<<"user">>, <<"pass">>, <<"pass", "#", "1">>}
MCContents == {MCKeys, {<<"pass">>}}

Full(ref) == [mount |-> ref.path[1], path |-> ref.path[2],
              key |-> ref.key, version |-> ref.version]

MCCanonicalText == [ref \in Refs |-> R!CacheKey(Full(ref))]

User       == <<"vault:", "kv", "/", "data", "/", "db", "#", "user">>
Pass       == <<"vault:", "kv", "/", "data", "/", "db", "#", "pass">>
PassPinned == Pass \o <<"#", "1">>
Malformed  == <<"vault:", "kv", "#", "user">>

MCAsked == {User, PassPinned, Malformed}
MCTexts == MCAsked \cup {MCCanonicalText[ref] : ref \in Refs}

MCParse ==
  [text \in MCTexts |->
     LET ref == R!ParseVaultRef(text)
     IN  IF ref = None THEN None
         ELSE [path |-> <<ref.mount, ref.path>>, key |-> ref.key,
               version |-> ref.version]]

Symmetry == Permutations(Tasks)

=============================================================================
