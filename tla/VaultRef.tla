------------------------------ MODULE VaultRef ------------------------------
(***************************************************************************)
(* The `vault:` reference notation: parse_vault_ref (envproxy-proto) and   *)
(* the text under which the Vault backend caches a secret (vault.rs).      *)
(*                                                                         *)
(* A text is a sequence of tokens.  "vault:", "/" and "#" stand for        *)
(* themselves, every other token for a maximal run of other characters;    *)
(* the run "data" is one of them because the parser looks for "/data/".    *)
(***************************************************************************)
EXTENDS Naturals, SequencesExt

CONSTANTS
  Words,     \* the runs of ordinary characters a text is made of
  Numeral,   \* u64::from_str: the words that are numbers, with their value
  Decimal,   \* u64's Display: a number to the word that prints it
  None       \* Rust's None

Tokens == {"vault:", "/", "#"} \cup Words

ASSUME VaultRefAssumption ==
  /\ "data" \in Words
  /\ Words \cap {"vault:", "/", "#"} = {}
  /\ DOMAIN Numeral \subseteq Words
  /\ None \notin DOMAIN Decimal
  /\ \A w \in DOMAIN Numeral : Numeral[w] \in DOMAIN Decimal
  /\ \A n \in DOMAIN Decimal : /\ Decimal[n] \in DOMAIN Numeral
                               /\ Numeral[Decimal[n]] = n

-----------------------------------------------------------------------------

\* str::find: the first position of a pattern in a text, 0 if there is none.
Find(text, pattern) ==
  LET matches == {i \in 1..(Len(text) - Len(pattern) + 1) :
                    SubSeq(text, i, i + Len(pattern) - 1) = pattern}
  IN  IF matches = {} THEN 0 ELSE Min(matches)

Before(text, i) == SubSeq(text, 1, i - 1)
After(text, i)  == SubSeq(text, i + 1, Len(text))

DataSegment == <<"/", "data", "/">>

\* A mutant: "/data/" is not looked for.
MountAndPathAtSlash(full) ==
  LET slash == Find(full, <<"/">>)
  IN  [mount |-> Before(full, slash), path |-> After(full, slash)]

\* What stands before the first '#' is cut into mount and path: at the first
\* "/data/" if there is one, at the first '/' if there is not.
MountAndPath(full) ==
  LET dataPos == Find(full, DataSegment)
      slash   == Find(full, <<"/">>)
  IN  IF dataPos > 0
        THEN [mount |-> Before(full, dataPos), path |-> After(full, dataPos + 2)]
        ELSE [mount |-> Before(full, slash),   path |-> After(full, slash)]

IsNumber(text) == Len(text) = 1 /\ text[1] \in DOMAIN Numeral

\* None if the text is not a well-formed reference.
ParseVaultRef(text) ==
  LET rest    == Tail(text)
      hash    == Find(rest, <<"#">>)
      full    == Before(rest, hash)
      after   == After(rest, hash)
      verPos  == Find(after, <<"#">>)
      verText == After(after, verPos)
      ref     == [mount   |-> MountAndPath(full).mount,
                  path    |-> MountAndPath(full).path,
                  key     |-> IF verPos = 0 THEN after ELSE Before(after, verPos),
                  version |-> IF verPos = 0 THEN None ELSE Numeral[verText[1]]]
  IN  IF /\ text # <<>> /\ Head(text) = "vault:"
         /\ hash > 0 /\ after # <<>>
         /\ verPos > 0 => IsNumber(verText)
         /\ Find(full, <<"/">>) > 0
         /\ ref.mount # <<>> /\ ref.path # <<>> /\ ref.key # <<>>
        THEN ref
        ELSE None

\* A mutant: every version of a secret is stored under one text.
CacheKeyWithoutVersion(ref) ==
  <<"vault:">> \o ref.mount \o DataSegment \o ref.path \o <<"#">> \o ref.key

\* The text under which resolve_with_value stores a key of the secret it has read.
CacheKey(ref) ==
  <<"vault:">> \o ref.mount \o DataSegment \o ref.path \o <<"#">> \o ref.key
    \o (IF ref.version = None THEN <<>> ELSE <<"#", Decimal[ref.version]>>)

=============================================================================
