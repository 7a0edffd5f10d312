------------------------------ MODULE MCProto ------------------------------
(***************************************************************************)
(* TLC runs what the programs hand each other: the texts of references      *)
(* (VaultRef) and durations (AgentConfig), typed a token at a time; the     *)
(* messages (WireProtocol), with fields of every length at a limit and      *)
(* over every short sequence of octets; and the environments (Programs).    *)
(***************************************************************************)
EXTENDS VaultRef, WireProtocol, Programs

CONSTANTS
  StoredKeys,      \* the keys a secret may have in Vault, beside the one that is asked for
  Numbers, Width,  \* AgentConfig's
  MaxTokens,       \* bound on a reference
  MaxDuration,     \* bound on a duration
  MaxOctets,       \* bound on octets that are no message
  Lengths          \* how long fields are

ASSUME MCProtoAssumption ==
  /\ StoredKeys \subseteq Seq(Tokens)
  /\ None \notin [mount : Seq(Tokens), path : Seq(Tokens), key : Seq(Tokens),
                  version : DOMAIN Decimal \cup {None}]
  /\ Lengths \subseteq Nat /\ MaxDuration \in Nat /\ MaxOctets \in Nat
  /\ NoMessage \notin Seq(Nat)
  /\ DOMAIN Numbers \cap {" ", "s", "m", "h", "vault:"} = {}
  /\ Width \in Nat \ {0} /\ \A w \in DOMAIN Numbers : Numbers[w] \in 0..Width - 1

\* A number with two spellings, which is no version of its own but the newest.
MCNumeral == [w \in {"0", "00"} |-> 0]
MCDecimal == [n \in {0} |-> "0"]

\* Keys that hold '#', of which one reads like a key and a version, and none at all.
MCStoredKeys == {<<"db", "/", "db">>, <<"db", "#", "0">>, <<"db", "#", "db">>, <<"#", "0">>,
                 <<"db", "#">>, <<"db", "#", "0", "#", "0">>, <<>>}

\* A u64 of eight bits: five hours do not fit, nor do five minutes.
MCNumbers == ("0" :> 0) @@ ("4" :> 4) @@ ("5" :> 5) @@ ("255" :> 255)

Config == INSTANCE AgentConfig WITH JsonFiles <- {}, OtherFiles <- {}

\* Paths: an installation under /opt, with the hooks in directories of every layout.
MCBin   == <<"opt", "bin">>
MCLib   == <<"opt", "lib", LibName>>
MCFiles ==
  {<<"opt", "bin", "..", "lib", LibName>>, MCLib,
   <<"opt", "bin", "..", "lib", "..", "python", "sitecustomize.py">>,
   <<"opt", "lib", "envproxy", "java", "envproxy-agent.jar">>,
   <<"mine", "sitecustomize.py">>}
MCNames == {"opt", "bin", "lib", "share", "support", "..", "envproxy", "python", "java",
            "mine", "nowhere", "app", "secret", LibName} \cup Range(Marker)
App == <<"app">>
MCExports ==
  {<<"PYTHONPATH", <<App>>>>, <<"JAVA_TOOL_OPTIONS", <<App>>>>,
   <<"ENVPROXY_SOCKET", "">>, <<"ENVPROXY_SOCKET", "mine">>,
   <<"ENVPROXY_LIB", MCLib>>, <<"ENVPROXY_LIB", <<"nowhere", LibName>>>>,
   <<"ENVPROXY_PYTHON_PATH", <<"mine">>>>, <<"ENVPROXY_JAVA_PATH", <<"nowhere">>>>,
   <<"ENVPROXY_ENABLED", "0">>, <<"ENVPROXY_NO_PYTHON", "1">>, <<"ENVPROXY_NO_JAVA", "1">>}
MCReplies == {Unset, <<<<"secret">>>>}

-----------------------------------------------------------------------------
(* A reference or a duration is typed a token at a time, never one word right *)
(* after another (they would be one word); or a message is sent, and its      *)
(* octets arrive one by one; or programs are executed.                        *)

VARIABLES
  value,    \* the text
  message,  \* what is sent
  arrived   \* the octets of it that the other end has

vars == <<value, message, arrived, programs>>

\* Fields are told apart by their length and by the order of their octets.
Fields == {[i \in 1..n |-> i % 3] : n \in Lengths}

Messages ==
  [by : {"native", "java"}, key : Fields, value : Fields]
    \cup [by : {"agent"}, status : Status, value : Fields]
    \cup [by : {"anybody"}, octets : UNION {[1..n -> 0..3] : n \in 0..MaxOctets}]

Encoded(m) ==
  CASE m.by = "native"  -> NativeRequest(m.key, m.value)
    [] m.by = "java"    -> JavaRequest(m.key, m.value)
    [] m.by = "agent"   -> EncodeResponse(m.status, m.value)
    [] m.by = "anybody" -> m.octets

Stream == IF message = NoMessage THEN NoMessage ELSE Encoded(message)

Init ==
  /\ value \in {<<"vault:">>, <<>>} /\ message = NoMessage /\ arrived = <<>>
  /\ ProgramsInit

IsReference == value # <<>> /\ value[1] = "vault:"
Silent      == message = NoMessage /\ executed + exported = 0

\* A token out of `words`, or one of the others.
Type(max, words, others) ==
  /\ Len(value) < max
  /\ \E token \in others \cup (IF value # <<>> /\ Last(value) \in words
                                  THEN {} ELSE words) :
       value' = Append(value, token)
  /\ UNCHANGED <<message, arrived, programs>>

TypeReference == IsReference /\ Type(MaxTokens, Words, {"/", "#"})
TypeDuration  == ~ IsReference /\ Silent /\ Type(MaxDuration, DOMAIN Numbers, {" ", "s", "m", "h"})

Send ==
  /\ value = <<>> /\ Silent
  /\ message' \in Messages
  /\ UNCHANGED <<value, arrived, programs>>

Arrive ==
  /\ Stream # NoMessage /\ Len(arrived) < Len(Stream)
  /\ arrived' = Append(arrived, Stream[Len(arrived) + 1])
  /\ UNCHANGED <<value, message, programs>>

Execute ==
  /\ value = <<>> /\ message = NoMessage
  /\ ProgramsNext
  /\ UNCHANGED <<value, message, arrived>>

Next == TypeReference \/ TypeDuration \/ Send \/ Arrive \/ Execute
Spec == Init /\ [][Next]_vars

-----------------------------------------------------------------------------

\* Every key of a secret that is read for a reference is filed under a text that parses
\* back to the reference of that very key, so two references never share an entry.  A
\* key that is empty or holds '#' is filed where no reference finds it, with one exception:
\* read without a version, "<key>#<number>" takes the place of <key> pinned to that version.
Finds(filed) ==
  LET hash   == Find(filed.key, <<"#">>)
      number == After(filed.key, hash)
  IN  IF hash = 0 /\ filed.key # <<>> THEN filed
      ELSE IF hash > 1 /\ filed.version = None /\ IsNumber(number)
        THEN [mount |-> filed.mount, path |-> filed.path,
              key |-> Before(filed.key, hash), version |-> Numeral[number[1]]]
      ELSE None

RoundTrip ==
  LET ref == ParseVaultRef(value)
  IN  IsReference /\ ref # None =>
        \A key \in StoredKeys \cup {ref.key} :
          LET filed == [ref EXCEPT !.key = key]
          IN  /\ ParseVaultRef(CacheKey(filed)) = Finds(filed)
              /\ Finds(ref) = ref

\* The documented notation, vault:<mount>/data/<path>#<key>[#<version>] with a
\* version in plain decimal and a mount that does not start with '/', is accepted
\* and is its own cache key: a reference written that way can hit the cache.
DocumentedForm(text) ==
  \E i, j \in 2..Len(text) :
    /\ i > 2 /\ i + 3 < j /\ j < Len(text)
    /\ text[1] = "vault:" /\ text[2] # "/"
    /\ SubSeq(text, i, i + 2) = DataSegment
    /\ text[j] = "#" /\ text[j + 1] # "#"
    /\ "#" \notin {text[k] : k \in 2..(j - 1)}
    /\ \/ "#" \notin {text[k] : k \in (j + 1)..Len(text)}
       \/ /\ "#" \notin {text[k] : k \in (j + 1)..(Len(text) - 2)}
          /\ text[Len(text) - 1] = "#"
          /\ Last(text) \in Range(Decimal)

DocumentedFormIsCanonical ==
  IsReference /\ DocumentedForm(value) =>
    /\ ParseVaultRef(value) # None
    /\ CacheKey(ParseVaultRef(value)) = value

\* A duration is a number and perhaps one unit, with nothing between them and spaces
\* around them only.  It means so many seconds, as far as a u64 goes: what does not fit
\* is not refused but wraps around.  Any other text is refused.
DurationExact ==
  ~ IsReference /\ Silent =>
    LET meant == {m \in (DOMAIN Numbers) \X {<<>>, <<"s">>, <<"m">>, <<"h">>} :
                    \E before, after \in 0..MaxDuration :
                      value = [i \in 1..before |-> " "] \o <<m[1]>> \o m[2]
                                \o [i \in 1..after |-> " "]}
    IN  IF meant = {} THEN Config!ParseDuration(value) = None
        ELSE \A m \in meant :
               LET seconds == CASE m[2] = <<"m">> -> 60 * Numbers[m[1]]
                                [] m[2] = <<"h">> -> 60 * 60 * Numbers[m[1]]
                                [] OTHER          -> Numbers[m[1]]
                   parsed  == Config!ParseDuration(value)
               IN  parsed <= seconds /\ (seconds - parsed) % Width = 0
                     /\ (seconds < Width => parsed = seconds)

\* The inductive invariant behind these: what begins like a reference has only a
\* reference's tokens, and what does not is no longer than a duration.
TextInv ==
  /\ value \in Seq(Tokens \cup DOMAIN Numbers \cup {" ", "s", "m", "h"})
  /\ IF IsReference THEN value \in Seq(Tokens) ELSE Len(value) <= MaxDuration

-----------------------------------------------------------------------------

Sent(by) == message # NoMessage /\ message.by \in by

\* What is read of a message that arrives in pieces is nothing until all of it is
\* there, and what was meant then; one that does not fit is not sent at all.  The Java
\* hook's requests are excepted when the value does not fit: it sends a wrong length.
RequestFramed ==
  Sent({"native", "java"}) /\ (message.by = "java" => Len(message.value) <= MaxLen) =>
    /\ Stream = NoMessage <=> Len(message.key) > MaxLen \/ Len(message.value) > MaxLen
    /\ ReadRequest(arrived) = IF arrived = Stream THEN Request(message.key, message.value)
                              ELSE Incomplete

\* The same of responses: a piece of one, which is all a single read may get, is never
\* decoded as a shorter one.
ResponseFramed ==
  Sent({"agent"}) =>
    /\ Stream = NoMessage <=> Len(message.value) > MaxLen
    /\ DecodeResponse(arrived) = IF arrived = Stream
                                   THEN Response(message.status, message.value)
                                   ELSE Incomplete

\* The inductive invariant behind both: what the other end has is a beginning of what is
\* sent, and nothing if nothing is.
ArrivedInv ==
  /\ message \in Messages \cup {NoMessage}
  /\ IF Stream = NoMessage THEN arrived = <<>>
     ELSE /\ arrived \in Seq(Nat) /\ Len(arrived) <= Len(Stream)
          /\ \A i \in 1..Len(arrived) : arrived[i] = Stream[i]

\* Of any octets, the library's decoder and the agent's own reading make the same
\* request, as long as the version is one of the two there are.
DecodersAgree ==
  Sent({"native", "java", "anybody"}) =>
    \/ DecodeRequest(arrived) = ReadRequest(arrived)
    \/ arrived[1] \notin {PROTOCOL_V1, PROTOCOL_V2} /\ ReadRequest(arrived) = Invalid

=============================================================================
