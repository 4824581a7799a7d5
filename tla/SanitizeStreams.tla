-------------------------- MODULE SanitizeStreams --------------------------
(***************************************************************************)
(* policy.py: sanitize_streams on two texts.  A text is a sequence of      *)
(* characters of which four kinds matter: Plain encodes to one byte, Wide  *)
(* to three, and a KeyStart followed by a KeyRest is a credential that one *)
(* of the patterns recognises; a KeyStart cut off from its rest is not     *)
(* recognised any more.  A redacted credential becomes a marker of         *)
(* MarkerSize one-byte characters.  The raw cap of the transport may have  *)
(* cut a text inside a credential before it comes here.                    *)
(***************************************************************************)
EXTENDS StreamBudgets, SequencesExt

CONSTANTS
  Plain, Wide, KeyStart, KeyRest, Mark,   \* kinds of characters
  MarkerSize,                      \* len("[REDACTED]")
  HardLimit,                       \* HARD_OUTPUT_BYTES
  MaxLength                        \* bound: characters of an input text

ASSUME LimitAssumption ==
  /\ HardLimit \in Nat \ {0}
  /\ MarkerSize \in Nat \ {0}
  /\ MaxLength \in Nat

ASSUME KindsAssumption ==
  /\ KeyStart \notin {Plain, Wide, KeyRest, Mark}
  /\ KeyRest \notin {Plain, Wide, KeyStart, Mark}

Width(c) == IF c = Wide THEN 3 ELSE 1

(* Half a credential can only be where the raw cap cut.                    *)
Possible(text) ==
  \A i \in DOMAIN text :
    /\ text[i] = KeyStart /\ i < Len(text) => text[i + 1] = KeyRest
    /\ text[i] = KeyRest => i > 1 /\ text[i - 1] = KeyStart

EndsInHalf(text) == text # <<>> /\ text[Len(text)] = KeyStart

Texts == {text \in SeqOf({Plain, Wide, KeyStart, KeyRest}, MaxLength) : Possible(text)}

-----------------------------------------------------------------------------
(* A text as its bytes: byte k of a character is the pair <<character, k>>. *)
Encode(text) ==
  FlattenSeq([i \in DOMAIN text |-> [k \in 1..Width(text[i]) |-> <<text[i], k>>]])

(* decode("utf-8", errors="ignore"): what is complete.                     *)
Decode_Replaces(bytes) ==
  [i \in DOMAIN bytes |-> IF bytes[i][2] = Width(bytes[i][1]) THEN bytes[i][1] ELSE "?"]
Decode(bytes) ==
  FlattenSeq([i \in DOMAIN bytes |->
    IF bytes[i][2] = Width(bytes[i][1]) THEN <<bytes[i][1]>> ELSE <<>>])

Marker == [i \in 1..MarkerSize |-> Mark]

Credential(text, i) ==
  i < Len(text) /\ text[i] = KeyStart /\ text[i + 1] = KeyRest

Redact(text) ==
  FlattenSeq([i \in DOMAIN text |->
    IF Credential(text, i) THEN Marker
    ELSE IF i > 1 /\ Credential(text, i - 1) THEN <<>> ELSE <<text[i]>>])

(* _truncate_utf8: the text and whether it was cut.                        *)
Truncate_ByCharacters(text, max) ==
  IF Len(text) <= max
    THEN [text |-> text, cut |-> FALSE]
    ELSE [text |-> SubSeq(text, 1, max), cut |-> TRUE]
Truncate(text, max) ==
  LET encoded == Encode(text)
  IN  IF Len(encoded) <= max
        THEN [text |-> text, cut |-> FALSE]
        ELSE [text |-> Decode(SubSeq(encoded, 1, max)), cut |-> TRUE]

Size(text) == Len(Encode(text))

Sanitize_CutIsSource(out, err, max, sourceTruncated) ==
  LET safeOut == Redact(out)
      safeErr == Redact(err)
  IN  [stdout    |-> Truncate(safeOut, KeptStdout(Size(safeOut), Size(safeErr), max)).text,
       stderr    |-> Truncate(safeErr, KeptStderr(Size(safeOut), Size(safeErr), max)).text,
       truncated |-> sourceTruncated,
       redacted  |-> safeOut # out \/ safeErr # err]
Sanitize_RedactsLast(out, err, max, sourceTruncated) ==
  LET cutOut == Truncate(out, KeptStdout(Size(out), Size(err), max))
      cutErr == Truncate(err, KeptStderr(Size(out), Size(err), max))
  IN  [stdout    |-> Redact(cutOut.text),
       stderr    |-> Redact(cutErr.text),
       truncated |-> sourceTruncated \/ cutOut.cut \/ cutErr.cut,
       redacted  |-> Redact(cutOut.text) # cutOut.text \/ Redact(cutErr.text) # cutErr.text]
Sanitize(out, err, max, sourceTruncated) ==
  LET safeOut == Redact(out)
      safeErr == Redact(err)
      cutOut  == Truncate(safeOut, KeptStdout(Size(safeOut), Size(safeErr), max))
      cutErr  == Truncate(safeErr, KeptStderr(Size(safeOut), Size(safeErr), max))
  IN  [stdout    |-> cutOut.text,
       stderr    |-> cutErr.text,
       truncated |-> sourceTruncated \/ cutOut.cut \/ cutErr.cut,
       redacted  |-> safeOut # out \/ safeErr # err]

-----------------------------------------------------------------------------
VARIABLES stdout, stderr, limit, sourceTruncated, result

vars == <<stdout, stderr, limit, sourceTruncated, result>>

Init ==
  /\ stdout \in Texts
  /\ stderr \in Texts
  /\ limit \in 1..HardLimit
  /\ sourceTruncated \in BOOLEAN
  /\ EndsInHalf(stdout) \/ EndsInHalf(stderr) => sourceTruncated
  /\ result = <<>>

SanitizeCall ==
  /\ result = <<>>
  /\ result' = <<Sanitize(stdout, stderr, limit, sourceTruncated)>>
  /\ UNCHANGED <<stdout, stderr, limit, sourceTruncated>>

Next == SanitizeCall

Spec == Init /\ [][Next]_vars

-----------------------------------------------------------------------------
(* Properties.  Reference definitions do not use the budgets or the bytes. *)

Done == result # <<>>

Answer == result[1]

Chars == {Plain, Wide, KeyStart, KeyRest, Mark}

TypeOK ==
  /\ stdout \in Texts
  /\ stderr \in Texts
  /\ limit \in 1..HardLimit
  /\ sourceTruncated \in BOOLEAN
  /\ Done => /\ Answer.stdout \in Seq(Chars)
             /\ Answer.stderr \in Seq(Chars)
             /\ Answer.truncated \in BOOLEAN
             /\ Answer.redacted \in BOOLEAN

Bytes(text) ==
  Len(text) + (Width(Wide) - 1) * Cardinality({i \in DOMAIN text : text[i] = Wide})

(* The encoded sizes of both streams together stay within max_bytes        *)
(* (policy.py:50), whatever markers and wide characters do to the sizes.   *)
WithinLimit == Done => Bytes(Answer.stdout) + Bytes(Answer.stderr) <= limit

(* Each stream is a prefix of its redacted text, and no longer one would   *)
(* have fitted: next to the other stream's result there is no room for one *)
(* more character, but for what a cut wide character leaves unused.        *)
LongestPrefixes ==
  Done =>
    /\ IsPrefix(Answer.stdout, Redact(stdout))
    /\ IsPrefix(Answer.stderr, Redact(stderr))
    /\ \/ Answer.stdout = Redact(stdout) /\ Answer.stderr = Redact(stderr)
       \/ Bytes(Answer.stdout) + Bytes(Answer.stderr) > limit - 2 * (Width(Wide) - 1) - 1

(* A cut never leaves a part of a credential behind, because texts are     *)
(* redacted before they are cut (policy.py:51-52, 74-75): a part that is   *)
(* left was all there was when the text came in.                           *)
NoCredentialPart ==
  Done =>
    \A s \in {"stdout", "stderr"} :
      LET text == IF s = "stdout" THEN stdout ELSE stderr
      IN  /\ KeyRest \notin ToSet(Answer[s])
          /\ KeyStart \in ToSet(Answer[s]) => EndsInHalf(text)

(* The flags are honest: truncated says whether anything is missing from   *)
(* the redacted texts or was missing already, redacted whether either text *)
(* held a whole credential, also when the cut removed its marker.          *)
FlagsHonest ==
  Done =>
    /\ Answer.truncated <=> \/ sourceTruncated
                            \/ Answer.stdout # Redact(stdout)
                            \/ Answer.stderr # Redact(stderr)
    /\ Answer.redacted <=> KeyRest \in ToSet(stdout) \cup ToSet(stderr)

(* However long stdout is, stderr keeps a quarter of the limit up to a     *)
(* cut character (policy.py:64), and stdout the rest.                      *)
NoStreamStarves ==
  Done =>
    /\ Bytes(Answer.stderr) >= Least(Bytes(Redact(stderr)), limit \div 4 - 2)
    /\ Bytes(Answer.stdout) >= Least(Bytes(Redact(stdout)), limit - limit \div 4 - 2)
=============================================================================
