--------------------------- MODULE WorkspacePaths ---------------------------
(***************************************************************************)
(* workspace.py and observers/workspace.py: which relative paths a client  *)
(* may name in a workspace, the absolute path a command gets for one, and  *)
(* the relative path a client gets for a line that a command printed.      *)
(*                                                                         *)
(* A path is the sequence of its segments, value.split("/"): "/srv//a" is  *)
(* <<"", "srv", "", "a">>.                                                 *)
(***************************************************************************)
EXTENDS Integers, Sequences, SequencesExt

CONSTANTS
  Segments,         \* what may be between two slashes
  OddSegments,      \* segments with a backslash or a control character
  Undotted(_),      \* segment.lstrip(".")
  Beginnings(_),    \* what a segment may be cut to: its beginnings
  Fnmatch(_, _),    \* fnmatch.fnmatchcase(path, pattern)
  DefaultPatterns,  \* _DEFAULT_SECRET_PATTERNS
  NoEnd             \* end_line=None

ASSUME SegmentAssumption ==
  /\ {"", ".", ".."} \subseteq Segments
  /\ "." \notin OddSegments

-----------------------------------------------------------------------------
(* workspace.py.                                                           *)

(* PurePosixPath and str of it: empty segments and "." are dropped.        *)
Named(p) == FlattenSeq([i \in DOMAIN p |-> IF p[i] \in {"", "."} THEN <<>> ELSE <<p[i]>>])

(* normalize_relative_path: what it raises for, and what it returns.       *)
WellFormed(p) ==
  /\ p[1] # ""  \* neither empty nor absolute
  /\ \A i \in DOMAIN p : p[i] # ".." /\ p[i] \notin OddSegments

Normalized_AsGiven(p) == p
Normalized(p) == IF Named(p) = <<>> THEN <<".">> ELSE Named(p)

(* p.lstrip("./")                                                          *)
Stripped(p) ==
  LET rest == {i \in DOMAIN p : Undotted(p[i]) # ""}
      first == CHOOSE i \in rest : \A j \in rest : i <= j
  IN  IF rest = {} THEN <<"">>
      ELSE <<Undotted(p[first])>> \o SubSeq(p, first + 1, Len(p))

(* _matches_sensitive_path                                                 *)
Sensitive(p, patterns) ==
  \E candidate \in {p, Stripped(p)}, pattern \in DefaultPatterns \cup patterns :
    Fnmatch(candidate, pattern)

(* is_visible_relative_path: ensure_visible_relative_path raises nothing.  *)
Visible(p, patterns) == WellFormed(p) /\ ~Sensitive(Normalized(p), patterns)

-----------------------------------------------------------------------------
(* observers/workspace.py.                                                 *)

(* p.rstrip("/")                                                           *)
WithoutSlashes_AsGiven(p) == p
WithoutSlashes(p) ==
  IF \A i \in DOMAIN p : p[i] = "" THEN <<"">>
  ELSE SubSeq(p, 1, CHOOSE n \in DOMAIN p : p[n] # "" /\ \A i \in n + 1 .. Len(p) : p[i] = "")

(* _absolute                                                               *)
Absolute(root, p) == IF p = <<".">> THEN root ELSE WithoutSlashes(root) \o p

(* _relative                                                               *)
Relative_ByRoot(root, value) ==
  IF IsPrefix(root, value) /\ value # root THEN SubSeq(value, Len(root) + 1, Len(value)) ELSE <<".">>
Relative(root, value) ==
  LET stem == WithoutSlashes(root)
  IN  IF value = root THEN <<".">>
      ELSE IF IsPrefix(stem, value) /\ Len(value) > Len(stem)
        THEN SubSeq(value, Len(stem) + 1, Len(value))
      ELSE Stripped(value)

(* find and fd (external) print root/entry.  Neither writes a slash where  *)
(* the root already ends in one; fd writes one after a directory, and      *)
(* leaves the root out.                                                    *)
Under(root, entry) == IF Last(root) = "" THEN Front(root) \o entry ELSE root \o entry

Printed(backend, root, entries, directories) ==
  IF backend = "find" THEN {root} \cup {Under(root, e) : e \in entries}
  ELSE {Under(root, IF e \in directories THEN Append(e, "") ELSE e) : e \in entries}

(* What is left of a line where the output of its command was cut off.     *)
CutOff(line) ==
  {SubSeq(line, 1, n) : n \in 2 .. Len(line) - 1}
    \cup UNION {{Append(SubSeq(line, 1, n), s) : s \in {""} \cup Beginnings(line[n + 1])} :
                 n \in 1 .. Len(line) - 1}

(* The row of workspace_find for a line, if there is one: names with a     *)
(* blank at an end, which strip() changes, are left out.                   *)
Shows(root, patterns, line) == Visible(Relative(root, line), patterns)

(* The file a path leads to, symbolic links aside.                         *)
FileOf(p) == Named(p)

-----------------------------------------------------------------------------
(* workspace_read: the lines it asks sed for.                              *)
MaxWindow == 1000

First(start) == IF start > 1 THEN start ELSE 1
WindowEnd_Unbounded(start, end) == IF end = NoEnd THEN First(start) + MaxWindow - 1 ELSE end
WindowEnd(start, end) ==
  LET from == First(start)
      last == from + MaxWindow - 1
  IN  IF end = NoEnd THEN last
      ELSE IF end < from THEN from
      ELSE IF end > last THEN last
      ELSE end
=============================================================================
