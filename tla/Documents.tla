----------------------------- MODULE Documents -----------------------------
(***************************************************************************)
(* What tomllib and json (external) make of a text, as config.py and       *)
(* execution/model.py look at it.  A value is its kind and its content; a  *)
(* table is a function.                                                    *)
(***************************************************************************)
EXTENDS Integers, Sequences

CONSTANT None  \* Python's None

Absent == <<"absent">>
Null == <<"null">>
Other == <<"other">>  \* a kind nobody asks for, such as a date
Str(s) == <<"string", s>>
Bool(b) == <<"boolean", b>>
Num(n) == <<"integer", n>>
Real(n) == <<"real", n>>
Array(s) == <<"array", s>>
Table(f) == <<"table", f>>

IsA(v, kind) == v[1] = kind
Matches(v, grammar) == IsA(v, "string") /\ v[2] \in grammar

(* raw.get(key)                                                            *)
Get(t, key) == IF key \in DOMAIN t THEN t[key] ELSE Absent

(* _ensure_keys of both files                                              *)
OnlyKeys(t, allowed) == DOMAIN t \subseteq allowed
=============================================================================
