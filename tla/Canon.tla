--------------------------------- MODULE Canon --------------------------------
(***************************************************************************)
(* Package canon: JSON values, what is redacted and which paths are        *)
(* rewritten before a value is hashed.  The hash of a value is the value:  *)
(* objects are functions, so the order of their keys is gone already.      *)
(*                                                                         *)
(* A value is [t, s, a, o]: its type and its string, array or object.  A   *)
(* string is the sequence of its parts between slashes.  Where the code    *)
(* calls itself for each part of a value, a function over all that the     *)
(* value contains stands for it.                                           *)
(***************************************************************************)
EXTENDS Integers, Sequences, FiniteSets, SequencesExt

CONSTANT SensitiveKeys          \* keys that match api_key, token, secret, ...

Null == [t |-> "null", s |-> <<>>, a |-> <<>>, o |-> <<>>]
Str(s) == [Null EXCEPT !.t = "str", !.s = s]
Word(w) == Str(<<w>>)
Arr(a) == [Null EXCEPT !.t = "arr", !.a = a]
Obj(o) == [Null EXCEPT !.t = "obj", !.o = o]
Redacted == Word("<redacted>")

(* The object of a value that is one, the empty object otherwise; a value  *)
(* by its key, null if there is none.                                      *)
AnyMap(v) == IF v.t = "obj" THEN v.o ELSE <<>>
At(o, key) == IF key \in DOMAIN o THEN o[key] ELSE Null

(* A value and all that is in it, MaxNesting levels deep.                  *)
MaxNesting == 8
Parts(v) == IF v.t = "obj" THEN {v.o[k] : k \in DOMAIN v.o} ELSE ToSet(v.a)
Nested(v) ==
    LET n[d \in 0 .. MaxNesting] ==
          IF d = 0 THEN {v} ELSE n[d - 1] \cup UNION {Parts(x) : x \in n[d - 1]}
    IN n[MaxNesting]

Redact(v) ==
    LET r[x \in Nested(v)] ==
          CASE x.t = "obj" -> Obj([k \in DOMAIN x.o |-> IF k \in SensitiveKeys THEN Redacted
                                                        ELSE r[x.o[k]]])
            [] x.t = "arr" -> Arr([i \in DOMAIN x.a |-> r[x.a[i]]])
            [] OTHER -> x
    IN r[v]

(* The home directory, and its file:// form.  A prefix is one of whole     *)
(* segments; only one can match.                                           *)
NormPrefixes(home) ==
    IF home = <<>> THEN {} ELSE {<<home, <<"~">>>>, <<<<"file:", "">> \o home, <<"file:", "", "~">>>>}

NormalizeString(s, home) ==
    LET fits == {p \in NormPrefixes(home) : IsPrefix(p[1], s)}
    IN IF fits = {} THEN s
       ELSE LET p == CHOOSE q \in fits : TRUE IN p[2] \o SubSeq(s, Len(p[1]) + 1, Len(s))

(* Values are rewritten, keys are not.                                     *)
NormalizePaths(v, home) ==
    LET n[x \in Nested(v)] ==
          CASE x.t = "obj" -> Obj([k \in DOMAIN x.o |-> n[x.o[k]]])
            [] x.t = "arr" -> Arr([i \in DOMAIN x.a |-> n[x.a[i]]])
            [] x.t = "str" -> Str(NormalizeString(x.s, home))
            [] OTHER -> x
    IN n[v]

Canonicalize(v, home) == NormalizePaths(Redact(v), home)

(* Some order of the elements, the same however they were arranged: the    *)
(* code's is that of their JSON.                                           *)
Sorted(seq) ==
    LET distinct == SetToSeq(ToSet(seq))
        times(e) == Len(SelectSeq(seq, LAMBDA x : x = e))
    IN FlattenSeq([i \in DOMAIN distinct |-> [n \in 1 .. times(distinct[i]) |-> distinct[i]]])

SortPermissionArrays(v) ==
    LET p[x \in Nested(v)] ==
          CASE x.t = "obj" -> Obj([k \in DOMAIN x.o |-> p[x.o[k]]])
            [] x.t = "arr" -> Arr(Sorted([i \in DOMAIN x.a |-> p[x.a[i]]]))
            [] OTHER -> x
    IN p[v]
===============================================================================
