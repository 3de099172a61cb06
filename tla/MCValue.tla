-------------------------------- MODULE MCValue --------------------------------
(***************************************************************************)
(* Documents for Value: every scalar at the limits of its type, and arrays *)
(* and hashes, two levels deep, of scalars that differ in how they are     *)
(* printed.                                                                *)
(***************************************************************************)
EXTENDS Value

Char == {"n", "quote", "backslash", "slash", "newline", "null", "white", "]"}

Strings == {<<>>} \cup {<<c>> : c \in Char} \cup {<<c, d>> : c, d \in Char}

Scalars ==
  {Null, Bool(TRUE), Bool(FALSE), [kind |-> "nan"], [kind |-> "infinite"]}
    \cup {Number(k, n) : k \in {"int"}, n \in OfType("int")}
    \cup {Number(k, n) : k \in {"unsigned"}, n \in OfType("unsigned")}
    \cup {Number(k, n) : k \in {"long"}, n \in OfType("long")}
    \cup {Number(k, n) : k \in {"unsigned long"}, n \in OfType("unsigned long")}
    \cup {Number("double", q) : q \in -(4 * Large + 5)..(4 * Large + 5)}
    \cup {String(s) : s \in Strings}

Few ==
  {Null, Bool(FALSE), [kind |-> "infinite"], Number("unsigned long", 5), Number("double", -3),
   String(<<"backslash", "n">>), String(<<"slash">>), Array(<<>>), Hash(<<>>)}

Keys == {<<>>, <<"quote">>, <<"n">>}

Containers ==
  {Array(s) : s \in BoundedSeq(Few, 2)}
    \cup UNION {{Hash(f) : f \in [K -> Few]} : K \in {L \in SUBSET Keys : L # {} /\ L # Keys}}

Nested ==
  {Array(<<v>>) : v \in Containers \cup Scalars}
    \cup {Hash(k :> v) : k \in {<<"quote">>}, v \in Containers \cup Scalars}
    \cup {Hash((<<>> :> v) @@ (<<"n">> :> Null)) : v \in Containers}

MCDocuments == Scalars \cup Containers \cup Nested
===============================================================================
