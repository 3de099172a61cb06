--------------------------------- MODULE Value ---------------------------------
(***************************************************************************)
(* Dynamic values and their JSON text (Utility/Value.h, Value.cpp): the    *)
(* printer and the parser that the configuration file goes through at each *)
(* start and at each save.                                                 *)
(*                                                                         *)
(* A text is a sequence of symbols: the characters the parser looks at, a  *)
(* whitespace, and the digits of one number, which stand for their value.  *)
(* Of the characters of a string there is one of each sort.  The types of  *)
(* integers keep their widths.  A double is a number of quarters; its six  *)
(* significant digits are modelled as a resolution of one half, and from   *)
(* Large on it is printed with an exponent.  There is no negative zero.    *)
(***************************************************************************)
EXTENDS Integers, SequencesExt

CONSTANTS
  Documents,   \* the values that are printed
  IntBits,     \* the width of int and unsigned int
  LongBits,    \* the width of long long and unsigned long long
  Large        \* the least number that a double prints with an exponent

ASSUME ValueAssumption ==
  /\ IntBits \in Nat \ {0} /\ LongBits \in Nat /\ IntBits < LongBits
  /\ Large \in Nat

VARIABLES
  step,     \* "made" when there is a value, "written" when there is its text
  value,    \* the value in memory
  style,    \* the arguments of ToJSON
  text,     \* the text of the file
  torn,     \* "yes" when only a part of it has been written
  first     \* the whole text that value was read from, if it was

vars == <<step, value, style, text, torn, first>>

IntMax  == 2^(IntBits - 1) - 1
IntMin  == -(2^(IntBits - 1))
UIntMax == 2^IntBits - 1

(* Values.  Signed and unsigned integers, of two widths, have types of      *)
(* their own.                                                               *)
Null        == [kind |-> "null"]
Bool(b)     == [kind |-> "bool", is |-> b]
Number(k, n) == [kind |-> k, of |-> n]
String(s)   == [kind |-> "string", chars |-> s]
Array(s)    == [kind |-> "array", items |-> s]
Hash(f)     == [kind |-> "hash", members |-> f]

Integer == {"int", "unsigned", "long", "unsigned long"}

-------------------------------------------------------------------------------
(* Printing.                                                                *)

Sym(c)    == [sym |-> c, of |-> 0]
Digits(n) == [sym |-> "digits", of |-> n]
Word(w)   == [i \in 1..Len(w) |-> Sym(w[i])]

(* What a string is up to its first null character, with escapes.  Slashes  *)
(* are escaped on demand.                                                   *)
Escaped(c, slashes) ==
  CASE c = "quote"              -> Word(<<"backslash", "quote">>)
    [] c = "backslash"          -> Word(<<"backslash", "backslash">>)
    [] c = "newline"            -> Word(<<"backslash", "n">>)
    [] c = "slash" /\ slashes   -> Word(<<"backslash", "slash">>)
    [] OTHER                    -> Word(<<c>>)

UpToNull(s) ==
  IF Contains(s, "null") THEN SubSeq(s, 1, SelectInSeq(s, LAMBDA c : c = "null") - 1) ELSE s

StringText(s, slashes) ==
  LET shown == UpToNull(s)
  IN  Word(<<"quote">>) \o FlattenSeq([i \in 1..Len(shown) |-> Escaped(shown[i], slashes)])
        \o Word(<<"quote">>)

(* The sign of a negative number and its digits.                            *)
IntegerText(n) == (IF n < 0 THEN Word(<<"-">>) ELSE <<>>) \o <<Digits(IF n < 0 THEN -n ELSE n)>>

(* The double of q quarters, rounded to halves: without a fraction it looks *)
(* like an integer.                                                         *)
DoubleText(q) ==
  LET size   == IF q < 0 THEN -q ELSE q
      halves == (size + 1) \div 2
  IN  (IF q < 0 THEN Word(<<"-">>) ELSE <<>>)
        \o <<Digits(halves \div 2)>>
        \o IF halves \div 2 >= Large THEN Word(<<"e">>)
           ELSE IF halves % 2 = 1 THEN Word(<<".", "5">>) ELSE <<>>

(* The parts of an array or a hash with commas between them.                *)
Separated(parts) ==
  FlattenSeq([i \in 1..Len(parts) |-> IF i = 1 THEN parts[i] ELSE Word(<<",">>) \o parts[i]])

RECURSIVE ToStream(_, _, _)

(* An even indentation lays the text out in lines; a negative one is that   *)
(* of a value which goes on in the line of its key.                         *)
ToStream(v, slashes, indentation) ==
  LET pretty == indentation % 2 = 0
      indent == IF pretty /\ indentation < 0 THEN -indentation ELSE indentation
      line   == IF pretty THEN Word(<<"white">>) ELSE <<>>
      item(w)   == ToStream(w, slashes, indent + 2)
      member(k) == item(String(k)) \o Word(<<":">>) \o line
                     \o ToStream(v.members[k], slashes, -(indent + 2))
  IN  (IF indentation > 0 THEN line ELSE <<>>) \o
      CASE v.kind = "string"   -> StringText(v.chars, slashes)
        [] v.kind \in Integer  -> IntegerText(v.of)
        [] v.kind = "double"   -> DoubleText(v.of)
        [] v.kind = "infinite" -> Word(<<"i", "n", "f">>)
        [] v.kind = "bool"     -> IF v.is THEN Word(<<"t", "r", "u", "e">>)
                                  ELSE Word(<<"f", "a", "l", "s", "e">>)
        [] v.kind \in {"null", "nan"} -> Word(<<"n", "u", "l", "l">>)
        [] v.kind = "array" ->
             Word(<<"[">>) \o Separated([i \in 1..Len(v.items) |-> item(v.items[i])])
               \o line \o Word(<<"]">>)
        [] v.kind = "hash" ->
             LET keys == SetToSeq(DOMAIN v.members)
             IN  Word(<<"{">>) \o Separated([i \in 1..Len(keys) |-> member(keys[i])])
                   \o line \o Word(<<"}">>)

(* Compact with slashes escaped for operator==, laid out without that for   *)
(* the file.                                                                *)
ToJSON(v, s) ==
  CASE s = "compare" -> ToStream(v, TRUE, 1)
    [] s = "save"    -> ToStream(v, FALSE, 0)

-------------------------------------------------------------------------------
(* Parsing.                                                                 *)

(* A parser consumes a part of the text for a value, or throws.             *)
Parsed(v, rest) == [ok |-> TRUE, value |-> v, rest |-> rest]
Thrown          == [ok |-> FALSE, value |-> Null, rest |-> <<>>]

(* peekChar, "end" when there is no character: only some callers accept it. *)
Peek(t) == IF t = <<>> THEN "end" ELSE Head(t).sym

RECURSIVE SkipWhitespace(_)
SkipWhitespace(t) == IF Peek(t) = "white" THEN SkipWhitespace(Tail(t)) ELSE t

(* parseTrue, parseFalse and parseNull require their characters in turn.    *)
ParseWord(t, w, v) ==
  IF IsPrefix(Word(w), t) THEN Parsed(v, SubSeq(t, Len(w) + 1, Len(t))) ELSE Thrown

(* Slip: an escaped slash keeps its backslash.                              *)
MutUnescaped(c) ==
  CASE c \in {"quote", "backslash"} -> <<c>>
    [] c = "slash"                  -> <<"backslash", c>>
    [] c = "n"                      -> <<"newline">>
    [] OTHER                        -> <<>>

(* The character an escape stands for; there are none for other letters.    *)
Unescaped(c) ==
  CASE c \in {"quote", "backslash", "slash"} -> <<c>>
    [] c = "n"                               -> <<"newline">>
    [] OTHER                                 -> <<>>

RECURSIVE ParseChars(_, _)
ParseChars(t, chars) ==
  CASE Peek(t) = "end"       -> Thrown
    [] Peek(t) = "quote"     -> Parsed(String(chars), Tail(t))
    [] Peek(t) = "backslash" ->
         LET c == Unescaped(Peek(Tail(t)))
         IN  IF c = <<>> THEN Thrown ELSE ParseChars(Tail(Tail(t)), chars \o c)
    [] OTHER                 -> ParseChars(Tail(t), Append(chars, Peek(t)))

ParseString(t) == IF Peek(t) = "quote" THEN ParseChars(Tail(t), <<>>) ELSE Thrown

(* Slip: integers are int or unsigned long long.                            *)
MutIntegerOf(n) == IF n <= IntMax THEN Number("int", n) ELSE Number("unsigned long", n)

(* The narrowest type that has the integer.                                 *)
IntegerOf(n) ==
  CASE n \in IntMin..IntMax  -> Number("int", n)
    [] n \in IntMax+1..UIntMax -> Number("unsigned", n)
    [] n > UIntMax           -> Number("unsigned long", n)
    [] n < IntMin            -> Number("long", n)

ParseNumber(t) ==
  LET negative == Peek(t) = "-"
      t1       == IF negative THEN Tail(t) ELSE t
      sign     == IF negative THEN -1 ELSE 1
  IN  IF Peek(t1) # "digits" THEN Thrown
      ELSE LET n  == sign * Head(t1).of
               t2 == Tail(t1)
           IN  CASE Peek(t2) = "." /\ Peek(Tail(t2)) = "5" ->
                      Parsed(Number("double", 4 * n + 2 * sign), Tail(Tail(t2)))
                 [] Peek(t2) = "." /\ Peek(Tail(t2)) # "5" -> Thrown
                 [] Peek(t2) = "e" -> Parsed(Number("double", 4 * n), Tail(t2))
                 [] OTHER          -> Parsed(IntegerOf(n), t2)

RECURSIVE ParseValue(_), ParseItems(_, _), ParseMembers(_, _)

(* The rest of an array.  Commas may come anywhere but at the beginning.    *)
ParseItems(t, items) ==
  LET s == SkipWhitespace(t)
  IN  CASE Peek(s) = "end" -> Thrown
        [] Peek(s) = ","   -> IF items = <<>> THEN Thrown ELSE ParseItems(Tail(s), items)
        [] Peek(s) = "]"   -> Parsed(Array(items), Tail(s))
        [] OTHER ->
             LET v == ParseValue(s)
             IN  IF v.ok THEN ParseItems(v.rest, Append(items, v.value)) ELSE Thrown

(* Slip: the last member of a hash need not be followed by a brace.         *)
MutParseMembers(t, members) ==
  LET s == SkipWhitespace(t)
  IN  CASE Peek(s) = "end" -> IF members = <<>> THEN Thrown ELSE Parsed(Hash(members), s)
        [] Peek(s) = ","   -> IF members = <<>> THEN Thrown ELSE ParseMembers(Tail(s), members)
        [] Peek(s) = "}"   -> Parsed(Hash(members), Tail(s))
        [] OTHER ->
             LET key == ParseString(s)
                 c   == SkipWhitespace(key.rest)
                 v   == ParseValue(Tail(c))
             IN  IF key.ok /\ Peek(c) = ":" /\ v.ok
                 THEN ParseMembers(v.rest, (key.value.chars :> v.value) @@ members)
                 ELSE Thrown

(* The rest of a hash; a key that comes twice has its last value.           *)
ParseMembers(t, members) ==
  LET s == SkipWhitespace(t)
  IN  CASE Peek(s) = "end" -> Thrown
        [] Peek(s) = ","   -> IF members = <<>> THEN Thrown ELSE ParseMembers(Tail(s), members)
        [] Peek(s) = "}"   -> Parsed(Hash(members), Tail(s))
        [] OTHER ->
             LET key == ParseString(s)
                 c   == SkipWhitespace(key.rest)
                 v   == ParseValue(Tail(c))
             IN  IF key.ok /\ Peek(c) = ":" /\ v.ok
                 THEN ParseMembers(v.rest, (key.value.chars :> v.value) @@ members)
                 ELSE Thrown

ParseValue(t) ==
  LET s == SkipWhitespace(t)
  IN  CASE Peek(s) = "end"   -> Thrown
        [] Peek(s) = "{"     -> ParseMembers(Tail(s), <<>>)
        [] Peek(s) = "["     -> ParseItems(Tail(s), <<>>)
        [] Peek(s) = "t"     -> ParseWord(s, <<"t", "r", "u", "e">>, Bool(TRUE))
        [] Peek(s) = "f"     -> ParseWord(s, <<"f", "a", "l", "s", "e">>, Bool(FALSE))
        [] Peek(s) = "n"     -> ParseWord(s, <<"n", "u", "l", "l">>, Null)
        [] Peek(s) = "quote" -> ParseString(s)
        [] OTHER             -> ParseNumber(s)

(* operator>> and fromString: what throws leaves a null value.              *)
FromJSON(t) == LET v == ParseValue(t) IN IF v.ok THEN v.value ELSE Null

-------------------------------------------------------------------------------
(* A value goes to a file and back, again and again.                       *)

Init ==
  /\ step = "made" /\ value \in Documents
  /\ style \in {"compare", "save"}
  /\ text = <<>> /\ torn = "no" /\ first = <<>>

Write ==
  /\ step = "made"
  /\ step' = "written"
  /\ text' = ToJSON(value, style)
  /\ UNCHANGED <<value, style, torn, first>>

(* The disk is full or the process dies: the text ends somewhere.           *)
Tear ==
  /\ step = "written" /\ torn = "no"
  /\ \E n \in 0..(Len(text) - 1) : text' = SubSeq(text, 1, n)
  /\ torn' = "yes"
  /\ UNCHANGED <<step, value, style, first>>

(* The program goes on with what it reads.                                  *)
Read ==
  /\ step = "written"
  /\ step' = "made"
  /\ value' = FromJSON(text)
  /\ first' = IF torn = "no" /\ ParseValue(text).ok THEN text ELSE <<>>
  /\ text' = <<>> /\ torn' = "no"
  /\ UNCHANGED style

Next == Write \/ Tear \/ Read

Spec == Init /\ [][Next]_vars

-------------------------------------------------------------------------------
(* Properties.                                                              *)

(* The integers of a type.                                                  *)
OfType(k) ==
  CASE k = "int"           -> IntMin..IntMax
    [] k = "unsigned"      -> 0..UIntMax
    [] k = "long"          -> -(2^(LongBits - 1))..(2^(LongBits - 1) - 1)
    [] k = "unsigned long" -> 0..(2^LongBits - 1)

(* A double as it is printed: to the nearest half, or whole with an exponent. *)
SixDigits(q) ==
  LET size   == IF q < 0 THEN -q ELSE q
      halves == (size + 1) \div 2
      unit   == IF halves >= 2 * Large THEN 2 ELSE 1
  IN  (IF q < 0 THEN -1 ELSE 1) * 2 * (halves - (halves % unit))

RECURSIVE Readable(_), Meaning(_)

(* JSON has no infinity.                                                    *)
Readable(v) ==
  /\ v.kind # "infinite"
  /\ v.kind = "array" => \A i \in 1..Len(v.items) : Readable(v.items[i])
  /\ v.kind = "hash" => \A k \in DOMAIN v.members : Readable(v.members[k])

(* What a value means once it is text: an integer is one of the narrowest   *)
(* type that has it, and so is a double without a fraction; what is not a   *)
(* number is nothing; a string ends at its first null character.            *)
Narrowest(n) ==
  LET types == <<"int", "unsigned", "unsigned long", "long">>
  IN  Number(types[SelectInSeq(types, LAMBDA k : n \in OfType(k))], n)

Meaning(v) ==
  CASE v.kind \in Integer -> Narrowest(v.of)
    [] v.kind = "double"  ->
         LET q == SixDigits(v.of)
         IN  IF q % 4 = 0 /\ q < 4 * Large /\ -q < 4 * Large THEN Narrowest(q \div 4)
             ELSE Number("double", q)
    [] v.kind = "nan"     -> Null
    [] v.kind = "string"  -> String(UpToNull(v.chars))
    [] v.kind = "array"   -> Array([i \in 1..Len(v.items) |-> Meaning(v.items[i])])
    [] v.kind = "hash"    -> Hash([k \in DOMAIN v.members |-> Meaning(v.members[k])])
    [] OTHER              -> v

(* Config::Save reads the file with everybody's sections and writes it      *)
(* back: what has been printed is read back with the same structure,        *)
(* strings and integers, whatever characters, types and nesting there are.  *)
ReadsBack ==
  [][step = "written" /\ torn = "no" =>
       (step' = "made" => value' = IF Readable(value) THEN Meaning(value) ELSE Null)]_vars

(* Config::LoadFromFile trusts a file that parses: one that was cut off     *)
(* anywhere does not, so that no settings come from a part of them.         *)
TornIsRefused ==
  [][torn = "yes" /\ step' = "made" /\ value.kind \in {"array", "hash"} =>
       value' = Null]_vars

(* Saving again and again does not change the sections of others: what was  *)
(* read is printed as it was before.                                        *)
RewritingIsStable == [][step = "made" /\ step' = "written" /\ first # <<>> => text' = first]_vars
===============================================================================
