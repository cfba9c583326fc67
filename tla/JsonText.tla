------------------------------ MODULE JsonText ------------------------------
(***************************************************************************)
(* tinyjson: Parser (common/json/Parser.cpp) and JObject::ToString         *)
(* (common/json/JObject.cpp).  A text is a sequence of characters, idx_ an *)
(* index into it; every function of the parser returns what it found and   *)
(* idx_ after it, or that it threw.  Numbers are their digits, after a '-' *)
(* if they are negative.  FromString parses with one static Parser, whose  *)
(* str_ and idx_ all threads share: the calls here come one after the      *)
(* other, and two at once, which the code does not exclude, are left out.  *)
(***************************************************************************)
EXTENDS Integers, Sequences, FiniteSets, TLC

JExt == INSTANCE SequencesExt

Digits == {"0", "1", "2"}
Spaces == {" ", "\n"}
Quote  == "\""
Escape == "\\"

(* JObject: a type and a value.                                            *)
JNull          == [type |-> "null"]
JBool(b)       == [type |-> "bool", value |-> b]
JInt(digits)   == [type |-> "int", value |-> digits]
JDouble(w, f)  == [type |-> "double", value |-> <<w, f>>]
JStr(chars)    == [type |-> "str", value |-> chars]
JList(items)   == [type |-> "list", value |-> items]
JDict(map)     == [type |-> "dict", value |-> map]

Literal(v) == CASE v = JNull       -> <<"n", "u", "l", "l">>
                [] v = JBool(TRUE) -> <<"t", "r", "u", "e">>
                [] OTHER           -> <<"f", "a", "l", "s", "e">>

-----------------------------------------------------------------------------
(* JObject::ToString.  Strings are written as they are, without escapes; a *)
(* double without a fraction is written without a point.                   *)

Commas(parts) ==
  JExt!FoldLeftDomain(LAMBDA acc, i : acc \o (IF i = 1 THEN <<>> ELSE <<",">>) \o parts[i],
                      <<>>, parts)

Quoted(chars) == <<Quote>> \o chars \o <<Quote>>

RECURSIVE ToText(_)
ToText(v) ==
  CASE v.type \in {"null", "bool"} -> Literal(v)
    [] v.type = "int"    -> v.value
    [] v.type = "double" -> v.value[1] \o (IF v.value[2] = <<"0">> THEN <<>>
                                           ELSE <<".">> \o v.value[2])
    [] v.type = "str"    -> Quoted(v.value)
    [] v.type = "list"   ->
         <<"[">> \o Commas([i \in DOMAIN v.value |-> ToText(v.value[i])]) \o <<"]">>
    [] v.type = "dict"   ->
         LET keys == JExt!SetToSeq(DOMAIN v.value)
         IN  <<"{">> \o Commas([i \in DOMAIN keys |->
                          Quoted(keys[i]) \o <<":">> \o ToText(v.value[keys[i]])]) \o <<"}">>

-----------------------------------------------------------------------------
(* Parser.                                                                 *)

Char(s, i) == IF i <= Len(s) THEN s[i] ELSE "nul"

LiesAt(s, i, word) == \A k \in DOMAIN word : Char(s, i + k - 1) = word[k]

Found(v, i) == [found |-> TRUE, val |-> v, at |-> i]
Throw       == [found |-> FALSE, val |-> JNull, at |-> 0]

(* The first index at or behind i whose character is not in chars.         *)
SkipAll(s, i, chars) ==
  CHOOSE j \in i..(Len(s) + 1) : Char(s, j) \notin chars /\ \A k \in i..(j - 1) : s[k] \in chars

(* find, with 0 for npos: npos + 1 is the first index, as in the code.     *)
FindChar(s, c, i) ==
  LET at == {j \in i..Len(s) : s[j] = c}
  IN  IF at = {} THEN 0 ELSE CHOOSE j \in at : \A k \in at : j <= k

(* A comment that no newline ends is not noticed: npos is compared with    *)
(* size().  The search then goes on at the beginning of the text, for ever *)
(* if that is the comment (0 stands for that).                             *)
RECURSIVE SkipComment(_, _)
SkipComment(s, i) ==
  LET newline == FindChar(s, "\n", i)
      next    == SkipAll(s, newline + 1, Spaces)
  IN  CASE ~LiesAt(s, i, <<"/", "/">>)                   -> i
        [] LiesAt(s, i, <<"/", "/">>) /\ newline = 0
           /\ LiesAt(s, next, <<"/", "/">>)              -> 0
        [] OTHER                                         -> SkipComment(s, next)

(* GetNextToken: the index of the next token, 0 if there is none.          *)
NextToken(s, i) ==
  LET j == SkipAll(s, i, Spaces) IN IF j > Len(s) THEN 0 ELSE SkipComment(s, j)

ParseWord(s, i, values) ==
  LET fit == {v \in values : LiesAt(s, i, Literal(v))}
  IN  IF fit = {} THEN Throw
      ELSE LET v == CHOOSE v \in fit : TRUE IN Found(v, i + Len(Literal(v)))

(* A '-' leads here but is not accepted: Throw.                            *)
ParseNumber(s, i) ==
  LET whole == SkipAll(s, i, Digits)
      end   == SkipAll(s, whole + 1, Digits)
  IN  CASE whole = i               -> Throw
        [] Char(s, whole) # "."    -> Found(JInt(SubSeq(s, i, whole - 1)), whole)
        [] end = whole + 1         -> Throw
        [] OTHER -> Found(JDouble(SubSeq(s, i, whole - 1), SubSeq(s, whole + 1, end - 1)), end)

(* An even number of escapes in front of a quote cancel each other out.    *)
IsEscConsumeAlways(s, pos) == TRUE
IsEscConsume(s, pos) ==
  LET run == {k \in 1..pos : \A j \in k..pos : s[j] = Escape}
  IN  Cardinality(run) % 2 = 0

RECURSIVE ClosingQuote(_, _)
ClosingQuote(s, i) ==
  LET pos == FindChar(s, Quote, i)
  IN  IF pos = 0 \/ s[pos - 1] # Escape \/ IsEscConsume(s, pos - 1) THEN pos
      ELSE ClosingQuote(s, pos + 1)

ParseString(s, i) ==
  LET pos == ClosingQuote(s, i + 1)
  IN  IF pos = 0 THEN Throw ELSE Found(JStr(SubSeq(s, i + 1, pos - 1)), pos + 1)

RECURSIVE Parse(_, _)
RECURSIVE ParseItems(_, _, _)
RECURSIVE ParseEntries(_, _, _)

(* The loop of ParseList, with the items so far.                           *)
ParseItems(s, i, items) ==
  LET item == Parse(s, i)
      next == NextToken(s, item.at)
      all  == Append(items, item.val)
  IN  CASE ~item.found \/ next = 0 -> Throw
        [] Char(s, next) = "]"     -> Found(JList(all), next + 1)
        [] Char(s, next) = ","     -> ParseItems(s, next + 1, all)
        [] OTHER                   -> Throw

ParseList(s, i) ==
  LET next == NextToken(s, i + 1)
  IN  CASE next = 0            -> Throw
        [] Char(s, next) = "]" -> Found(JList(<<>>), next + 1)
        [] OTHER               -> ParseItems(s, i + 1, <<>>)

(* The loop of ParseDict, with the entries so far.                         *)
ParseEntries(s, i, map) ==
  LET key   == Parse(s, i)
      colon == NextToken(s, key.at)
      item  == Parse(s, colon + 1)
      next  == NextToken(s, item.at)
      all   == (key.val.value :> item.val) @@ map
  IN  CASE ~key.found \/ key.val.type # "str"        -> Throw
        [] colon = 0 \/ Char(s, colon) # ":"         -> Throw
        [] ~item.found \/ next = 0                   -> Throw
        [] Char(s, next) = "}"                       -> Found(JDict(all), next + 1)
        [] Char(s, next) = ","                       -> ParseEntries(s, next + 1, all)
        [] OTHER                                     -> Throw

ParseDict(s, i) ==
  LET next == NextToken(s, i + 1)
  IN  CASE next = 0            -> Throw
        [] Char(s, next) = "}" -> Found(JDict(<<>>), next + 1)
        [] OTHER               -> ParseEntries(s, i + 1, <<>>)

Parse(s, i) ==
  LET at == NextToken(s, i)
      c  == IF at = 0 THEN "nul" ELSE Char(s, at)
  IN  CASE c = "n"                    -> ParseWord(s, at, {JNull})
        [] c \in {"t", "f"}           -> ParseWord(s, at, {JBool(TRUE), JBool(FALSE)})
        [] c = "-" \/ c \in Digits    -> ParseNumber(s, at)
        [] c = Quote                  -> ParseString(s, at)
        [] c = "["                    -> ParseList(s, at)
        [] c = "{"                    -> ParseDict(s, at)
        [] OTHER                      -> Throw

(* Init cuts blanks off the end.                                           *)
TrimRight(text) ==
  LET solid == {i \in 1..Len(text) : text[i] \notin Spaces}
      end   == IF solid = {} THEN 0 ELSE CHOOSE i \in solid : \A j \in solid : i >= j
  IN  SubSeq(text, 1, end)

(* Init of the static parser, and Parse.                                   *)
FromString(text) == Parse(TrimRight(text), 1)

-----------------------------------------------------------------------------
(* Values nested two deep.  The strings hold escaped quotes and an escaped *)
(* escape at their end, as they must to be written without change.         *)
Plain == {JNull, JBool(TRUE), JBool(FALSE), JInt(<<"0">>), JInt(<<"1", "2">>),
          JDouble(<<"1">>, <<"0">>), JDouble(<<"2">>, <<"0", "1">>),
          JStr(<<>>), JStr(<<",", "]">>), JStr(<<Escape, Quote>>), JStr(<<"a", Escape, Escape>>)}

Nested(S) == {JList(<<>>), JDict(<<>>)}
             \cup {JList(<<x>>) : x \in S} \cup {JList(<<x, y>>) : x, y \in S}
             \cup {JDict(<<"k">> :> x @@ <<>> :> y) : x, y \in S}

Values == Plain \cup Nested(Plain)
          \cup Nested({JNull, JStr(<<"]">>), JList(<<JInt(<<"0">>)>>), JDict(<<"}">> :> JNull)})

(* Negative numbers, alone and inside.                                     *)
Negatives ==
  LET numbers == {JInt(<<"-", "1">>), JDouble(<<"-", "0">>, <<"2">>)}
  IN  numbers \cup {JList(<<x>>) : x \in numbers} \cup {JDict(<<"k">> :> x) : x \in numbers}

(* A whole number that was a double has become an int.                     *)
RECURSIVE Reread(_)
Reread(v) ==
  CASE v.type = "double" -> IF v.value[2] = <<"0">> THEN JInt(v.value[1]) ELSE v
    [] v.type \in {"list", "dict"} ->
         [v EXCEPT !.value = [k \in DOMAIN v.value |-> Reread(v.value[k])]]
    [] OTHER -> v

(* v is read from what is written of it, and from nothing less.            *)
RoundTrips(v) ==
  LET text    == ToText(v)
      comment == <<" ", "/", "/", Quote, "\n", "\n">>
  IN  /\ FromString(text \o <<" ">>) = Found(Reread(v), Len(text) + 1)
      /\ FromString(comment \o text).val = Reread(v)
      /\ v.type \in {"str", "list", "dict"} => ~FromString(JExt!Front(text)).found

Refused(v) == ~FromString(ToText(v)).found
=============================================================================
