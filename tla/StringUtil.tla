----------------------------- MODULE StringUtil -----------------------------
(***************************************************************************)
(* common/string_util.cpp, and the parts of a request that HttpRequest     *)
(* (net/http/http_request.cpp) cuts out with it.  A string is a sequence   *)
(* of characters; a string_view is one too.  Recursion stands for the      *)
(* loops of the source, and only non-empty delimiters are meant: with an   *)
(* empty one Split does not end.                                           *)
(***************************************************************************)
EXTENDS Integers, Sequences, TLC

Ext == INSTANCE SequencesExt

Blank == " "

Npos == 0

From(s, i) == SubSeq(s, i, Len(s))

StartsWith(s, prefix) == Len(s) >= Len(prefix) /\ SubSeq(s, 1, Len(prefix)) = prefix

EndsWith(s, suffix) ==
  Len(s) >= Len(suffix) /\ From(s, Len(s) - Len(suffix) + 1) = suffix

(* find: the first place at or behind i where t begins (places count from  *)
(* 1 here).                                                                *)
Find(s, t, i) ==
  LET at == {p \in i..(Len(s) - Len(t) + 1) : StartsWith(From(s, p), t)}
  IN  IF at = {} THEN Npos ELSE CHOOSE p \in at : \A q \in at : p <= q

Contains(s, t) == s = t \/ (s # <<>> /\ (t = <<>> \/ Find(s, t, 1) # Npos))

Join(parts, delim) ==
  Ext!FoldLeftDomain(LAMBDA acc, i : acc \o (IF i = 1 THEN <<>> ELSE delim) \o parts[i], <<>>, parts)

Text == Seq(STRING)

SplitLoop[current \in Text, delim \in Text, keep_empty \in BOOLEAN] ==
  LET pos   == Find(current, delim, 1)
      first == IF pos = Npos THEN current ELSE SubSeq(current, 1, pos - 1)
      rest  == From(current, pos + Len(delim))
  IN  (IF pos # 1 \/ keep_empty THEN <<first>> ELSE <<>>) \o
      CASE pos = Npos   -> <<>>
        [] rest = <<>>  -> IF keep_empty THEN << <<>> >> ELSE <<>>
        [] OTHER        -> SplitLoop[rest, delim, keep_empty]

Split(str, delim, keep_empty) ==
  IF str = <<>> THEN <<>> ELSE SplitLoop[str, delim, keep_empty]

SearchInside(p, to) == p

(* The next search begins behind what was put in.                          *)
SearchOn(p, to) == p + Len(to)

ReplaceLoop[target \in Text, from \in Text, to \in Text, count \in Nat, i \in Nat] ==
  LET p == Find(target, from, i) IN
  IF p = Npos \/ count = 0 THEN target
  ELSE ReplaceLoop[SubSeq(target, 1, p - 1) \o to \o From(target, p + Len(from)),
                   from, to, count - 1, SearchOn(p, to)]

Replace(target, from, to, count) == ReplaceLoop[target, from, to, count, 1]

(* substr(start, end - start + 1), where end is either the last character  *)
(* that is not blank or, if there is nothing to cut off, one place more,   *)
(* which substr ignores.                                                   *)
Trim(s) ==
  LET solid == {i \in 1..Len(s) : s[i] # Blank}
      start == CHOOSE i \in solid : \A j \in solid : i <= j
      end   == IF Ext!Last(s) = Blank THEN CHOOSE i \in solid : \A j \in solid : i >= j ELSE Len(s)
  IN  IF solid = {} THEN <<>> ELSE SubSeq(s, start, end)

-----------------------------------------------------------------------------
(* HttpRequest.  Trim is called on keys and values but what it returns is  *)
(* not used, so they keep their blanks.                                    *)

Maplet(pairs) ==
  LET keys == {pairs[i][1] : i \in DOMAIN pairs}
      LastOf(k) == CHOOSE i \in DOMAIN pairs :
                     pairs[i][1] = k /\ \A j \in DOMAIN pairs : pairs[j][1] = k => j <= i
  IN  [k \in keys |-> pairs[LastOf(k)][2]]

(* The fields that Split cuts into exactly two; a later one overwrites an  *)
(* earlier one with the same key.                                          *)
KeyValues(fields, delim, keep) ==
  Maplet(SelectSeq([i \in 1..Len(fields) |-> Split(fields[i], <<delim>>, keep)],
                   LAMBDA kv : Len(kv) = 2))

ParseHeaders(lines) == KeyValues(Tail(lines), ":", FALSE)

ParseURLParams(url) == KeyValues(Split(url, <<"&">>, TRUE), "=", TRUE)

ParseFirstParam(body) == KeyValues(SubSeq(Split(body, <<"&">>, TRUE), 1, 1), "=", TRUE)
ParseBody(body) == KeyValues(Split(body, <<"&">>, TRUE), "=", TRUE)

(* uri_ and url_params_: the URL is cut at '&', and only if that makes two *)
(* parts.                                                                  *)
ParseLine(line) ==
  LET words == Split(line, <<Blank>>, TRUE)
      url   == Split(words[2], <<"&">>, TRUE)
  IN  [method |-> words[1], url |-> words[2], version |-> words[3],
       uri |-> IF Len(url) = 2 THEN url[1] ELSE words[2],
       params |-> IF Len(url) = 2 THEN ParseURLParams(url[2]) ELSE Maplet(<<>>)]

-----------------------------------------------------------------------------
Word == UNION {[1..n -> {"a", "b"}] : n \in 1..2}

Param(k, v) == k \o <<"=">> \o v

(* A request body param1=value1&param2=value2 is understood: every         *)
(* parameter is found with its value.  So are a header without blanks and  *)
(* a request line whose URL has no parameters.                             *)
Understood(k1, v1, k2, v2) ==
  /\ ParseBody(Param(k1, v1)) = (k1 :> v1)
  /\ k1 # k2 => ParseBody(Param(k1, v1) \o <<"&">> \o Param(k2, v2)) = (k1 :> v1 @@ k2 :> v2)
  /\ ParseHeaders(<<<<"G">>, k1 \o <<":">> \o v1>>) = (k1 :> v1)
  /\ ParseLine(k1 \o <<Blank>> \o k2 \o <<Blank>> \o v2) =
       [method |-> k1, url |-> k2, version |-> v2, uri |-> k2, params |-> Maplet(<<>>)]

(* http_request.cpp:36, "remove the blanks": those behind the colon, too.  *)
Trimmed(k, v) == ParseHeaders(<<<<"G">>, k \o <<":", Blank>> \o v>>) = (k :> v)

(* http_request.h:23-24: of the url /foo?name=pgj the uri is /foo, and     *)
(* name is a parameter of it; and so with two parameters.                  *)
UrlUnderstood(uri, k1, v1, k2, v2) ==
  LET Read(query) ==
        ParseLine(<<"G", Blank>> \o uri \o <<"?">> \o query \o <<Blank, "1">>)
      one == Read(Param(k1, v1))
      two == Read(Param(k1, v1) \o <<"&">> \o Param(k2, v2))
  IN  /\ one.uri = uri /\ one.params = (k1 :> v1)
      /\ k1 # k2 => two.uri = uri /\ two.params = (k1 :> v1 @@ k2 :> v2)

(* Reference definitions on all short strings over an alphabet that holds  *)
(* a blank and a delimiter.                                                *)
Texts == UNION {[1..n -> {"a", ",", Blank}] : n \in 0..4}

(* Splitting and joining, trimming and replacing, by their meaning.        *)
MeetsReference(s) ==
  /\ LET parts == Split(s, <<",">>, TRUE) IN
     /\ Join(parts, <<",">>) = s
     /\ \A i \in DOMAIN parts : ~Contains(parts[i], <<",">>)
     /\ Split(s, <<",">>, FALSE) = SelectSeq(parts, LAMBDA p : p # <<>>)
  /\ \E i, j \in 0..Len(s) :
       /\ s = SubSeq(s, 1, i) \o Trim(s) \o From(s, j + 1)
       /\ \A k \in 1..Len(s) : k <= i \/ k > j => s[k] = Blank
       /\ Trim(s) # <<>> => Head(Trim(s)) # Blank /\ Ext!Last(Trim(s)) # Blank
  /\ Replace(s, <<",">>, <<",", ",">>, 9) =
       Join([i \in 1..Len(s) |-> IF s[i] = "," THEN <<",", ",">> ELSE <<s[i]>>], <<>>)
=============================================================================
