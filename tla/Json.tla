---- MODULE Json ----
(***************************************************************************)
(* json::parse() (json_min.cpp) and the reading of a safetensors header    *)
(* with it (WeightMmap::parse_header_json), as operators on texts, and a   *)
(* second definition of what a header says, by matching brackets instead   *)
(* of by recursive descent, to check them against.                         *)
(*                                                                         *)
(* A text is a sequence of tokens: white space, escapes and digits are     *)
(* left out.  "open quote" is a string without its closing quote, which    *)
(* parse_string() takes to the end of the text; "null" stands for every    *)
(* character no value starts with (the parser does not know null).         *)
(* Numbers are well formed: std::stoll throws on a lone "-".               *)
(*                                                                         *)
(* A value is the set of paths to its parts: <<"{}">> or <<"[]">> for the  *)
(* container itself, then the key or the index in front of the part's own  *)
(* paths, and <<"str", s>>, <<"int">>, <<"bool">> for the leaves.          *)
(***************************************************************************)
EXTENDS Integers, Sequences, FiniteSets, TLC

CONSTANTS Strings      \* the quoted strings of the texts

Peek(t, i) == IF i <= Len(t) THEN t[i] ELSE "end"

Result(v, i, e) == [val |-> v, next |-> i, error |-> e]

Under(name, v) == {<<name>> \o p : p \in v}

\* Mutant of Put: the first value of a key stays.
PutFirst(v, key, val) == IF \E p \in v : p[1] = key THEN v ELSE v \union Under(key, val)

\* v->obj[key] = val: an earlier value of the same key is replaced.
Put(v, key, val) == {p \in v : p[1] # key} \union Under(key, val)

\* parse_number() and parse_bool(), which consume what they accept.
Scalars == {"int", "bool"}

Quoted(c) == c \in Strings \union {"open quote"}

\* parse_string(): where the parser stands behind the string at i.
AfterString(t, i) == IF t[i] = "open quote" THEN Len(t) + 1 ELSE i + 1

RECURSIVE ParseValue(_, _), ParseMembers(_, _, _), ParseElements(_, _, _, _)

\* parse_value(): an error does not stop the parser, it is only remembered.
ParseValue(t, i) ==
    LET c == Peek(t, i)
    IN  CASE c = "{"     -> IF Peek(t, i + 1) = "}" THEN Result({<<"{}">>}, i + 2, FALSE)
                            ELSE ParseMembers(t, i + 1, {<<"{}">>})
          [] c = "["     -> IF Peek(t, i + 1) = "]" THEN Result({<<"[]">>}, i + 2, FALSE)
                            ELSE ParseElements(t, i + 1, {<<"[]">>}, 0)
          [] Quoted(c)   -> Result({<<"str", c>>}, AfterString(t, i), FALSE)
          [] c \in Scalars -> Result({<<c>>}, i + 1, FALSE)
          [] OTHER       -> Result({<<"null">>}, i, TRUE)

\* The loop of parse_object(), v being the members so far.
ParseMembers(t, i, v) ==
    IF ~Quoted(Peek(t, i)) THEN Result(v, i, TRUE)
    ELSE IF Peek(t, AfterString(t, i)) # ":" THEN Result(v, AfterString(t, i), TRUE)
    ELSE LET r == ParseValue(t, AfterString(t, i) + 1)
             w == Put(v, t[i], r.val)
             c == Peek(t, r.next)
         IN  CASE c = "," -> LET rest == ParseMembers(t, r.next + 1, w)
                             IN  [rest EXCEPT !.error = rest.error \/ r.error]
               [] c = "}" -> Result(w, r.next + 1, r.error)
               [] OTHER   -> Result(w, r.next, TRUE)

\* The loop of parse_array(), v being the n elements so far.
ParseElements(t, i, v, n) ==
    LET r == ParseValue(t, i)
        w == v \union Under(ToString(n), r.val)
        c == Peek(t, r.next)
    IN  CASE c = "," -> LET rest == ParseElements(t, r.next + 1, w, n + 1)
                        IN  [rest EXCEPT !.error = rest.error \/ r.error]
          [] c = "]" -> Result(w, r.next + 1, r.error)
          [] OTHER   -> Result(w, r.next, TRUE)

\* parse(): what follows the first value is not looked at.
Parse(t) == ParseValue(t, 1)

IsObject(v) == <<"{}">> \in v

Find(v, name) == {Tail(p) : p \in {q \in v : q[1] = name /\ Len(q) > 1}}

\* The members parse_header_json() enters into tensors_.
Tensors(v) ==
    {name \in Strings \ {"__metadata__"} :
        LET m == Find(v, name)
        IN  /\ IsObject(m)
            /\ \E s \in Strings \union {"open quote"} : <<"str", s>> \in Find(m, "dtype")
            /\ <<"[]">> \in Find(m, "data_offsets")
            /\ Find(Find(m, "data_offsets"), "1") # {}}

HeaderOk(t) == ~Parse(t).error /\ IsObject(Parse(t).val)
HeaderTensors(t) == Tensors(Parse(t).val)

(***************************************************************************)
(* What a header says, by matching brackets.                               *)
(***************************************************************************)
Depth(t, i) ==
    Cardinality({j \in 1 .. i : t[j] \in {"{", "["}})
      - Cardinality({j \in 1 .. i : t[j] \in {"}", "]"}})

\* The pieces of t between its commas outside all brackets, by their ends.
Cuts(t) == {0, Len(t) + 1} \union {i \in 1 .. Len(t) : t[i] = "," /\ Depth(t, i) = 0}
Pieces(t) ==
    LET cuts == Cuts(t)
    IN  {<<a, b>> \in cuts \X cuts : a < b /\ \A c \in cuts : c <= a \/ c >= b}
Piece(t, ab) == SubSeq(t, ab[1] + 1, ab[2] - 1)

Inside(t) == SubSeq(t, 2, Len(t) - 1)

RECURSIVE WellFormed(_), Means(_)

WellFormed(t) ==
    \/ Len(t) = 1 /\ t[1] \in Strings \union {"int", "bool"}
    \/ t \in {<<"{", "}">>, <<"[", "]">>}
    \/ /\ Len(t) > 2
       /\ t[1] = "{" /\ t[Len(t)] = "}"
       /\ \A ab \in Pieces(Inside(t)) :
            LET m == Piece(Inside(t), ab)
            IN  Len(m) > 2 /\ m[1] \in Strings /\ m[2] = ":" /\ WellFormed(SubSeq(m, 3, Len(m)))
    \/ /\ Len(t) > 2
       /\ t[1] = "[" /\ t[Len(t)] = "]"
       /\ \A ab \in Pieces(Inside(t)) : WellFormed(Piece(Inside(t), ab))

\* The value of a well-formed text; the last of several equal keys counts.
Means(t) ==
    CASE t[1] = "{" /\ Len(t) > 2 ->
           LET u == Inside(t)
               pieces == Pieces(u)
               key(ab) == u[ab[1] + 1]
               last(ab) == \A cd \in pieces : key(cd) = key(ab) => cd[1] <= ab[1]
           IN  {<<"{}">>} \union
               UNION {Under(key(ab), Means(SubSeq(u, ab[1] + 3, ab[2] - 1))) :
                         ab \in {cd \in pieces : last(cd)}}
      [] t[1] = "[" /\ Len(t) > 2 ->
           LET u == Inside(t)
               index(ab) == Cardinality({c \in Cuts(u) : c < ab[1]})
           IN  {<<"[]">>} \union
               UNION {Under(ToString(index(ab)), Means(Piece(u, ab))) : ab \in Pieces(u)}
      [] t = <<"{", "}">> -> {<<"{}">>}
      [] t = <<"[", "]">> -> {<<"[]">>}
      [] OTHER -> IF t[1] \in Strings THEN {<<"str", t[1]>>} ELSE {<<t[1]>>}

\* The beginnings of t that are an object.
ObjectPrefixes(t) ==
    {n \in 2 .. Len(t) : t[1] = "{" /\ WellFormed(SubSeq(t, 1, n))}

====
