---- MODULE MCEngineSetup ----
(***************************************************************************)
(* EngineSetup with the parser of Json, and an instance for TLC: layers of *)
(* two tensors, archives of up to five entries naming storages 0 to 3 in   *)
(* any order, and as headers every short text, every text one edit away    *)
(* from a real header, and one with a repeated tensor, whole or shortened. *)
(***************************************************************************)
EXTENDS EngineSetup, Json

CONSTANTS ShortText    \* length of the arbitrary texts

MCStrings == {ExpertZero, "__metadata__", "dtype", "data_offsets", "F16"}

Punctuation == {"{", "}", "[", "]", ":", ","}
Tokens == {"dtype", "int", "null", "open quote"} \union Punctuation

Entry(name) ==
    <<name, ":", "{", "dtype", ":", "F16", ",", "data_offsets", ":", "[", "int", ",", "int", "]", "}">>

RealHeader ==
    <<"{", "__metadata__", ":", "{", "}", ",">> \o Entry(ExpertZero) \o <<"}">>

\* The same tensor twice, the second time without its offsets.
TwiceHeader ==
    <<"{">> \o Entry(ExpertZero) \o <<",", ExpertZero, ":", "{", "dtype", ":", "F16", "}", "}">>

\* One token replaced or inserted; one left out, or the text cut short.
Changed(h) ==
    {[h EXCEPT ![i] = c] : i \in 1 .. Len(h), c \in Tokens}
      \union {SubSeq(h, 1, i) \o <<c>> \o SubSeq(h, i + 1, Len(h)) : i \in 0 .. Len(h), c \in Tokens}
Shortened(h) ==
    {SubSeq(h, 1, i - 1) \o SubSeq(h, i + 1, Len(h)) : i \in 1 .. Len(h)}
      \union {SubSeq(h, 1, i) : i \in 1 .. Len(h)}

ShortTexts == UNION {[1 .. n -> Punctuation \union {"dtype", "int"}] : n \in 1 .. ShortText}

MCHeaders == Changed(RealHeader) \union Shortened(RealHeader) \union Shortened(TwiceHeader) \union ShortTexts

\* The shard is accepted exactly when its header begins with a well-formed
\* object, and then the table has exactly the tensors that object describes,
\* the last one of a repeated name (json_min.cpp:22-73, weight_mmap.cpp:111-142).
HeaderMeansWhatItSays ==
    header # <<>> =>
        LET objects == ObjectPrefixes(header)
        IN  /\ phase = "resolve" <=> objects # {}
            /\ \A n \in objects : table = Tensors(Means(SubSeq(header, 1, n)))
====
