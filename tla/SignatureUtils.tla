--------------------------- MODULE SignatureUtils ---------------------------
(***************************************************************************)
(* NormalizedSignatureUtils.h, the code of Qt that normalizes the signatures  *)
(* of SIGNAL() and SLOT() and the types of Q_ARG().  A signature is a         *)
(* sequence of tokens: words and punctuation.  Two words are separated by a   *)
(* space that nothing can take away; any other space is a token, " ".        *)
(***************************************************************************)
EXTENDS Integers, Sequences, FiniteSets, FiniteSetsExt

Punctuation == {"&", "*", "<", ">", ",", "(", ")", " "}
IsWord(token) == token \notin Punctuation

\* Where one of the tokens is, from a position on, or behind the end.
Position(s, tokens, from) ==
    Min({Len(s) + 1} \cup {k \in from..Len(s) : s[k] \in tokens})

Without(s, k) == SubSeq(s, 1, k - 1) \o SubSeq(s, k + 1, Len(s))
From(s, k) == SubSeq(s, k, Len(s))
At(s, k) == IF k \in DOMAIN s THEN s[k] ELSE ""
StartsWith(s, words) == Len(s) >= Len(words) /\ SubSeq(s, 1, Len(words)) = words

qRemoveWhitespace(s) == SelectSeq(s, LAMBDA token : token # " ")

\* 'char const *' is 'const char *', but a const behind a *, & or < stays.
ConstFirst(s) ==
    LET k == Position(s, {"const", "&", "*", "<"}, 2)
    IN IF At(s, k) = "const" THEN <<"const">> \o Without(s, k) ELSE s

\* Mutant: only the & of a const reference goes.
ConstDropped_KeepConst(s) ==
    IF Len(s) > 1 /\ s[1] = "const"
    THEN IF s[Len(s)] = "&" THEN SubSeq(s, 1, Len(s) - 1)
         ELSE IF IsWord(s[Len(s)]) \/ s[Len(s)] = ">" THEN Tail(s) ELSE s
    ELSE s

\* A const reference and a const value are taken for a value.
ConstDropped(s) ==
    IF Len(s) > 1 /\ s[1] = "const"
    THEN IF s[Len(s)] = "&" THEN SubSeq(s, 2, Len(s) - 1)
         ELSE IF IsWord(s[Len(s)]) \/ s[Len(s)] = ">" THEN Tail(s) ELSE s
    ELSE s

\* What stands for 'unsigned x', struct and the like go.
Substituted(s) ==
    IF StartsWith(s, <<"unsigned", "int">>) THEN <<"uint">> \o From(s, 3)
    ELSE IF StartsWith(s, <<"unsigned", "long">>)
    THEN IF At(s, 3) \in {"int", "long"} THEN s ELSE <<"ulong">> \o From(s, 3)
    ELSE IF At(s, 1) = "unsigned" THEN IF At(s, 2) \in {"short", "char"} THEN s ELSE <<"uint">> \o From(s, 2)
    ELSE IF At(s, 1) \in {"struct", "class", "enum"} THEN Tail(s) ELSE s

\* The end of the template argument that begins at a position.
ArgumentEnd(s, from) ==
    LET depth[k \in from - 1..Len(s)] ==
            IF k < from THEN 1
            ELSE depth[k - 1] + (IF s[k] = "<" THEN 1 ELSE IF s[k] = ">" THEN -1 ELSE 0)
    IN Min({Len(s) + 1} \cup {k \in from..Len(s) : depth[k] = 0 \/ (depth[k] = 1 /\ s[k] = ",")})

\* Reads on from a position, with the result so far: "type" is outside of < >,
\* "argument" at the beginning of a template argument, "qualifier" behind a token
\* that a const may follow.  The token behind the type is seen, too, unless a const
\* was moved.
normalizeTypeInternal[s \in Seq(STRING), behind \in STRING, adjustConst \in BOOLEAN] ==
    LET moved == IF adjustConst THEN ConstDropped(ConstFirst(s)) ELSE ConstFirst(s)
        const == IF At(moved, 1) = "const" THEN <<"const">> ELSE <<>>
        t == Substituted(From(moved, 1 + Len(const)))
        read[at \in {"type", "argument", "qualifier"}, k \in 1..Len(t) + 1, result \in Seq(STRING)] ==
            LET end == ArgumentEnd(t, k)
                argument == result \o normalizeTypeInternal[SubSeq(t, k, end - 1), At(t, end), FALSE]
                closes == At(t, end + 1) = ">" \/ (end = Len(t) /\ behind = ">" /\ ConstFirst(s) = s)
                star == \E m \in 1..k - 1 : t[m] = "*"
            IN CASE at = "qualifier" /\ At(t, k) = "const" ->
                      IF adjustConst /\ At(t, k + 1) = "&" THEN read["type", k + 2, result]
                      ELSE IF star THEN read["type", k + 1, Append(result, "const")]
                      ELSE read["type", k + 1, IF adjustConst THEN result ELSE <<"const">> \o result]
                 [] k > Len(t) -> result
                 [] at = "argument" ->
                      IF end > Len(t) THEN argument
                      ELSE IF t[end] = "," THEN read["argument", end + 1, Append(argument, ",")]
                      ELSE read["qualifier", end + 1,
                                argument \o IF closes THEN <<">", " ">> ELSE <<">">>]
                 [] at # "argument" /\ t[k] = "<" -> read["argument", k + 1, Append(result, "<")]
                 [] OTHER -> read[IF IsWord(t[k]) THEN "type" ELSE "qualifier", k + 1, Append(result, t[k])]
    IN IF s = <<>> THEN <<>> ELSE read["type", 1, const]

\* A lone void is no argument.
qNormalizeType(s, isLast) ==
    IF s = <<"void">> /\ isLast THEN <<>> ELSE normalizeTypeInternal[s, ")", TRUE]

normalizedType(s) == qNormalizeType(qRemoveWhitespace(s), FALSE)

\* Where a type of a signature ends.
TypeEnd(s, from) ==
    LET depth[k \in from - 1..Len(s)] ==
            IF k < from THEN 0
            ELSE depth[k - 1] + (IF s[k] = "<" THEN 1 ELSE IF s[k] = ">" THEN -1 ELSE 0)
    IN Min({Len(s) + 1} \cup {k \in from..Len(s) : depth[k - 1] = 0 /\ s[k] \in {",", ")"}})

\* The types in the parentheses are normalized, all else is copied.
normalizedSignature(method) ==
    LET s == qRemoveWhitespace(method)
        read[k \in 1..Len(s) + 1, argdepth \in -2..3] ==
            LET end == IF argdepth = 1 THEN TypeEnd(s, k) ELSE k
                type == IF argdepth = 1 THEN qNormalizeType(SubSeq(s, k, end - 1), At(s, end) = ")") ELSE <<>>
                inside == argdepth + (IF At(s, end) = "(" THEN 1 ELSE IF At(s, end) = ")" THEN -1 ELSE 0)
            IN IF end > Len(s) THEN type ELSE type \o <<s[end]>> \o read[end + 1, inside]
    IN read[1, 0]
=============================================================================
