------------------------------ MODULE SqlScan ------------------------------
(***************************************************************************)
(* classify(): the scan of an SQL text that gives a statement its class,   *)
(* against a definition of PostgreSQL's lexical rules, over every text of  *)
(* at most MaxLength symbols.  A symbol is a character, one of the two-    *)
(* character marks of comments, or a letter that stands for a keyword:     *)
(* "C" for COMMIT or END, "P" for PREPARED or CHAIN, and so on.  Letters   *)
(* that touch are one longer word, which is no keyword.                    *)
(***************************************************************************)
EXTENDS Naturals, Sequences, FiniteSets, FiniteSetsExt, SequencesExt

CONSTANTS
    Symbol,        \* the symbols texts are made of
    MaxLength      \* bound: symbols of a text

KeywordClass == [B |-> "Begin", C |-> "Commit", R |-> "Rollback", S |-> "Select", I |-> "Insert",
                 U |-> "Update", D |-> "Delete", M |-> "Merge", L |-> "Ddl"]

Letter == DOMAIN KeywordClass \cup {"P", "T"}

Blank == {" ", "newline"}

Quote == {"'", "dquote"}

ASSUME ScanAssumption ==
    /\ Symbol \subseteq Letter \cup Blank \cup Quote \cup {"--", "/*", "*/", ";", "$", "backslash", "."}
    /\ MaxLength \in Nat

(***************************************************************************)
(* The least index from i on that satisfies P, or the one after the last.  *)
(***************************************************************************)
FirstFrom(t, i, P(_)) == Min({k \in i .. Len(t) : P(k)} \cup {Len(t) + 1})

(***************************************************************************)
(* The class by the first word, and what else is there.                    *)
(***************************************************************************)
ClassOfWords(words) ==
    LET Has(letter) == \E k \in DOMAIN words : words[k] = <<letter>>
    IN  IF words = <<>> THEN "Other"
        ELSE IF Len(words[1]) # 1 \/ words[1][1] \notin DOMAIN KeywordClass THEN "Other"
        ELSE IF words[1][1] \in {"C", "R"} /\ Has("P") THEN "Other"
        ELSE IF words[1][1] = "R" /\ Has("T") THEN "Other"
        ELSE KeywordClass[words[1][1]]

-----------------------------------------------------------------------------
(***************************************************************************)
(* The scan.  Where a comment, a quoted text or a word that begins at i    *)
(* ends: the index after it; 0 if it does not end.                         *)
(***************************************************************************)
LineEndAtText(t, i) == Len(t) + 1                          \* mutant: the newline missed

LineEnd(t, i) == FirstFrom(t, i, LAMBDA k : t[k] = "newline")

RECURSIVE CommentEnd(_, _, _)
CommentEnd(t, i, depth) ==
    IF depth = 0 THEN i
    ELSE IF i > Len(t) THEN 0
    ELSE CommentEnd(t, i + 1, CASE t[i] = "/*" -> depth + 1
                                [] t[i] = "*/" -> depth - 1
                                [] OTHER -> depth)

RECURSIVE QuotedEnd(_, _, _)
QuotedEnd(t, i, quote) ==
    IF i > Len(t) THEN 0
    ELSE IF t[i] = "backslash" THEN QuotedEnd(t, i + 2, quote)
    ELSE IF t[i] # quote THEN QuotedEnd(t, i + 1, quote)
    ELSE IF i < Len(t) /\ t[i + 1] = quote THEN QuotedEnd(t, i + 2, quote)
    ELSE i + 1

WordEnd(t, i) == FirstFrom(t, i, LAMBDA k : t[k] \notin Letter)

OpensDollar(t, i) == t[i] = "$" /\ WordEnd(t, i + 1) <= Len(t) /\ t[WordEnd(t, i + 1)] = "$"

DollarEnd(t, i) ==
    LET delim == SubSeq(t, i, WordEnd(t, i + 1))
        Closes(k) == k + Len(delim) - 1 <= Len(t) /\ SubSeq(t, k, k + Len(delim) - 1) = delim
        n == FirstFrom(t, i + Len(delim), Closes)
    IN  IF n > Len(t) THEN 0 ELSE n + Len(delim)

AfterEndAllowed(ended) == FALSE                            \* mutant: a second statement let pass

AfterEnd(ended) == ended

RECURSIVE Scan(_, _, _, _)
Scan(t, i, words, ended) ==
    LET Skip(k) == IF k = 0 THEN "Other" ELSE Scan(t, k, words, ended)
    IN  IF i > Len(t) THEN ClassOfWords(words)
        ELSE CASE t[i] \in Blank -> Skip(i + 1)
               [] t[i] = "--" -> Skip(LineEnd(t, i))
               [] t[i] = "/*" -> Skip(CommentEnd(t, i + 1, 1))
               [] OTHER ->
                    IF AfterEnd(ended) THEN "Other"
                    ELSE CASE t[i] = ";" -> Scan(t, i + 1, words, TRUE)
                           [] t[i] \in Quote -> Skip(QuotedEnd(t, i + 1, t[i]))
                           [] OpensDollar(t, i) -> Skip(DollarEnd(t, i))
                           [] t[i] \in Letter ->
                                Scan(t, WordEnd(t, i), Append(words, SubSeq(t, i, WordEnd(t, i) - 1)),
                                     ended)
                           [] OTHER -> Skip(i + 1)

Classify(t) == Scan(t, 1, <<>>, FALSE)

-----------------------------------------------------------------------------
(***************************************************************************)
(* PostgreSQL's lexical rules, with standard_conforming_strings on: in     *)
(* quotes the quote itself, doubled, is the only special character, and an *)
(* identifier may contain "$".  Does the token that begins at i end at k?  *)
(***************************************************************************)
Count(t, i, k, c) == Cardinality({j \in i .. k : t[j] = c})

Closes(t, i, k) ==
    CASE t[i] = "--" -> k = Len(t) \/ t[k + 1] = "newline"
      [] t[i] = "/*" -> Count(t, i, k, "/*") = Count(t, i, k, "*/")
      [] t[i] \in Quote -> /\ k > i /\ Count(t, i, k, t[i]) % 2 = 0
                           /\ k = Len(t) \/ t[k + 1] # t[i]
      [] OpensDollar(t, i) ->
            LET n == WordEnd(t, i + 1) - i
            IN  k - n > i + n /\ SubSeq(t, k - n, k) = SubSeq(t, i, i + n)
      [] t[i] \in Letter -> k = Len(t) \/ t[k + 1] \notin Letter \cup {"$"}
      [] OTHER -> TRUE

TokenEnd(t, i) == FirstFrom(t, i, LAMBDA k : Closes(t, i, k))

(***************************************************************************)
(* The tokens of a text from i on, blanks and comments left out; a token   *)
(* that does not end is the last, and no symbol of the alphabet.           *)
(***************************************************************************)
Unterminated == <<"unterminated">>

RECURSIVE Tokens(_, _)
Tokens(t, i) ==
    IF i > Len(t) THEN <<>>
    ELSE IF TokenEnd(t, i) > Len(t) THEN <<Unterminated>>
    ELSE (IF t[i] \in Blank \cup {"--", "/*"} THEN <<>>
          ELSE <<SubSeq(t, i, TokenEnd(t, i))>>) \o Tokens(t, TokenEnd(t, i) + 1)

(***************************************************************************)
(* Texts PostgreSQL accepts lexically, but for those with a "$" in an      *)
(* identifier, which the scan does not know of.                            *)
(***************************************************************************)
IsWord(token) == token[1] \in Letter

Lexes(t) ==
    LET toks == Tokens(t, 1)
    IN  \A k \in DOMAIN toks :
            toks[k] # Unterminated /\ (IsWord(toks[k]) => "$" \notin ToSet(toks[k]))

(***************************************************************************)
(* The statements of a text begin at a token that is no semicolon, at the  *)
(* beginning or after a semicolon.                                         *)
(***************************************************************************)
Statements(toks) ==
    {k \in DOMAIN toks : toks[k] # <<";">> /\ (k = 1 \/ toks[k - 1] = <<";">>)}

-----------------------------------------------------------------------------
VARIABLE text

ScanInit == text = <<>>

ScanNext == Len(text) < MaxLength /\ \E c \in Symbol : text' = Append(text, c)

ScanSpec == ScanInit /\ [][ScanNext]_text

(***************************************************************************)
(* "Multiple statements are deliberately classified Other": quotes and     *)
(* comments never hide the semicolon between two statements.               *)
(***************************************************************************)
ManyAreOther ==
    Lexes(text) /\ Cardinality(Statements(Tokens(text, 1))) > 1 => Classify(text) = "Other"

(***************************************************************************)
(* A text of one statement, which a semicolon may end, has the class that  *)
(* its words outside quotes and comments call for.                         *)
(***************************************************************************)
OneHasItsClass ==
    LET toks == Tokens(text, 1)
    IN  Lexes(text) /\ toks # <<>> /\ (\A k \in DOMAIN toks : toks[k] = <<";">> => k = Len(toks))
        => Classify(text) = ClassOfWords(SelectSeq(toks, IsWord))
=============================================================================
