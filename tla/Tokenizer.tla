----------------------------- MODULE Tokenizer -----------------------------
(* The tokenizer of PA0: main() reads a file line by line into one buffer, parse_command()    *)
(* copies the tokens of the buffer out of it. An action is a call of fgets() or a round of    *)
(* one of the loops of parse_command().                                                       *)
(*                                                                                            *)
(* A character is what the code tells apart: a blank, the newline, a double quote, NUL, or    *)
(* "x". Neither loop inside a token asks for NUL, and tokens[] has no bound: pc becomes       *)
(* "overrun" where the loops leave the buffer and "overflow" where they leave tokens[].       *)
EXTENDS Integers, Sequences, FiniteSets

CONSTANTS
    BufLen,     \* sizeof(line)
    NrTokens,   \* MAX_NR_TOKENS
    Files       \* the files to read, each a sequence of characters

Blanks == {"blank", "newline"}  \* isspace()
Chars == Blanks \cup {"quote", "x"}
NUL == "nul"

ASSUME BufLenAssumption == BufLen \in Nat \ {0, 1}
ASSUME NrTokensAssumption == NrTokens \in Nat
ASSUME FilesAssumption == Files \subseteq Seq(Chars)

VARIABLES
    file,    \* the file, as it was opened
    at,      \* how much of it fgets() has returned
    line,    \* the buffer, which keeps what longer lines have left behind
    ix,       \* ix: the position in command
    num,     \* num: how far the token reaches back
    t_num,   \* t_num: how many characters are copied
    tokens,  \* tokens[]
    parsed,  \* the tokens of the lines before
    tpc      \* where main() and parse_command() are

tokVars == <<file, at, line, ix, num, t_num, tokens, parsed, tpc>>

Min2(m, n) == IF m < n THEN m ELSE n

\* What fgets() returns: up to a newline, the end of the file or the end of the buffer.
NextLine ==
    LET rest == SubSeq(file, at + 1, Len(file))
        upto == {n \in DOMAIN rest : rest[n] = "newline"} \cup {Min2(Len(rest), BufLen - 1)}
    IN SubSeq(rest, 1, CHOOSE n \in upto : \A m \in upto : n =< m)

TokInit ==
    /\ file \in Files
    /\ at = 0
    /\ line = [n \in 0 .. BufLen - 1 |-> NUL]
    /\ ix = 0 /\ num = 0 /\ t_num = 0
    /\ tokens = <<>>
    /\ parsed = <<>>
    /\ tpc = "fgets"

ReadLine ==
    /\ tpc = "fgets"
    /\ at < Len(file)
    /\ at' = at + Len(NextLine)
    /\ line' = [n \in DOMAIN line |-> IF n < Len(NextLine) THEN NextLine[n + 1]
                                      ELSE IF n = Len(NextLine) THEN NUL ELSE line[n]]
    /\ ix' = 0
    /\ tokens' = <<>>
    /\ tpc' = "command"
    /\ UNCHANGED <<file, num, t_num, parsed>>

EndOfFile ==
    /\ tpc = "fgets"
    /\ at = Len(file)
    /\ tpc' = "end"
    /\ UNCHANGED <<file, at, line, ix, num, t_num, tokens, parsed>>

\* The outer loop, which looks for the end of the line and for the next token.
NextToken ==
    /\ tpc = "command"
    /\ UNCHANGED <<file, at, line, tokens>>
    /\ IF line[ix] = NUL
       THEN tpc' = "fgets" /\ parsed' = Append(parsed, tokens) /\ UNCHANGED <<ix, num, t_num>>
       ELSE /\ UNCHANGED parsed
            /\ IF line[ix] \in Blanks
               THEN ix' = ix + 1 /\ UNCHANGED <<num, t_num, tpc>>
               ELSE num' = 0 /\ t_num' = 0 /\ tpc' = "token" /\ UNCHANGED ix

\* The t_num characters from num before ix, as a string: it ends where a NUL was copied.
Copied ==
    LET text == [k \in 1 .. t_num |-> line[ix - num + k - 1]]
        ends == {k \in DOMAIN text : text[k] = NUL}
    IN IF ends = {} THEN text ELSE SubSeq(text, 1, (CHOOSE k \in ends : \A e \in ends : k =< e) - 1)

\* A round of the loop over a token: a character that is allocated for, a quote, or the blank at
\* which the token is copied.
Token ==
    /\ tpc = "token"
    /\ UNCHANGED <<file, at, line, parsed>>
    /\ \/ /\ ix = BufLen
          /\ tpc' = "overrun"
          /\ UNCHANGED <<ix, num, t_num, tokens>>
       \/ /\ ix < BufLen
          /\ line[ix] \in Blanks
          /\ tokens' = Append(tokens, Copied)
          /\ tpc' = "command"
          /\ UNCHANGED <<ix, num, t_num>>
       \/ /\ ix < BufLen
          /\ line[ix] = "quote"
          /\ ix' = ix + 1
          /\ tpc' = "quoted"
          /\ UNCHANGED <<num, t_num, tokens>>
       \/ /\ ix < BufLen
          /\ line[ix] \notin Blanks \cup {"quote"}
          /\ ix' = ix + 1
          /\ num' = num + 1
          /\ t_num' = num + 1
          /\ tpc' = IF Len(tokens) = NrTokens THEN "overflow" ELSE tpc
          /\ UNCHANGED tokens

\* Bug variant: the closing quote is not counted.
QuotedShort ==
    /\ tpc = "quoted"
    /\ UNCHANGED <<file, at, line, tokens, parsed>>
    /\ IF ix = BufLen
       THEN tpc' = "overrun" /\ UNCHANGED <<ix, num, t_num>>
       ELSE /\ ix' = ix + 1
            /\ IF line[ix] = "quote"
               THEN /\ tpc' = IF Len(tokens) = NrTokens THEN "overflow" ELSE "token"
                    /\ t_num' = num
                    /\ UNCHANGED num
               ELSE num' = num + 1 /\ UNCHANGED <<t_num, tpc>>
\* A round of the loop between two quotes. The closing one is counted, but not copied.
Quoted ==
    /\ tpc = "quoted"
    /\ UNCHANGED <<file, at, line, tokens, parsed>>
    /\ IF ix = BufLen
       THEN tpc' = "overrun" /\ UNCHANGED <<ix, num, t_num>>
       ELSE /\ ix' = ix + 1
            /\ num' = num + 1
            /\ IF line[ix] = "quote"
               THEN /\ tpc' = IF Len(tokens) = NrTokens THEN "overflow" ELSE "token"
                    /\ t_num' = num
               ELSE UNCHANGED <<t_num, tpc>>

TokNext == ReadLine \/ EndOfFile \/ NextToken \/ Token \/ Quoted

-----------------------------------------------------------------------------
(* What the words of a line are, told without loops.                                         *)

QuotesBefore(s, p) == Cardinality({q \in 1 .. p - 1 : s[q] = "quote"})
\* The blanks that separate, with one before the line.
Separators(s) == {0} \cup {p \in DOMAIN s : s[p] \in Blanks /\ QuotesBefore(s, p) % 2 = 0}
\* The spans of s between two separators next to each other.
Spans(s) ==
    {<<a, b>> \in Separators(s) \X Separators(s) :
        a + 1 < b /\ \A c \in Separators(s) : ~(a < c /\ c < b)}
InOrder(spans) ==
    [n \in 1 .. Cardinality(spans) |->
        CHOOSE t \in spans : Cardinality({u \in spans : u[1] < t[1]}) = n - 1]
Raw(s) == [n \in 1 .. Cardinality(Spans(s)) |->
              SubSeq(s, InOrder(Spans(s))[n][1] + 1, InOrder(Spans(s))[n][2] - 1)]
Unquoted(w) == IF w[1] = "quote" THEN SubSeq(w, 2, Len(w) - 1) ELSE w
\* "Any heading and trailing whitespace should be removed from the command tokens", from those
\* that were quoted too: "This " is This.
Trimmed(w) ==
    LET solid == {p \in DOMAIN w : w[p] \notin Blanks}
    IN IF solid = {} THEN <<>>
       ELSE SubSeq(w, CHOOSE p \in solid : \A o \in solid : p =< o,
                      CHOOSE p \in solid : \A o \in solid : o =< p)
Reference(s) == [n \in DOMAIN Raw(s) |-> Trimmed(Unquoted(Raw(s)[n]))]

\* A line as parse_command() wants it: it ends with a blank, it has no more words than tokens[]
\* and a quote opens or closes a word of its own.
Regular(s) ==
    /\ s # <<>>
    /\ s[Len(s)] \in Blanks /\ QuotesBefore(s, Len(s)) % 2 = 0
    /\ Len(Raw(s)) =< NrTokens
    /\ \A n \in DOMAIN Raw(s) :
        LET w == Raw(s)[n] IN
        \A p \in DOMAIN w : w[p] = "quote" => w[1] = "quote" /\ Len(w) > 1 /\ p \in {1, Len(w)}

\* And no quotation mark is next to a blank of the quoted word, which pa0.c would keep.
Tight(s) == \A n \in DOMAIN Raw(s) :
    Unquoted(Raw(s)[n]) = Trimmed(Unquoted(Raw(s)[n]))

\* The lines of the file, as fgets() sees them: a line that does not fit into the buffer is as
\* many lines as it takes.
LineStart(p) ==
    LET before == {0} \cup {q \in 1 .. p - 1 : file[q] = "newline"}
    IN CHOOSE q \in before : \A o \in before : o =< q
Ends == {0, Len(file)} \cup {p \in DOMAIN file : \/ file[p] = "newline"
                                                \/ (p - LineStart(p)) % (BufLen - 1) = 0}
LinesOf ==
    LET pairs == {<<a, b>> \in Ends \X Ends : a < b /\ \A c \in Ends : ~(a < c /\ c < b)}
    IN [n \in 1 .. Cardinality(pairs) |->
           SubSeq(file, InOrder(pairs)[n][1] + 1, InOrder(pairs)[n][2])]
RegularFile == \A n \in DOMAIN LinesOf : Regular(LinesOf[n])
TightFile == \A n \in DOMAIN LinesOf : Tight(LinesOf[n])

Documented == [n \in DOMAIN LinesOf |-> Reference(LinesOf[n])]

\* pa0.c copies out of one buffer that is never cleared and searches it without looking at its
\* end: on a file of regular lines, without blanks next to a quotation mark, it still finds
\* each line's words, and nothing of the lines before, and stays in its arrays. A line without
\* its newline, because it is the last one or because it did not fit into the buffer, is not
\* safe: when it ends inside a word and no line before was longer, the search runs over the NUL
\* to the end of the buffer and out of it, so that the file is never read to its end.
FilesAreSplit ==
    /\ tpc \in {"end", "overrun", "overflow"} =>
        (RegularFile /\ TightFile => tpc = "end" /\ parsed = Documented)
    /\ tpc = "end" =>
        \A n \in DOMAIN LinesOf :
            (\A m \in 1 .. n : Len(LinesOf[m]) =< Len(LinesOf[n]))
            => LinesOf[n][Len(LinesOf[n])] \in Blanks
=============================================================================
