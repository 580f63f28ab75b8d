------------------------------- MODULE Words -------------------------------
(* parse_command() of PA1, PA2 and PA4, which cuts a line into words where it lies: the blanks *)
(* become NULs and tokens[] points into the line. PA2 and PA4 then drop what follows a word    *)
(* that starts with "#". An action is a round of one of the two loops.                         *)
(*                                                                                             *)
(* A character is a blank, "#" or "x". tokens[] has no bound: wpc becomes "smashed" where the  *)
(* loop writes behind its end.                                                                 *)
EXTENDS Integers, Sequences, FiniteSets

CONSTANTS
    MaxTokens,  \* MAX_NR_TOKENS, the 32 pointers of the callers
    Commands,   \* the lines to cut, each a sequence of characters
    Programs    \* which of PA1, PA2 and PA4 cut them

WordChars == {" ", "#", "x"}
EndOfString == "0"

ASSUME MaxTokensAssumption == MaxTokens \in Nat
ASSUME CommandsAssumption == Commands \subseteq Seq(WordChars)
ASSUME ProgramsAssumption == Programs \subseteq {"pa1", "pa2", "pa4"}

VARIABLES
    program,        \* whose parse_command() it is
    typed,          \* the line as it came
    command,        \* the line as it is now, with the NUL at its end
    curr,           \* curr
    token_started,  \* token_started
    pointers,       \* tokens[0 .. *nr_tokens - 1]: positions in command
    comment,        \* i of the second loop
    wpc             \* which loop it is in

wordVars == <<program, typed, command, curr, token_started, pointers, comment, wpc>>

WordsInit ==
    /\ program \in Programs
    /\ typed \in Commands
    /\ command = Append(typed, EndOfString)
    /\ curr = 1
    /\ token_started = FALSE
    /\ pointers = <<>>
    /\ comment = 1
    /\ wpc = "split"

\* A round of the loop over the characters.
Split ==
    /\ wpc = "split"
    /\ UNCHANGED <<program, typed, comment>>
    /\ IF command[curr] = EndOfString
       THEN /\ wpc' = IF program = "pa1" THEN "return" ELSE "comments"
            /\ UNCHANGED <<command, curr, token_started, pointers>>
       ELSE /\ curr' = curr + 1
            /\ IF command[curr] = " "
               THEN /\ command' = [command EXCEPT ![curr] = EndOfString]
                    /\ token_started' = FALSE
                    /\ UNCHANGED <<pointers, wpc>>
               ELSE /\ token_started' = TRUE
                    /\ pointers' = IF token_started THEN pointers ELSE Append(pointers, curr)
                    /\ wpc' = IF Len(pointers') > MaxTokens THEN "smashed" ELSE wpc
                    /\ UNCHANGED command

\* Bug variant: the comment itself is kept.
CutAfterComment ==
    /\ wpc = "comments"
    /\ UNCHANGED <<program, typed, command, curr, token_started>>
    /\ IF comment > Len(pointers)
       THEN wpc' = "return" /\ UNCHANGED <<pointers, comment>>
       ELSE IF command[pointers[comment]] = "#"
       THEN /\ pointers' = SubSeq(pointers, 1, comment)
            /\ wpc' = "return"
            /\ UNCHANGED comment
       ELSE comment' = comment + 1 /\ UNCHANGED <<pointers, wpc>>
\* A round of the loop over the words.
CutComment ==
    /\ wpc = "comments"
    /\ UNCHANGED <<program, typed, command, curr, token_started>>
    /\ IF comment > Len(pointers)
       THEN wpc' = "return" /\ UNCHANGED <<pointers, comment>>
       ELSE IF command[pointers[comment]] = "#"
       THEN /\ pointers' = SubSeq(pointers, 1, comment - 1)
            /\ wpc' = "return"
            /\ UNCHANGED comment
       ELSE comment' = comment + 1 /\ UNCHANGED <<pointers, wpc>>

WordsNext == Split \/ CutComment

WordsSpec == WordsInit /\ [][WordsNext]_wordVars

-----------------------------------------------------------------------------
\* Where the words of a line start, and the characters from there to the next blank.
Starts(s) == {p \in DOMAIN s : s[p] # " " /\ (p = 1 \/ s[p - 1] = " ")}
WordAt(s, p) ==
    SubSeq(s, p, CHOOSE e \in p .. Len(s) :
                    /\ \A q \in p .. e : s[q] # " "
                    /\ e = Len(s) \/ s[e + 1] = " ")
KeptStarts(s) ==
    {p \in Starts(s) : program = "pa1" \/ \A q \in Starts(s) : q =< p => s[q] # "#"}
\* What a pointer into the line is to a reader: the characters up to the next NUL.
StringAt(p) ==
    SubSeq(command, p, CHOOSE e \in p - 1 .. Len(command) - 1 :
                          /\ command[e + 1] = EndOfString
                          /\ \A q \in p .. e : command[q] # EndOfString)

\* The pointers stay good after the line has been overwritten: they are, in order, the words that
\* were typed, up to the comment; and a line of more words than that, comments included, is never
\* returned from.
WordsAreCut ==
    /\ wpc = "return" =>
        /\ {pointers[n] : n \in DOMAIN pointers} = KeptStarts(typed)
        /\ \A m, n \in DOMAIN pointers : m < n => pointers[m] < pointers[n]
        /\ \A n \in DOMAIN pointers : StringAt(pointers[n]) = WordAt(typed, pointers[n])
    /\ wpc \in {"comments", "return"} => Cardinality(Starts(typed)) =< MaxTokens
    /\ wpc = "smashed" => Cardinality(Starts(typed)) > MaxTokens
=============================================================================
