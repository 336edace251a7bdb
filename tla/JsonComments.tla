---------------------------- MODULE JsonComments -----------------------------
(***************************************************************************)
(* _strip_json_comments, which a configuration file of either suffix goes  *)
(* through when json.loads has refused it, before it is parsed once more:  *)
(* one scan over the characters that removes line and block comments       *)
(* outside string literals.                                                *)
(***************************************************************************)
EXTENDS Naturals, Sequences, FiniteSets, Lists

CONSTANT Longest  \* bound: the length of a text

ASSUME JsonCommentsAssumption == Longest \in Nat

VARIABLES
    raw,       \* the text
    pos,       \* the next character, from 1: i
    in_string, \* the quote that ends the literal, or NoQuote
    escape,    \* the last character was a backslash that escapes the next
    result

scan == <<raw, pos, in_string, escape, result>>

NoQuote == "none"
Quotes == {"quote", "apostrophe"}
Characters == Quotes \cup {"slash", "star", "backslash", "newline", "other"}
Texts == UNION {[1 .. n -> Characters] : n \in 0 .. Longest}

\* A quote at j opens or closes a literal of a text: the backslashes before it
\* pair up. The literals of a text are what is between such quotes.
Escaping(text, j) == {k \in 1 .. j - 1 : \A l \in k .. j - 1 : text[l] = "backslash"}
Delimits(text, j) == text[j] = "quote" /\ Cardinality(Escaping(text, j)) % 2 = 0
Inside(text, j) == Cardinality({k \in 1 .. j - 1 : Delimits(text, k)}) % 2 = 1

\* JSON, as far as a scanner sees it, and perhaps with comments: apostrophes and
\* backslashes are found in literals only.
IsJson(text) == \A j \in 1 .. Len(text) : text[j] \in {"apostrophe", "backslash"} => Inside(text, j)
HasNoComment(text) ==
    \A j \in 1 .. Len(text) - 1 :
        (text[j] = "slash" /\ text[j + 1] \in {"slash", "star"}) => Inside(text, j)

\* What json.loads refuses, whatever the other characters are: a text with a
\* comment or a stray character. One that is malformed in them only has nothing
\* to strip, and is refused again.
IsRefused(text) == ~(IsJson(text) /\ HasNoComment(text))

ScanInit ==
    /\ raw \in Texts /\ IsRefused(raw)
    /\ pos = 1 /\ in_string = NoQuote /\ escape = FALSE
    /\ result = <<>>

Scanned == pos > Len(raw)
StartsFault(second) == ~Scanned /\ in_string = NoQuote /\ raw[pos] = "slash" /\ pos + 1 < Len(raw) /\ raw[pos + 1] = second
Starts(second) == ~Scanned /\ in_string = NoQuote /\ raw[pos] = "slash" /\ pos < Len(raw) /\ raw[pos + 1] = second
First(positions) == CHOOSE j \in positions : \A k \in positions : j <= k

Keep == result' = Append(result, raw[pos]) /\ pos' = pos + 1

EscapesFault(ch) == FALSE
Escapes(ch) == ch = "backslash"
InString ==
    /\ ~Scanned /\ in_string # NoQuote
    /\ Keep
    /\ IF escape THEN escape' = FALSE /\ UNCHANGED in_string
       ELSE /\ escape' = Escapes(raw[pos])
            /\ in_string' = IF raw[pos] = in_string THEN NoQuote ELSE in_string
    /\ UNCHANGED <<raw>>

OpenString ==
    /\ ~Scanned /\ in_string = NoQuote /\ raw[pos] \in Quotes
    /\ Keep /\ in_string' = raw[pos]
    /\ UNCHANGED <<raw, escape>>

LineComment ==
    /\ Starts("slash")
    /\ pos' = First({j \in pos + 2 .. Len(raw) : raw[j] = "newline"} \cup {Len(raw) + 1})
    /\ UNCHANGED <<raw, in_string, escape, result>>

\* One that is never closed takes the rest of the text, its last character too.
Closes(j) == raw[j] = "star" /\ raw[j + 1] = "slash"
BlockComment ==
    /\ Starts("star")
    /\ pos' = First({j \in pos + 2 .. Len(raw) - 1 : Closes(j)} \cup {Len(raw)}) + 2
    /\ UNCHANGED <<raw, in_string, escape, result>>

Copy ==
    /\ ~Scanned /\ in_string = NoQuote /\ raw[pos] \notin Quotes
    /\ ~Starts("slash") /\ ~Starts("star")
    /\ Keep
    /\ UNCHANGED <<raw, in_string, escape>>

ScanNext == InString \/ OpenString \/ LineComment \/ BlockComment \/ Copy

ScanSpec == ScanInit /\ [][ScanNext]_scan

-----------------------------------------------------------------------------
(* Properties.                                                              *)

\* What the parser gets has no comment left, and no new one made of what the
\* comments have kept apart.
CommentsAreGone == (Scanned /\ IsJson(result)) => HasNoComment(result)

\* The same text read one character at a time, without looking ahead: where a
\* character leaves the reader, and whether a slash (in text), a star (in a
\* comment) or a backslash (in a literal) has still to meet the next one.
AtStart == [place |-> "text", open |-> FALSE]
Goes(at, ch) ==
    CASE at.place = "text" ->
           IF at.open /\ ch = "slash" THEN [place |-> "line", open |-> FALSE]
           ELSE IF at.open /\ ch = "star" THEN [place |-> "block", open |-> FALSE]
           ELSE [place |-> IF ch \in Quotes THEN ch ELSE "text", open |-> ch = "slash"]
      [] at.place = "line" ->
           IF ch = "newline" THEN AtStart ELSE at
      [] at.place = "block" ->
           IF at.open /\ ch = "slash" THEN AtStart ELSE [at EXCEPT !.open = ch = "star"]
      [] at.place \in Quotes ->
           IF ~at.open /\ ch = at.place THEN AtStart
           ELSE [at EXCEPT !.open = ~at.open /\ ch = "backslash"]
Comments == {"line", "block"}
Uncommented(text) ==
    LET at[n \in 0 .. Len(text)] == IF n = 0 THEN AtStart ELSE Goes(at[n - 1], text[n])
        Begins(k) == at[k].place = "text" /\ at[k].open /\ k < Len(text) /\ at[k + 1].place \in Comments
    IN  At(text, {k \in 1 .. Len(text) :
                    at[k - 1].place # "block" /\ at[k].place \notin Comments /\ ~Begins(k)})

\* Of a text with comments the parser gets all the rest and nothing more, whatever
\* its literals hold, whichever quote they are in, wherever two comments or a
\* comment and the end of the text meet.
CommentedTextIsRead == Scanned => result = Uncommented(raw)
=============================================================================
