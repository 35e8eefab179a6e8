----------------------------- MODULE ReadResponse -----------------------------
(***************************************************************************)
(* How RegisterTask finds the end of the server's response: readResponse   *)
(* reads characters and counts braces.  The connection stays open after    *)
(* the response, so that reading on means to wait until the server closes  *)
(* it or the socket times out.  It may break off at any moment too.        *)
(***************************************************************************)
EXTENDS Naturals, Sequences, FiniteSets

CONSTANTS
    MaxLength \* bound: the characters that the server sends

LengthAssumption == MaxLength \in Nat

\* What matters of JSON here: braces, the quotes and the backslashes of its
\* strings, and other characters.  EOF is read() = -1, as a character.
Chars == {"{", "}", "quote", "backslash", "other"}
EOF   == "eof"

VARIABLES
    text,       \* what the server sends
    closes,     \* it closes the connection then, or it says no more
    read,       \* how many characters have been read
    sb,         \* what readResponse has kept
    braceCount,
    pc          \* "first", "loop", "done" or "failed"

vars == <<text, closes, read, sb, braceCount, pc>>

Init ==
    /\ text \in UNION {[1..n -> Chars] : n \in 0..MaxLength}
    /\ closes \in BOOLEAN
    /\ read = 0
    /\ sb = <<>>
    /\ braceCount = 0
    /\ pc = "first"

TypeOK ==
    /\ read \in 0..Len(text)
    /\ sb \in Seq(Chars \cup {EOF})
    /\ braceCount \in 0..read
    /\ pc \in {"first", "loop", "done", "failed"}

-----------------------------------------------------------------------------

\* reader.read(): a character; -1 when the server has closed; else a
\* SocketTimeoutException, with which readResponse returns what it has.
More     == read < Len(text)
Next1    == IF More THEN text[read + 1] ELSE EOF
TimesOut == ~More /\ ~closes
Consume  == read' = IF More THEN read + 1 ELSE read

Timeout ==
    /\ pc \in {"first", "loop"} /\ TimesOut
    /\ pc' = "done"
    /\ UNCHANGED <<text, closes, read, sb, braceCount>>

\* What is no object at all is answered by an empty string.
ReadFirst ==
    /\ pc = "first" /\ ~TimesOut
    /\ Consume
    /\ IF Next1 = "{"
       THEN sb' = <<"{">> /\ braceCount' = 1 /\ pc' = "loop"
       ELSE pc' = "done" /\ UNCHANGED <<sb, braceCount>>
    /\ UNCHANGED <<text, closes>>

\* The braces of strings count too.
Count(c) == CASE c = "{" -> braceCount + 1
              [] c = "}" -> braceCount - 1
              [] OTHER   -> braceCount

\* The loop's condition, after a character.
Ends(c, n) == c = EOF \/ n = 0

ReadNext ==
    /\ pc = "loop" /\ ~TimesOut
    /\ Consume
    /\ sb' = Append(sb, Next1)
    /\ braceCount' = Count(Next1)
    /\ pc' = IF Ends(Next1, Count(Next1)) THEN "done" ELSE "loop"
    /\ UNCHANGED <<text, closes>>

\* Any other IOException of read() leaves readResponse.
Break ==
    /\ pc \in {"first", "loop"}
    /\ pc' = "failed"
    /\ UNCHANGED <<text, closes, read, sb, braceCount>>

Done == pc \in {"done", "failed"} /\ UNCHANGED vars

Next == Timeout \/ ReadFirst \/ ReadNext \/ Break \/ Done

Spec == Init /\ [][Next]_vars

-----------------------------------------------------------------------------
(* What an object of JSON is: the depth of its braces and whether a string *)
(* is open, and whether the next character is escaped, after n characters. *)

Scan(s) ==
    LET scan[n \in 0..Len(s)] ==
          IF n = 0 THEN [depth |-> 0, string |-> FALSE, escaped |-> FALSE]
          ELSE LET p == scan[n-1] IN
               CASE p.escaped -> [p EXCEPT !.escaped = FALSE]
                 [] ~p.escaped /\ p.string /\ s[n] = "backslash" ->
                      [p EXCEPT !.escaped = TRUE]
                 [] ~p.escaped /\ s[n] = "quote" ->
                      [p EXCEPT !.string = ~@]
                 [] ~p.escaped /\ ~p.string /\ s[n] = "{" ->
                      [p EXCEPT !.depth = @ + 1]
                 [] ~p.escaped /\ ~p.string /\ s[n] = "}" /\ p.depth > 0 ->
                      [p EXCEPT !.depth = @ - 1]
                 [] OTHER -> p
    IN  scan

\* s is an object, and no shorter beginning of it is.
IsObject(s) ==
    /\ s # <<>> /\ s[1] = "{"
    /\ {n \in 1..Len(s) : Scan(s)[n].depth = 0 /\ ~Scan(s)[n].string}
         = {Len(s)}

\* No string of s has a brace.
PlainStrings(s) ==
    \A n \in 1..Len(s) : s[n] \in {"{", "}"} => ~Scan(s)[n-1].string

-----------------------------------------------------------------------------
(* Properties.                                                             *)

\* readResponse returns a whole object as soon as it has read it, without a
\* look at what the connection does next, if its strings have no braces
\* (readResponse, the count).
ReturnsObject ==
    \A n \in 1..Len(text) :
        LET object == SubSeq(text, 1, n) IN
        IsObject(object) /\ PlainStrings(object) /\ pc = "done" =>
            read = n /\ sb = object

\* As many of the first n characters are opening as closing braces.
Occurrences(c, n) == Cardinality({i \in 1..n : text[i] = c})
Even(n) == Occurrences("{", n) = Occurrences("}", n)

\* Whatever the strings hold, the response ends where the braces are even for
\* the first time, those of strings counted: a closing brace in a string cuts
\* an object short, and an opening one makes readResponse wait for the end of
\* the connection, which it appends as a character if it sees it.
EndsWithEvenBraces ==
    pc = "done" /\ read > 0 /\ text[1] = "{" =>
        /\ \A n \in 1..read - 1 : ~Even(n)
        /\ IF Even(read) THEN sb = SubSeq(text, 1, read)
           ELSE /\ read = Len(text)
                /\ sb = IF closes THEN Append(text, EOF) ELSE text

=============================================================================
