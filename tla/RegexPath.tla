----------------------------- MODULE RegexPath -----------------------------
(***************************************************************************)
(* regexpath() of circuits/http/server/routing/utils.py: the template of a *)
(* path becomes a pattern, a sequence of literals and variables.  Paths    *)
(* and templates are sequences of characters.  What a regular expression   *)
(* of these parts matches is defined from their text (_append); a          *)
(* requirement of ordinary characters, as in {x:ab}, matches itself.       *)
(***************************************************************************)
EXTENDS Naturals, Sequences, SequencesExt

\* Special chars to indicate a natural split in the URL
DoneChars == {"/", ",", ";", ".", "#"}

Special == DoneChars \cup {":", "*", "{", "}", "(", ")", "-"}

\* The types of variables: ":" does not match a slash, "." is an optional
\* extension, "*" matches anything.  `name' is the text of a literal.
Part(type, name, var) == [type |-> type, name |-> name, var |-> var]
AppendLiteral(parts, text) ==
    IF text = <<>> THEN parts ELSE Append(parts, Part("literal", text, <<>>))

\* The name and the requirement in front of and behind a colon
Opts(text) ==
    LET colons == {i \in DOMAIN text : text[i] = ":"}
        first  == Min(colons)
        next   == Min((colons \ {first}) \cup {Len(text) + 1})
    IN IF colons = {} THEN <<text, <<>>>>
       ELSE <<SubSeq(text, 1, first - 1), SubSeq(text, first + 1, next - 1)>>

\* The text between braces; `current[0]' raises IndexError on an empty one.
Braces(current) ==
    IF current = <<>> THEN Part("error", <<>>, <<>>)
    ELSE LET dot  == current[1] = "."
             opts == Opts(IF dot THEN Tail(current) ELSE current)
         IN Part(IF dot THEN "." ELSE ":", opts[1], opts[2])

Variable(s) ==
    IF s.var_type = "{" THEN Braces(s.current) ELSE Part(s.var_type, s.current, <<>>)

-----------------------------------------------------------------------------
(* tokenize: one step for a character *)

TokenStart ==
    [parts |-> <<>>, collecting |-> FALSE, just_started |-> FALSE,
     current |-> <<>>, done_on |-> {}, var_type |-> ""]

Collect(s, char) == [s EXCEPT !.current = Append(@, char)]

BeginVariable(s, char) ==
    [s EXCEPT !.parts = AppendLiteral(@, s.current),
              !.collecting = TRUE, !.just_started = char # "{", !.current = <<>>,
              !.var_type = char, !.done_on = IF char = "{" THEN {"}"} ELSE @]

BeginName(s, char) ==
    IF char = "(" THEN [s EXCEPT !.just_started = FALSE, !.done_on = {")"}]
    ELSE [s EXCEPT !.just_started = FALSE, !.current = <<char>>,
                   !.done_on = DoneChars \cup {"-"}]

\* A character that ends a variable is kept only if it is one of DoneChars.
EndVariable(s, char) ==
    [TokenStart EXCEPT
        !.parts = AppendLiteral(Append(s.parts, Variable(s)),
                                IF char \in DoneChars THEN <<char>> ELSE <<>>)]

Token(s, char) ==
    IF ~s.collecting
    THEN IF char \in {":", "*", "{"} THEN BeginVariable(s, char) ELSE Collect(s, char)
    ELSE IF s.just_started THEN BeginName(s, char)
    ELSE IF char \in s.done_on THEN EndVariable(s, char) ELSE Collect(s, char)

\* A brace that is not closed has no default (KeyError).
Tokenize(path) ==
    LET s == FoldLeft(Token, TokenStart, path)
    IN IF s.collecting
       THEN Append(s.parts, Part(IF s.var_type = "{" THEN "error" ELSE s.var_type,
                                 s.current, <<>>))
       ELSE AppendLiteral(s.parts, s.current)

Variables(pattern) == {i \in DOMAIN pattern : pattern[i].type # "literal"}

\* re.compile takes names of groups that are identifiers and differ.
Compiles(pattern) ==
    \A i \in Variables(pattern) :
        /\ pattern[i].type # "error"
        /\ pattern[i].name # <<>>
        /\ \A k \in DOMAIN pattern[i].name : pattern[i].name[k] \notin Special
        /\ \A j \in Variables(pattern) : (pattern[j].name = pattern[i].name) => (j = i)

-----------------------------------------------------------------------------
(* What the pattern matches *)

VariableMatches(part, text) ==
    IF part.var # <<>> THEN text = part.var
    ELSE /\ text # <<>>
         /\ (part.type # "*") => ~Contains(text, "/")
         /\ (part.type = ".") => ~Contains(text, ".")

PartMatches(part, text) ==
    CASE part.type = "literal" -> text = part.name
      [] part.type = "."       -> \/ text = <<>>
                                  \/ /\ Head(text) = "."
                                     /\ VariableMatches(part, Tail(text))
      [] OTHER                 -> VariableMatches(part, text)

\* The ways to cut a path into texts that match the parts, as the positions
\* where each of them ends.
Cuts(pattern, path) ==
    LET Extend(cuts, part) ==
            {Append(ck[1], ck[2]) : ck \in
                {ck \in cuts \X (0..Len(path)) :
                    /\ Last(ck[1]) <= ck[2]
                    /\ PartMatches(part, SubSeq(path, Last(ck[1]) + 1, ck[2]))}}
    IN {c \in FoldLeft(Extend, {<<0>>}, pattern) : Last(c) = Len(path)}

\* All quantifiers are lazy: the first variable gets as little as it can, then
\* the second.
Lazier(c, d) == c = d \/ \E i \in DOMAIN c : c[i] < d[i] /\ \A j \in 1..(i - 1) : c[j] = d[j]

LazyCuts(cuts) == {c \in cuts : \A d \in cuts : Lazier(c, d)}

\* groupdict(): the text of each variable; None is <<>>
Group(part, text) == IF part.type = "." /\ text # <<>> THEN Tail(text) ELSE text

GroupDict(pattern, path, c) ==
    [n \in {pattern[i].name : i \in Variables(pattern)} |->
        LET i == CHOOSE j \in Variables(pattern) : pattern[j].name = n
        IN Group(pattern[i], SubSeq(path, c[i] + 1, c[i + 1]))]

\* pattern.match(path).groupdict(), if it matches
Match(pattern, path) == {GroupDict(pattern, path, c) : c \in LazyCuts(Cuts(pattern, path))}
=============================================================================
