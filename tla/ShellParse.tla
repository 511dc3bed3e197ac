----------------------------- MODULE ShellParse -----------------------------
(***************************************************************************)
(* The parser of shell/src: parse.c, over the tokens of token.c.  A line   *)
(* is a sequence of the kinds of its tokens; "name" and "execute" are both *)
(* T_NAME, the latter standing for the words of "log execute n"; "redir"   *)
(* stands for <, > and >>.  The end of the line is T_EOF.                  *)
(*                                                                         *)
(* parse_atomic and parse_cmd_group return where they stopped, and what    *)
(* was parsed; a syntax error is the position 0.  That is what they do with *)
(* the lines that stay within their arrays (Fits), which they do not check. *)
(***************************************************************************)
EXTENDS Integers, Sequences, FiniteSets

CONSTANT ArrayMax    \* the elements of argv, atoms, groups and types: 32

ASSUME ParseAssumption == ArrayMax \in Nat \ {0}

TokenKinds == {"name", "execute", "redir", "pipe", "semi", "amp"}
SyntaxError == 0
IsName(token) == token \in {"name", "execute"}
peek(line, pos) == IF pos \in DOMAIN line THEN line[pos] ELSE "eof"

\* Past the arguments and redirections.
Trusting(line, start) ==                                                   \* bug
    LET More[p \in 1 .. Len(line) + 1] ==
          IF IsName(peek(line, p)) \/ peek(line, p) = "redir" THEN More[p + 1] ELSE p
    IN  IF IsName(peek(line, start)) THEN More[start + 1] ELSE SyntaxError

parse_atomic(line, start) ==
    LET More[p \in 1 .. Len(line) + 1] ==
          CASE IsName(peek(line, p)) -> More[p + 1]
            [] peek(line, p) = "redir" ->
                 IF IsName(peek(line, p + 1)) THEN More[p + 2] ELSE SyntaxError
            [] OTHER -> p
    IN  IF IsName(peek(line, start)) THEN More[start + 1] ELSE SyntaxError

\* The atoms are given by the positions of their names.
parse_cmd_group(line, start) ==
    LET Piped[p \in 1 .. Len(line) + 1] ==
          LET end == parse_atomic(line, p)
          IN  IF end # SyntaxError /\ peek(line, end) = "pipe"
              THEN [Piped[end + 1] EXCEPT !.atoms = <<p>> \o @]
              ELSE [end |-> end, atoms |-> <<p>>]
    IN  Piped[start]

\* groups, types, whether there was no error, and where it stopped.
Groups(line) ==
    LET Loop[p \in 1 .. Len(line) + 1] ==
          LET group == parse_cmd_group(line, p)
              sep == peek(line, group.end)
              last == [groups |-> <<group.atoms>>, types |-> <<sep>>,
                       ok |-> group.end # SyntaxError, end |-> group.end]
          IN  IF peek(line, p) = "eof"
              THEN [groups |-> <<>>, types |-> <<>>, ok |-> TRUE, end |-> p]
              ELSE IF last.ok /\ sep \in {"semi", "amp"}
              THEN [Loop[group.end + 1] EXCEPT !.groups = last.groups \o @, !.types = last.types \o @]
              ELSE last
    IN  Loop[1]

\* The number of groups up to the first &, or -1.
BackgroundUntil(types) ==
    IF \E k \in DOMAIN types : types[k] = "amp"
    THEN CHOOSE k \in DOMAIN types : types[k] = "amp" /\ \A j \in 1 .. k - 1 : types[j] # "amp"
    ELSE -1

parse_shell_cmd(line) ==
    LET parsed == Groups(line)
    IN  [groups |-> parsed.groups, types |-> parsed.types,
         bg_until |-> BackgroundUntil(parsed.types),
         trailing_amp |-> \E k \in DOMAIN parsed.types : parsed.types[k] = "amp",
         accepted |-> parsed.ok /\ peek(line, parsed.end) = "eof"]

-----------------------------------------------------------------------------
(* The lines that parse.c is to accept, said without a parser: what may    *)
(* follow what, and where the groups begin.  "name (name | redirection)*"  *)
(* (18) and "atomic ( '|' atomic )*" (80) are its comments' own; that ; and *)
(* & stand behind a group, between groups or at the end, is the code's.    *)
(* The comment at 140 would have "a & ; b" too, but "the next loop" that is *)
(* to consume the ; wants a name there (30).                               *)

Separators(line) == {p \in DOMAIN line : line[p] \in {"semi", "amp"}}

Grammatical(line) ==
    /\ line # <<>> => IsName(line[1])
    /\ \A p \in DOMAIN line :
         /\ line[p] \in {"pipe", "redir"} => IsName(peek(line, p + 1))
         /\ p \in Separators(line) => p = Len(line) \/ IsName(line[p + 1])

GroupStarts(line) == {p \in DOMAIN line : p = 1 \/ p - 1 \in Separators(line)}
GroupCount(line) == Cardinality(GroupStarts(line))

\* The groups before the first &, which is in the background, and those after it.
BackgroundCount(line) ==
    LET amps == {p \in DOMAIN line : line[p] = "amp"}
    IN  Cardinality({p \in Separators(line) : \E q \in amps : p <= q /\ \A r \in amps : q <= r})

\* A group begins where the parser found it and holds as many pipes as there are atoms.
SameGroups(line, groups) ==
    /\ Len(groups) = GroupCount(line)
    /\ \A k \in DOMAIN groups :
         /\ groups[k][1] \in GroupStarts(line)
         /\ \A j \in 2 .. Len(groups[k]) : line[groups[k][j] - 1] = "pipe"
    /\ \A p \in DOMAIN line :
         line[p] = "pipe" => \E k \in DOMAIN groups : \E j \in 2 .. Len(groups[k]) : groups[k][j] = p + 1

Among(line, a, b, kinds) == Cardinality({p \in a .. b : line[p] \in kinds})

\* The arrays hold the groups of the line, the atoms of a group, and the arguments of
\* an atom and the NULL behind them.  "execute" stands for three words; of the files,
\* those after the eighth are arguments (53), and here all of them count as such.
Fits(line) ==
    /\ GroupCount(line) <= ArrayMax
    /\ \A a, b \in DOMAIN line :
         /\ Among(line, a, b, {"semi", "amp"}) = 0 => Among(line, a, b, {"pipe"}) < ArrayMax
         /\ Among(line, a, b, {"semi", "amp", "pipe"}) = 0 =>
              Among(line, a, b, {"name", "execute"}) + 2 * Among(line, a, b, {"execute"}) < ArrayMax
=============================================================================
