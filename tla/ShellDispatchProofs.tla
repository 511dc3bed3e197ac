------------------------- MODULE ShellDispatchProofs -------------------------
(***************************************************************************)
(* Proofs about ShellDispatch and the parser it rests on, for lines of     *)
(* every length and any number of lines, replays and children.             *)
(***************************************************************************)
EXTENDS ShellDispatch, TLAPS, WellFoundedInduction, FiniteSetTheorems

-----------------------------------------------------------------------------
(* The parser works from the left to the right of a line, and what is said  *)
(* of it is shown from the right to the left.  Nothing in it depends on how  *)
(* long a line is: the lines that do not fit the arrays are not parsed here. *)

\* The greatest number of a set: the latest place where something fails.
LEMMA LastNumber ==
    ASSUME NEW N \in Nat, NEW T, T \subseteq 1 .. N, T # {}
    PROVE  \E n \in T : \A m \in T : m <= n
<1> DEFINE U == {N - m : m \in T}
<1>1. \A m \in T : N - m \in Nat
      OBVIOUS
<1>2. U \subseteq Nat /\ U # {}
      BY <1>1
<1>3. PICK u \in U : \A v \in U : <<v, u>> \notin OpToRel(<, Nat)
  <2> HIDE DEF U
  <2>   QED BY <1>2, WFMin, NatLessThanWellFounded, Zenon
<1>4. \A v \in U : ~(v < u)
  <2> HIDE DEF U
  <2>   QED BY <1>2, <1>3, Zenon DEF OpToRel
<1>5. PICK n \in T : u = N - n
      OBVIOUS
<1>6. ASSUME NEW m \in T PROVE m <= n
  <2>1. N - m \in U
        OBVIOUS
  <2>   QED BY <2>1, <1>4, <1>5
<1>   QED BY <1>6

\* What the grammar asks of the token at q, and a line that does not have it from s on.
WellPlaced(text, q) ==
    /\ text[q] \in {"pipe", "redir"} => IsName(peek(text, q + 1))
    /\ q \in Separators(text) => q = Len(text) \/ IsName(text[q + 1])
Broken(text, s) == \E q \in s .. Len(text) : ~WellPlaced(text, q)

\* One step of the recursion in parse_atomic.
MoreAt(text, m, p) ==
    CASE IsName(peek(text, p)) -> m[p + 1]
      [] peek(text, p) = "redir" -> IF IsName(peek(text, p + 1)) THEN m[p + 2] ELSE SyntaxError
      [] OTHER -> p

\* Past the arguments and redirections: to what can follow an atomic command, or to
\* an error if a redirection is not well placed.
ArgumentsEnd(text, p, e) ==
    \/ e = SyntaxError /\ Broken(text, p)
    \/ /\ e \in p .. Len(text) + 1 /\ peek(text, e) \in {"pipe", "semi", "amp", "eof"}
       /\ \A q \in p .. e - 1 : text[q] \in {"name", "execute", "redir"} /\ WellPlaced(text, q)

\* The same of an atomic command.
AtomicEnd(text, p, e) ==
    \/ e = SyntaxError /\ (~IsName(peek(text, p)) \/ Broken(text, p))
    \/ /\ e \in p + 1 .. Len(text) + 1 /\ peek(text, e) \in {"pipe", "semi", "amp", "eof"}
       /\ IsName(peek(text, p))
       /\ \A q \in p .. e - 1 : text[q] \in {"name", "execute", "redir"} /\ WellPlaced(text, q)

\* The end of a line is its only end.
LEMMA Peeked ==
    ASSUME NEW text \in Seq(TokenKinds), NEW p \in 1 .. Len(text) + 1
    PROVE  /\ p = Len(text) + 1 => peek(text, p) = "eof"
           /\ p \in 1 .. Len(text) => peek(text, p) = text[p] /\ text[p] \in TokenKinds
           /\ peek(text, p) = "eof" => p = Len(text) + 1
<1>1. DOMAIN text = 1 .. Len(text) /\ Len(text) \in Nat
      OBVIOUS
<1>2. p \in 1 .. Len(text) => text[p] \in TokenKinds
      OBVIOUS
<1>   QED BY <1>1, <1>2 DEF peek, TokenKinds

\* The recursion of parse_atomic has a solution.
LEMMA MoreUnfold ==
    ASSUME NEW text \in Seq(TokenKinds)
    PROVE  \E m : m = [p \in 1 .. Len(text) + 1 |-> MoreAt(text, m, p)]
<1> DEFINE E == Len(text) + 1
           From(m, p) == \A q \in p .. E : m[q] = MoreAt(text, m, q)
           Bad == {p \in 1 .. E : ~ \E m : From(m, p)}
<1>0. E \in Nat \ {0}
      OBVIOUS
<1>1. ASSUME NEW p \in 1 .. E, NEW m, p < E => From(m, p + 1) PROVE \E n : From(n, p)
  <2> DEFINE n == [q \in 1 .. E |-> IF q = p THEN MoreAt(text, m, p) ELSE m[q]]
  <2>1. ASSUME NEW q \in p .. E PROVE n[q] = MoreAt(text, n, q)
    <3>1. /\ IsName(peek(text, q)) => q + 1 \in q + 1 .. E
          /\ peek(text, q) = "redir" /\ IsName(peek(text, q + 1)) => q + 1 \in q + 1 .. E /\ q + 2 \in q + 1 .. E
      <4>1. q = E => peek(text, q) = "eof"
            BY Peeked
      <4>2. q + 1 = E => peek(text, q + 1) = "eof"
            BY Peeked
      <4>   QED BY <4>1, <4>2 DEF IsName
    <3>2. MoreAt(text, n, q) = MoreAt(text, m, q)
      <4>1. \A k \in q + 1 .. E : n[k] = m[k]
            OBVIOUS
      <4> HIDE DEF n
      <4>2. /\ IsName(peek(text, q)) => n[q + 1] = m[q + 1]
            /\ peek(text, q) = "redir" /\ IsName(peek(text, q + 1)) => n[q + 2] = m[q + 2]
            BY <3>1, <4>1
      <4>   QED BY <4>2, Zenon DEF MoreAt
    <3>3. n[q] = IF q = p THEN MoreAt(text, m, p) ELSE m[q]
          BY <1>0
    <3>4. q # p => m[q] = MoreAt(text, m, q)
      <4>1. q # p => p < E /\ q \in p + 1 .. E
            BY <1>0
      <4>   QED BY <4>1, <1>1
    <3> HIDE DEF n
    <3>   QED BY <3>2, <3>3, <3>4
  <2>2. From(n, p)
        BY <2>1
  <2>   QED BY <2>2
<1> HIDE DEF From
<1>2. Bad = {}
  <2> SUFFICES ASSUME Bad # {} PROVE FALSE
      OBVIOUS
  <2>1. PICK p \in Bad : \A q \in Bad : q <= p
        BY <1>0, LastNumber
  <2>2. p < E => \E m : From(m, p + 1)
    <3>1. p < E => p + 1 \in 1 .. E /\ p + 1 \notin Bad
          BY <1>0, <2>1
    <3>   QED BY <3>1
  <2>   QED BY <2>1, <2>2, <1>1
<1>3. PICK m : From(m, 1)
  <2>1. 1 \in 1 .. E /\ 1 \notin Bad
        BY <1>0, <1>2
  <2>   QED BY <2>1
<1> DEFINE f == [p \in 1 .. E |-> m[p]]
<1>4. ASSUME NEW q \in 1 .. E PROVE f[q] = MoreAt(text, f, q)
  <2>1. /\ IsName(peek(text, q)) => q + 1 \in 1 .. E
        /\ peek(text, q) = "redir" /\ IsName(peek(text, q + 1)) => q + 1 \in 1 .. E /\ q + 2 \in 1 .. E
    <3>1. q = E => peek(text, q) = "eof"
          BY Peeked
    <3>2. q + 1 = E => peek(text, q + 1) = "eof"
          BY Peeked
    <3>   QED BY <3>1, <3>2 DEF IsName
  <2>2. MoreAt(text, f, q) = MoreAt(text, m, q)
    <3>1. \A k \in 1 .. E : f[k] = m[k]
          OBVIOUS
    <3> HIDE DEF f
    <3>2. /\ IsName(peek(text, q)) => f[q + 1] = m[q + 1]
          /\ peek(text, q) = "redir" /\ IsName(peek(text, q + 1)) => f[q + 2] = m[q + 2]
          BY <2>1, <3>1
    <3>   QED BY <3>2, Zenon DEF MoreAt
  <2>   QED BY <2>2, <1>3 DEF From
<1>5. f = [p \in 1 .. E |-> MoreAt(text, f, p)]
  <2>1. f = [p \in 1 .. E |-> f[p]]
        OBVIOUS
  <2> HIDE DEF f
  <2>   QED BY <2>1, <1>4, Zenon
<1>   QED BY <1>5

\* parse_atomic ends where it must.
LEMMA AtomicParsed ==
    ASSUME NEW text \in Seq(TokenKinds), NEW s \in 1 .. Len(text) + 1
    PROVE  AtomicEnd(text, s, parse_atomic(text, s))
<1> DEFINE E == Len(text) + 1
           Solves(m) == m = [p \in 1 .. E |-> MoreAt(text, m, p)]
           f == CHOOSE m : Solves(m)
<1>0. E \in Nat \ {0}
      OBVIOUS
<1>1. parse_atomic(text, s) = IF IsName(peek(text, s)) THEN f[s + 1] ELSE SyntaxError
      BY DEF parse_atomic, MoreAt
<1>2. \A p \in 1 .. E : f[p] = MoreAt(text, f, p)
  <2>1. \E m : Solves(m)
        BY MoreUnfold
  <2> HIDE DEF Solves
  <2>2. Solves(f)
        BY <2>1
  <2>   QED BY <2>2 DEF Solves
<1> HIDE DEF f
<1>3. ASSUME NEW p \in 1 .. E, \A q \in p + 1 .. E : ArgumentsEnd(text, q, f[q])
      PROVE  ArgumentsEnd(text, p, f[p])
  <2>1. p = E => peek(text, p) = "eof"
        BY Peeked
  <2>2. p \in 1 .. Len(text) => peek(text, p) = text[p] /\ text[p] \in TokenKinds
        BY Peeked
  <2>3. CASE IsName(peek(text, p))
    <3>1. p \in 1 .. Len(text) /\ p + 1 \in p + 1 .. E /\ f[p] = f[p + 1] /\ text[p] \in {"name", "execute"}
          BY <1>0, <1>2, <2>1, <2>2, <2>3 DEF IsName, MoreAt
    <3>2. WellPlaced(text, p)
          BY <3>1 DEF WellPlaced, Separators
    <3>3. ArgumentsEnd(text, p + 1, f[p])
          BY <3>1, <1>3
    <3>   QED BY <3>1, <3>2, <3>3 DEF ArgumentsEnd, Broken
  <2>4. CASE peek(text, p) = "redir" /\ IsName(peek(text, p + 1))
    <3>0. p \in 1 .. Len(text)
          BY <1>0, <2>1, <2>4
    <3>1. p + 1 = E => peek(text, p + 1) = "eof"
          BY <3>0, Peeked
    <3>2. p + 1 \in 1 .. Len(text) => peek(text, p + 1) = text[p + 1]
          BY <3>0, Peeked
    <3>3. p + 1 \in 1 .. Len(text) /\ p + 2 \in p + 1 .. E /\ f[p] = f[p + 2] /\ text[p] = "redir"
          /\ text[p + 1] \in {"name", "execute"}
      <4>1. p + 1 # E
            BY <3>1, <2>4 DEF IsName
      <4>2. p + 1 \in 1 .. Len(text) /\ p + 2 \in p + 1 .. E
            BY <4>1, <3>0
      <4>3. ~IsName(peek(text, p)) /\ f[p] = f[p + 2]
            BY <1>2, <2>4 DEF IsName, MoreAt
      <4>   QED BY <4>2, <4>3, <3>0, <3>2, <2>2, <2>4 DEF IsName
    <3>4. WellPlaced(text, p) /\ WellPlaced(text, p + 1)
          BY <3>3, <2>4 DEF WellPlaced, Separators
    <3>5. ArgumentsEnd(text, p + 2, f[p])
          BY <3>3, <1>3
    <3>   QED BY <3>0, <3>3, <3>4, <3>5 DEF ArgumentsEnd, Broken
  <2>5. CASE peek(text, p) = "redir" /\ ~IsName(peek(text, p + 1))
    <3>1. p \in 1 .. Len(text) /\ text[p] = "redir"
          BY <1>0, <2>1, <2>2, <2>5
    <3>2. f[p] = SyntaxError
          BY <1>2, <2>5 DEF IsName, MoreAt
    <3>3. ~WellPlaced(text, p)
          BY <3>1, <2>5 DEF WellPlaced
    <3>   QED BY <3>1, <3>2, <3>3 DEF ArgumentsEnd, Broken
  <2>6. CASE ~IsName(peek(text, p)) /\ peek(text, p) # "redir"
    <3>1. f[p] = p
          BY <1>2, <2>6 DEF MoreAt
    <3>2. peek(text, p) \in {"pipe", "semi", "amp", "eof"}
          BY <1>0, <2>1, <2>2, <2>6 DEF IsName, TokenKinds
    <3>   QED BY <3>1, <3>2 DEF ArgumentsEnd
  <2>   QED BY <2>3, <2>4, <2>5, <2>6
<1>4. \A p \in 1 .. E : ArgumentsEnd(text, p, f[p])
  <2> DEFINE Bad == {p \in 1 .. E : ~ArgumentsEnd(text, p, f[p])}
  <2> SUFFICES ASSUME Bad # {} PROVE FALSE
      OBVIOUS
  <2>1. PICK p \in Bad : \A q \in Bad : q <= p
        BY <1>0, LastNumber
  <2>2. \A q \in p + 1 .. E : ArgumentsEnd(text, q, f[q])
        BY <1>0, <2>1
  <2>   QED BY <2>1, <2>2, <1>3
<1>5. CASE ~IsName(peek(text, s))
      BY <1>1, <1>5 DEF AtomicEnd
<1>6. CASE IsName(peek(text, s))
  <2>1. s \in 1 .. Len(text) /\ text[s] \in {"name", "execute"}
        BY <1>6, <1>0, Peeked DEF IsName
  <2>2. WellPlaced(text, s)
        BY <2>1 DEF WellPlaced, Separators
  <2>3. ArgumentsEnd(text, s + 1, f[s + 1])
        BY <2>1, <1>4
  <2>4. parse_atomic(text, s) = f[s + 1]
        BY <1>1, <1>6
  <2>   QED BY <1>6, <2>1, <2>2, <2>3, <2>4 DEF ArgumentsEnd, AtomicEnd, Broken
<1>   QED BY <1>5, <1>6

\* One step of the recursion in parse_cmd_group.
PipedAt(text, m, p) ==
    LET end == parse_atomic(text, p)
    IN  IF end # SyntaxError /\ peek(text, end) = "pipe"
        THEN [m[end + 1] EXCEPT !.atoms = <<p>> \o @]
        ELSE [end |-> end, atoms |-> <<p>>]

\* A group goes to a separator or to the end of the line, and its atoms are where it
\* begins and behind its pipes.
Atoms(text, p, e, atoms) ==
    /\ atoms # <<>> /\ atoms[1] = p
    /\ \A j \in 2 .. Len(atoms) : atoms[j] - 1 \in p .. e - 1 /\ text[atoms[j] - 1] = "pipe"
    /\ \A q \in p .. e - 1 : text[q] = "pipe" => \E j \in 2 .. Len(atoms) : atoms[j] = q + 1

GroupEnd(text, p, r) ==
    /\ r \in [end : 0 .. Len(text) + 1, atoms : Seq(1 .. Len(text) + 1)]
    /\ \/ r.end = SyntaxError /\ (~IsName(peek(text, p)) \/ Broken(text, p))
       \/ /\ r.end \in p + 1 .. Len(text) + 1 /\ peek(text, r.end) \in {"semi", "amp", "eof"}
          /\ IsName(peek(text, p))
          /\ \A q \in p .. r.end - 1 : WellPlaced(text, q) /\ q \notin Separators(text)
          /\ Atoms(text, p, r.end, r.atoms)

\* Where the recursion goes on from p is behind p.
LEMMA PipeAhead ==
    ASSUME NEW text \in Seq(TokenKinds), NEW p \in 1 .. Len(text) + 1,
           parse_atomic(text, p) # SyntaxError, peek(text, parse_atomic(text, p)) = "pipe"
    PROVE  /\ parse_atomic(text, p) \in p + 1 .. Len(text)
           /\ parse_atomic(text, p) + 1 \in p + 1 .. Len(text) + 1
<1> DEFINE e == parse_atomic(text, p)
<1>1. e \in p + 1 .. Len(text) + 1
      BY AtomicParsed DEF AtomicEnd
<1>2. e # Len(text) + 1
  <2> HIDE DEF e
  <2>1. e = Len(text) + 1 => peek(text, e) = "eof"
        BY <1>1, Peeked
  <2>   QED BY <2>1 DEF e
<1> HIDE DEF e
<1>3. e \in p + 1 .. Len(text) /\ e + 1 \in p + 1 .. Len(text) + 1
      BY <1>1, <1>2
<1>   QED BY <1>3 DEF e

\* The recursion of parse_cmd_group has a solution.
LEMMA PipedUnfold ==
    ASSUME NEW text \in Seq(TokenKinds)
    PROVE  \E m : m = [p \in 1 .. Len(text) + 1 |-> PipedAt(text, m, p)]
<1> DEFINE E == Len(text) + 1
           From(m, p) == \A q \in p .. E : m[q] = PipedAt(text, m, q)
           Bad == {p \in 1 .. E : ~ \E m : From(m, p)}
<1>0. E \in Nat \ {0}
      OBVIOUS
<1>a. ASSUME NEW q \in 1 .. E, NEW m, NEW n, \A k \in q + 1 .. E : n[k] = m[k]
      PROVE  PipedAt(text, n, q) = PipedAt(text, m, q)
  <2> DEFINE e == parse_atomic(text, q)
  <2>1. e # SyntaxError /\ peek(text, e) = "pipe" => e + 1 \in q + 1 .. E
        BY PipeAhead
  <2>2. e # SyntaxError /\ peek(text, e) = "pipe" => n[e + 1] = m[e + 1]
        BY <1>a, <2>1
  <2>   QED BY <2>2, Zenon DEF PipedAt
<1>1. ASSUME NEW p \in 1 .. E, NEW m, p < E => From(m, p + 1) PROVE \E n : From(n, p)
  <2> DEFINE n == [q \in 1 .. E |-> IF q = p THEN PipedAt(text, m, p) ELSE m[q]]
  <2>1. ASSUME NEW q \in p .. E PROVE n[q] = PipedAt(text, n, q)
    <3>1. PipedAt(text, n, q) = PipedAt(text, m, q)
      <4>1. \A k \in q + 1 .. E : n[k] = m[k]
            OBVIOUS
      <4>2. q \in 1 .. E
            BY <1>0
      <4> HIDE DEF n
      <4>   QED BY <4>1, <4>2, <1>a
    <3>2. n[q] = IF q = p THEN PipedAt(text, m, p) ELSE m[q]
          BY <1>0
    <3>3. q # p => m[q] = PipedAt(text, m, q)
      <4>1. q # p => p < E /\ q \in p + 1 .. E
            BY <1>0
      <4>   QED BY <4>1, <1>1
    <3> HIDE DEF n
    <3>   QED BY <3>1, <3>2, <3>3
  <2>2. From(n, p)
        BY <2>1
  <2>   QED BY <2>2
<1> HIDE DEF From
<1>2. Bad = {}
  <2> SUFFICES ASSUME Bad # {} PROVE FALSE
      OBVIOUS
  <2>1. PICK p \in Bad : \A q \in Bad : q <= p
        BY <1>0, LastNumber
  <2>2. p < E => \E m : From(m, p + 1)
    <3>1. p < E => p + 1 \in 1 .. E /\ p + 1 \notin Bad
          BY <1>0, <2>1
    <3>   QED BY <3>1
  <2>   QED BY <2>1, <2>2, <1>1
<1>3. PICK m : From(m, 1)
  <2>1. 1 \in 1 .. E /\ 1 \notin Bad
        BY <1>0, <1>2
  <2>   QED BY <2>1
<1> DEFINE f == [p \in 1 .. E |-> m[p]]
<1>4. ASSUME NEW q \in 1 .. E PROVE f[q] = PipedAt(text, f, q)
  <2>1. \A k \in q + 1 .. E : f[k] = m[k]
        OBVIOUS
  <2>2. f[q] = m[q]
        OBVIOUS
  <2> HIDE DEF f
  <2>   QED BY <2>1, <2>2, <1>3, <1>a DEF From
<1>5. f = [p \in 1 .. E |-> PipedAt(text, f, p)]
  <2>1. f = [p \in 1 .. E |-> f[p]]
        OBVIOUS
  <2> HIDE DEF f
  <2>   QED BY <2>1, <1>4, Zenon
<1>   QED BY <1>5

\* Behind a pipe comes the rest of the group.
LEMMA PipedGroup ==
    ASSUME NEW text \in Seq(TokenKinds), NEW p \in 1 .. Len(text), NEW e \in p + 1 .. Len(text),
           AtomicEnd(text, p, e), text[e] = "pipe", NEW rest, GroupEnd(text, e + 1, rest)
    PROVE  GroupEnd(text, p, [end |-> rest.end, atoms |-> <<p>> \o rest.atoms])
<1> DEFINE E == Len(text) + 1
           atoms == <<p>> \o rest.atoms
           r == [end |-> rest.end, atoms |-> atoms]
<1>0. E \in Nat /\ rest.end \in 0 .. E /\ rest.atoms \in Seq(1 .. E) /\ SyntaxError = 0
      BY DEF GroupEnd, SyntaxError
<1>1. /\ atoms \in Seq(1 .. E) /\ Len(atoms) = 1 + Len(rest.atoms) /\ atoms[1] = p
      /\ \A j \in 2 .. Len(atoms) : atoms[j] = rest.atoms[j - 1]
      BY <1>0
<1>2. /\ IsName(peek(text, p))
      /\ \A q \in p .. e - 1 : text[q] \in {"name", "execute", "redir"} /\ WellPlaced(text, q)
      BY <1>0 DEF AtomicEnd
<1> HIDE DEF atoms
<1>3. r \in [end : 0 .. E, atoms : Seq(1 .. E)] /\ r.end = rest.end /\ r.atoms = atoms
      BY <1>0, <1>1
<1>4. CASE rest.end = SyntaxError
  <2>1. ~IsName(peek(text, e + 1)) \/ Broken(text, e + 1)
        BY <1>0, <1>4 DEF GroupEnd
  <2>2. Broken(text, p)
        BY <2>1, <1>0 DEF Broken, WellPlaced
  <2> HIDE DEF r
  <2>3. GroupEnd(text, p, r)
        BY <1>3, <1>4, <2>2 DEF GroupEnd
  <2>   QED BY <2>3 DEF r, atoms
<1>5. CASE rest.end # SyntaxError
  <2>1. /\ rest.end \in e + 2 .. E /\ peek(text, rest.end) \in {"semi", "amp", "eof"}
        /\ IsName(peek(text, e + 1))
        /\ \A q \in e + 1 .. rest.end - 1 : WellPlaced(text, q) /\ q \notin Separators(text)
        /\ Atoms(text, e + 1, rest.end, rest.atoms)
        BY <1>5, <1>0 DEF GroupEnd
  <2>2. WellPlaced(text, e) /\ e \notin Separators(text)
        BY <2>1 DEF WellPlaced, Separators
  <2>3. ASSUME NEW q \in p .. rest.end - 1 PROVE WellPlaced(text, q) /\ q \notin Separators(text)
    <3>1. q \in p .. e - 1 \/ q = e \/ q \in e + 1 .. rest.end - 1
          BY <2>1
    <3>2. q \in p .. e - 1 => WellPlaced(text, q) /\ q \notin Separators(text)
          BY <1>2 DEF Separators
    <3>   QED BY <3>1, <3>2, <2>1, <2>2
  <2>4. Atoms(text, p, rest.end, atoms)
    <3>1. /\ rest.atoms # <<>> /\ rest.atoms[1] = e + 1
          /\ \A j \in 2 .. Len(rest.atoms) :
               rest.atoms[j] - 1 \in e + 1 .. rest.end - 1 /\ text[rest.atoms[j] - 1] = "pipe"
          /\ \A q \in e + 1 .. rest.end - 1 : text[q] = "pipe" => \E j \in 2 .. Len(rest.atoms) : rest.atoms[j] = q + 1
          BY <2>1 DEF Atoms
    <3>2. Len(rest.atoms) \in Nat \ {0}
          BY <1>0, <3>1
    <3>3. ASSUME NEW j \in 2 .. Len(atoms)
          PROVE  atoms[j] - 1 \in p .. rest.end - 1 /\ text[atoms[j] - 1] = "pipe"
      <4>1. atoms[j] = rest.atoms[j - 1]
            BY <1>1
      <4>2. CASE j = 2
        <5>1. atoms[j] = e + 1 /\ (e + 1) - 1 = e
              BY <4>1, <4>2, <3>1
        <5>   QED BY <5>1, <2>1
      <4>3. CASE j # 2
        <5>1. j - 1 \in 2 .. Len(rest.atoms)
              BY <4>3, <3>2, <1>1
        <5>   QED BY <5>1, <4>1, <3>1
      <4>   QED BY <4>2, <4>3
    <3>4. ASSUME NEW q \in p .. rest.end - 1, text[q] = "pipe"
          PROVE  \E j \in 2 .. Len(atoms) : atoms[j] = q + 1
      <4>1. q = e \/ q \in e + 1 .. rest.end - 1
            BY <3>4, <2>1, <1>2
      <4>2. CASE q = e
        <5>1. 2 \in 2 .. Len(atoms) /\ atoms[2] = rest.atoms[1]
              BY <1>1, <3>2
        <5>   QED BY <5>1, <4>2, <3>1
      <4>3. CASE q \in e + 1 .. rest.end - 1
        <5>1. PICK j \in 2 .. Len(rest.atoms) : rest.atoms[j] = q + 1
              BY <4>3, <3>1, <3>4
        <5>a. Len(atoms) = 1 + Len(rest.atoms) /\ Len(rest.atoms) \in Nat
              BY <1>1, <3>2
        <5>2. j + 1 \in 2 .. Len(atoms) /\ (j + 1) - 1 = j
              BY <5>a
        <5>3. atoms[j + 1] = rest.atoms[j]
              BY <1>1, <5>2
        <5>   QED BY <5>1, <5>2, <5>3
      <4>   QED BY <4>1, <4>2, <4>3
    <3>5. atoms # <<>>
          BY <1>1, <3>2
    <3>   QED BY <1>1, <3>3, <3>4, <3>5 DEF Atoms
  <2>5. rest.end \in p + 1 .. E
        BY <2>1
  <2> HIDE DEF r
  <2>6. GroupEnd(text, p, r)
        BY <1>2, <1>3, <2>1, <2>3, <2>4, <2>5 DEF GroupEnd
  <2>   QED BY <2>6 DEF r, atoms
<1>   QED BY <1>4, <1>5

\* parse_cmd_group ends where it must, with the atoms of the group.
LEMMA GroupParsed ==
    ASSUME NEW text \in Seq(TokenKinds), NEW s \in 1 .. Len(text) + 1
    PROVE  GroupEnd(text, s, parse_cmd_group(text, s))
<1> DEFINE E == Len(text) + 1
           Solves(m) == m = [p \in 1 .. E |-> PipedAt(text, m, p)]
           f == CHOOSE m : Solves(m)
<1>0. E \in Nat \ {0}
      OBVIOUS
<1>1. parse_cmd_group(text, s) = f[s]
      BY DEF parse_cmd_group, PipedAt
<1>2. \A p \in 1 .. E : f[p] = PipedAt(text, f, p)
  <2>1. \E m : Solves(m)
        BY PipedUnfold
  <2> HIDE DEF Solves
  <2>2. Solves(f)
        BY <2>1
  <2>   QED BY <2>2 DEF Solves
<1> HIDE DEF f
<1>3. ASSUME NEW p \in 1 .. E, \A q \in p + 1 .. E : GroupEnd(text, q, f[q])
      PROVE  GroupEnd(text, p, f[p])
  <2> DEFINE e == parse_atomic(text, p)
  <2>1. AtomicEnd(text, p, e)
        BY AtomicParsed
  <2>2. CASE e # SyntaxError /\ peek(text, e) = "pipe"
    <3>1. e \in p + 1 .. Len(text) /\ e + 1 \in p + 1 .. E
          BY <2>2, PipeAhead
    <3>2. GroupEnd(text, e + 1, f[e + 1])
          BY <3>1, <1>3
    <3>3. f[p] = [f[e + 1] EXCEPT !.atoms = <<p>> \o @]
          BY <1>2, <2>2 DEF PipedAt
    <3> HIDE DEF e
    <3>4. text[e] = "pipe" /\ p \in 1 .. Len(text)
      <4>1. e \in 1 .. Len(text) + 1 /\ e \in 1 .. Len(text)
            BY <3>1
      <4>2. peek(text, e) = text[e]
            BY <4>1, Peeked
      <4>   QED BY <2>2, <3>1, <4>2
    <3>5. f[p] = [end |-> f[e + 1].end, atoms |-> <<p>> \o f[e + 1].atoms]
          BY <3>2, <3>3 DEF GroupEnd
    <3>6. GroupEnd(text, p, [end |-> f[e + 1].end, atoms |-> <<p>> \o f[e + 1].atoms])
          BY <3>1, <3>2, <3>4, <2>1, PipedGroup
    <3>   QED BY <3>5, <3>6
  <2>3. CASE ~(e # SyntaxError /\ peek(text, e) = "pipe")
    <3>1. f[p] = [end |-> e, atoms |-> <<p>>]
          BY <1>2, <2>3 DEF PipedAt
    <3> HIDE DEF e
    <3>2. e \in 0 .. E
          BY <2>1 DEF AtomicEnd, SyntaxError
    <3>3. <<p>> \in Seq(1 .. E) /\ <<p>> # <<>> /\ Len(<<p>>) = 1 /\ <<p>>[1] = p
          OBVIOUS
    <3>4. f[p] \in [end : 0 .. E, atoms : Seq(1 .. E)] /\ f[p].end = e /\ f[p].atoms = <<p>>
          BY <3>1, <3>2, <3>3
    <3>5. CASE e = SyntaxError
          BY <3>4, <3>5, <2>1 DEF GroupEnd, AtomicEnd, SyntaxError
    <3>6. CASE e # SyntaxError
      <4>1. /\ e \in p + 1 .. E /\ peek(text, e) \in {"semi", "amp", "eof"} /\ IsName(peek(text, p))
            /\ \A q \in p .. e - 1 : text[q] \in {"name", "execute", "redir"} /\ WellPlaced(text, q)
            BY <3>6, <2>1, <2>3 DEF AtomicEnd
      <4>2. \A q \in p .. e - 1 : q \notin Separators(text)
            BY <4>1 DEF Separators
      <4>3. Atoms(text, p, e, <<p>>)
            BY <3>3, <4>1 DEF Atoms
      <4>   QED BY <3>4, <4>1, <4>2, <4>3 DEF GroupEnd
    <3>   QED BY <3>5, <3>6
  <2>   QED BY <2>2, <2>3
<1>4. \A p \in 1 .. E : GroupEnd(text, p, f[p])
  <2> DEFINE Bad == {p \in 1 .. E : ~GroupEnd(text, p, f[p])}
  <2> SUFFICES ASSUME Bad # {} PROVE FALSE
      OBVIOUS
  <2>1. PICK p \in Bad : \A q \in Bad : q <= p
        BY <1>0, LastNumber
  <2>2. \A q \in p + 1 .. E : GroupEnd(text, q, f[q])
        BY <1>0, <2>1
  <2>   QED BY <2>1, <2>2, <1>3
<1>   QED BY <1>1, <1>4

\* One step of the loop in parse_shell_cmd.
LoopAt(text, m, p) ==
    LET group == parse_cmd_group(text, p)
        sep == peek(text, group.end)
        last == [groups |-> <<group.atoms>>, types |-> <<sep>>,
                 ok |-> group.end # SyntaxError, end |-> group.end]
    IN  IF peek(text, p) = "eof"
        THEN [groups |-> <<>>, types |-> <<>>, ok |-> TRUE, end |-> p]
        ELSE IF last.ok /\ sep \in {"semi", "amp"}
        THEN [m[group.end + 1] EXCEPT !.groups = last.groups \o @, !.types = last.types \o @]
        ELSE last

\* Where the groups end that the loop finds from p on: at every separator, and at the
\* end of the line.
Begin(p, ends, k) == IF k = 1 THEN p ELSE ends[k - 1] + 1
Cut(text, p, r, ends) ==
    /\ ends \in Seq(p .. Len(text) + 1) /\ Len(ends) = Len(r.groups) /\ Len(ends) = Len(r.types)
    /\ p <= Len(text) => ends # <<>> /\ ends[Len(ends)] >= Len(text)
    /\ \A k \in 1 .. Len(ends) :
         /\ r.types[k] = peek(text, ends[k]) /\ r.types[k] \in {"semi", "amp", "eof"}
         /\ Begin(p, ends, k) \in p .. ends[k] - 1
         /\ r.groups[k] \in Seq(1 .. Len(text) + 1)
         /\ Atoms(text, Begin(p, ends, k), ends[k], r.groups[k])
    /\ \A q \in p .. Len(text) : q \in Separators(text) => \E k \in 1 .. Len(ends) : ends[k] = q
    /\ \A q \in p .. Len(text) : text[q] = "pipe" =>
         \E k \in 1 .. Len(ends) : \E j \in 2 .. Len(r.groups[k]) : r.groups[k][j] = q + 1

\* The loop accepts the rest of the line if it is well placed, and finds its groups.
LoopEnd(text, p, r) ==
    /\ DOMAIN r = {"groups", "types", "ok", "end"}
    /\ r = [groups |-> r.groups, types |-> r.types, ok |-> r.ok, end |-> r.end]
    /\ r.groups \in Seq(Seq(1 .. Len(text) + 1)) /\ r.types \in Seq({"eof"} \cup TokenKinds)
    /\ r.ok /\ peek(text, r.end) = "eof" <=>
         ~Broken(text, p) /\ (p = Len(text) + 1 \/ IsName(peek(text, p)))
    /\ r.ok /\ peek(text, r.end) = "eof" => \E ends : Cut(text, p, r, ends)

\* One more at the front of a list.
LEMMA Prepended ==
    ASSUME NEW S, NEW x \in S, NEW s \in Seq(S)
    PROVE  /\ <<x>> \o s \in Seq(S) /\ Len(<<x>> \o s) = 1 + Len(s) /\ (<<x>> \o s)[1] = x
           /\ \A k \in 2 .. 1 + Len(s) : (<<x>> \o s)[k] = s[k - 1]
OBVIOUS

\* Behind a separator comes the rest of the line.
LEMMA CutThere ==
    ASSUME NEW text \in Seq(TokenKinds), NEW p \in 1 .. Len(text), NEW g, GroupEnd(text, p, g),
           NEW e \in p + 1 .. Len(text), g.end = e, text[e] \in {"semi", "amp"},
           NEW rest, LoopEnd(text, e + 1, rest), NEW tail, Cut(text, e + 1, rest, tail)
    PROVE  Cut(text, p, [groups |-> <<g.atoms>> \o rest.groups, types |-> <<text[e]>> \o rest.types,
                         ok |-> rest.ok, end |-> rest.end], <<e>> \o tail)
<1> DEFINE E == Len(text) + 1
           ends == <<e>> \o tail
           groups == <<g.atoms>> \o rest.groups
           types == <<text[e]>> \o rest.types
           r == [groups |-> groups, types |-> types, ok |-> rest.ok, end |-> rest.end]
<1>0. /\ E \in Nat /\ tail \in Seq(e + 1 .. E) /\ Len(tail) \in Nat
      /\ Len(tail) = Len(rest.groups) /\ Len(tail) = Len(rest.types)
      /\ rest.groups \in Seq(Seq(1 .. E)) /\ rest.types \in Seq({"eof"} \cup TokenKinds)
      /\ g.atoms \in Seq(1 .. E) /\ text[e] \in TokenKinds
      BY DEF Cut, LoopEnd, GroupEnd
<1>1. /\ ends \in Seq(p .. E) /\ Len(ends) = 1 + Len(tail) /\ ends[1] = e
      /\ \A k \in 2 .. Len(ends) : ends[k] = tail[k - 1]
  <2>1. <<e>> \in Seq(p .. E) /\ tail \in Seq(p .. E)
    <3>1. e + 1 .. E \subseteq p .. E
          OBVIOUS
    <3>   QED BY <1>0, <3>1
  <2>2. Len(ends) = 1 + Len(tail) /\ ends[1] = e /\ \A k \in 2 .. Len(ends) : ends[k] = tail[k - 1]
        BY <1>0
  <2>   QED BY <2>1, <2>2
<1>2. /\ Len(groups) = 1 + Len(rest.groups) /\ groups[1] = g.atoms
      /\ \A k \in 2 .. Len(groups) : groups[k] = rest.groups[k - 1]
  <2> DEFINE S == Seq(1 .. E)
             x == g.atoms
             s == rest.groups
  <2>1. x \in S /\ s \in Seq(S)
        BY <1>0
  <2> HIDE DEF S, x, s
  <2>2. Len(<<x>> \o s) = 1 + Len(s) /\ (<<x>> \o s)[1] = x /\ \A k \in 2 .. 1 + Len(s) : (<<x>> \o s)[k] = s[k - 1]
        BY <2>1, Prepended
  <2>   QED BY <2>2 DEF x, s
<1>3. /\ Len(types) = 1 + Len(rest.types) /\ types[1] = text[e]
      /\ \A k \in 2 .. Len(types) : types[k] = rest.types[k - 1]
      BY <1>0
<1>4. r.groups = groups /\ r.types = types
      OBVIOUS
<1> HIDE DEF ends, groups, types, r
<1>5. Len(ends) = Len(groups) /\ Len(ends) = Len(types) /\ Len(ends) \in Nat \ {0}
  <2>1. Len(ends) = 1 + Len(tail) /\ Len(groups) = 1 + Len(rest.groups) /\ Len(types) = 1 + Len(rest.types)
        BY <1>1, <1>2, <1>3
  <2>2. Len(tail) = Len(rest.groups) /\ Len(tail) = Len(rest.types) /\ Len(tail) \in Nat
        BY <1>0
  <2>   QED BY <2>1, <2>2
<1>6. \A k \in 2 .. Len(ends) : k - 1 \in 1 .. Len(tail)
      BY <1>0, <1>1
<1>7. \A k \in 1 .. Len(tail) : k + 1 \in 2 .. Len(ends) /\ (k + 1) - 1 = k
      BY <1>0, <1>1
<1>8. ends # <<>> /\ ends[Len(ends)] >= Len(text)
  <2>1. CASE e = Len(text)
    <3>1. tail = <<>>
      <4> SUFFICES ASSUME tail # <<>> PROVE FALSE
          OBVIOUS
      <4>1. 1 \in 1 .. Len(tail)
            BY <1>0
      <4>2. Begin(e + 1, tail, 1) \in e + 1 .. tail[1] - 1
            BY <4>1 DEF Cut
      <4>3. tail[1] \in e + 1 .. E
            BY <4>1, <1>0
      <4>   QED BY <4>2, <4>3, <2>1 DEF Begin
    <3>2. Len(ends) = 1
          BY <3>1, <1>1
    <3>   QED BY <3>2, <2>1, <1>1
  <2>2. CASE e # Len(text)
    <3>1. e + 1 <= Len(text)
          BY <2>2
    <3>2. tail # <<>> /\ tail[Len(tail)] >= Len(text)
          BY <3>1 DEF Cut
    <3>3. Len(ends) \in 2 .. Len(ends) /\ Len(ends) - 1 = Len(tail)
          BY <1>0, <1>1, <3>2
    <3>   QED BY <3>2, <3>3, <1>1, SMTT(30)
  <2>   QED BY <2>1, <2>2
<1>9. ASSUME NEW k \in 1 .. Len(ends)
      PROVE  /\ types[k] = peek(text, ends[k]) /\ types[k] \in {"semi", "amp", "eof"}
             /\ Begin(p, ends, k) \in p .. ends[k] - 1
             /\ groups[k] \in Seq(1 .. E)
             /\ Atoms(text, Begin(p, ends, k), ends[k], groups[k])
  <2>1. CASE k = 1
    <3>1. Begin(p, ends, k) = p /\ ends[k] = e /\ groups[k] = g.atoms /\ types[k] = text[e]
          BY <2>1, <1>1, <1>2, <1>3 DEF Begin
    <3>2. peek(text, e) = text[e]
      <4>1. e \in 1 .. Len(text) + 1 /\ e \in 1 .. Len(text)
            OBVIOUS
      <4>   QED BY <4>1, Peeked
    <3>3. Atoms(text, p, e, g.atoms)
          BY DEF GroupEnd, SyntaxError
    <3>   QED BY <3>1, <3>2, <3>3, <1>0, SMTT(30)
  <2>2. CASE k # 1
    <3>1. k \in 2 .. Len(ends) /\ k - 1 \in 1 .. Len(tail)
          BY <2>2, <1>6
    <3>2. ends[k] = tail[k - 1] /\ groups[k] = rest.groups[k - 1] /\ types[k] = rest.types[k - 1]
          BY <3>1, <1>1, <1>2, <1>3, <1>5
    <3>3. Begin(p, ends, k) = Begin(e + 1, tail, k - 1)
      <4>1. CASE k = 2
            BY <4>1, <1>1 DEF Begin
      <4>2. CASE k # 2
        <5>1. k - 1 \in 2 .. Len(ends) /\ k - 1 # 1
              BY <4>2, <3>1
        <5>2. ends[k - 1] = tail[(k - 1) - 1]
              BY <5>1, <1>1
        <5>   QED BY <5>1, <5>2, <2>2 DEF Begin
      <4>   QED BY <4>1, <4>2
    <3> DEFINE h == k - 1
    <3> HIDE DEF h
    <3>4. h \in 1 .. Len(tail)
          BY <3>1 DEF h
    <3>5. /\ rest.types[h] = peek(text, tail[h]) /\ rest.types[h] \in {"semi", "amp", "eof"}
          /\ Begin(e + 1, tail, h) \in e + 1 .. tail[h] - 1
          /\ rest.groups[h] \in Seq(1 .. E)
          /\ Atoms(text, Begin(e + 1, tail, h), tail[h], rest.groups[h])
          BY <3>4 DEF Cut
    <3>6. tail[h] \in e + 1 .. E
          BY <1>0, <3>4, SMTT(30)
    <3>7. Begin(e + 1, tail, h) \in p .. tail[h] - 1
          BY <3>5, <3>6
    <3>   QED BY <3>2, <3>3, <3>5, <3>7 DEF h
  <2>   QED BY <2>1, <2>2
<1>10. ASSUME NEW q \in p .. Len(text), q \in Separators(text)
       PROVE  \E k \in 1 .. Len(ends) : ends[k] = q
  <2>1. \A x \in p .. e - 1 : x \notin Separators(text)
        BY DEF GroupEnd, SyntaxError
  <2>2. q = e \/ q \in e + 1 .. Len(text)
        BY <1>10, <2>1
  <2>3. CASE q = e
        BY <2>3, <1>1, <1>5
  <2>4. CASE q \in e + 1 .. Len(text)
    <3>1. PICK k \in 1 .. Len(tail) : tail[k] = q
          BY <2>4, <1>10 DEF Cut
    <3>2. k + 1 \in 2 .. Len(ends) /\ ends[k + 1] = q
          BY <3>1, <1>1, <1>7
    <3>   QED BY <3>2
  <2>   QED BY <2>2, <2>3, <2>4
<1>11. ASSUME NEW q \in p .. Len(text), text[q] = "pipe"
       PROVE  \E k \in 1 .. Len(ends) : \E j \in 2 .. Len(groups[k]) : groups[k][j] = q + 1
  <2>1. q # e
        BY <1>11
  <2>2. CASE q \in p .. e - 1
    <3>1. Atoms(text, p, e, g.atoms)
          BY DEF GroupEnd, SyntaxError
    <3>2. \E j \in 2 .. Len(g.atoms) : g.atoms[j] = q + 1
          BY <3>1, <2>2, <1>11 DEF Atoms
    <3>3. 1 \in 1 .. Len(ends) /\ groups[1] = g.atoms
          BY <1>2, <1>5
    <3>   QED BY <3>2, <3>3
  <2>3. CASE q \in e + 1 .. Len(text)
    <3>1. PICK k \in 1 .. Len(tail) : \E j \in 2 .. Len(rest.groups[k]) : rest.groups[k][j] = q + 1
          BY <2>3, <1>11 DEF Cut
    <3>2. k + 1 \in 2 .. Len(ends) /\ groups[k + 1] = rest.groups[k]
          BY <1>2, <1>5, <1>7
    <3>   QED BY <3>1, <3>2, SMTT(30)
  <2>4. q \in p .. e - 1 \/ q = e \/ q \in e + 1 .. Len(text)
        OBVIOUS
  <2>   QED BY <2>1, <2>2, <2>3, <2>4
<1>12. Cut(text, p, r, ends)
       BY <1>1, <1>4, <1>5, <1>8, <1>9, <1>10, <1>11 DEF Cut
<1>   QED BY <1>12 DEF r, ends, groups, types

\* Where the loop goes on from p is behind p.
LEMMA SeparatorAhead ==
    ASSUME NEW text \in Seq(TokenKinds), NEW p \in 1 .. Len(text) + 1,
           parse_cmd_group(text, p).end # SyntaxError,
           peek(text, parse_cmd_group(text, p).end) \in {"semi", "amp"}
    PROVE  /\ parse_cmd_group(text, p).end \in p + 1 .. Len(text)
           /\ parse_cmd_group(text, p).end + 1 \in p + 1 .. Len(text) + 1
<1> DEFINE e == parse_cmd_group(text, p).end
<1>1. e \in p + 1 .. Len(text) + 1
      BY GroupParsed DEF GroupEnd
<1>2. e # Len(text) + 1
  <2> HIDE DEF e
  <2>1. e = Len(text) + 1 => peek(text, e) = "eof"
        BY <1>1, Peeked
  <2>   QED BY <2>1 DEF e
<1> HIDE DEF e
<1>3. e \in p + 1 .. Len(text) /\ e + 1 \in p + 1 .. Len(text) + 1
      BY <1>1, <1>2
<1>   QED BY <1>3 DEF e

\* The recursion of Groups has a solution.
LEMMA LoopUnfold ==
    ASSUME NEW text \in Seq(TokenKinds)
    PROVE  \E m : m = [p \in 1 .. Len(text) + 1 |-> LoopAt(text, m, p)]
<1> DEFINE E == Len(text) + 1
           From(m, p) == \A q \in p .. E : m[q] = LoopAt(text, m, q)
           Bad == {p \in 1 .. E : ~ \E m : From(m, p)}
<1>0. E \in Nat \ {0}
      OBVIOUS
<1>a. ASSUME NEW q \in 1 .. E, NEW m, NEW n, \A k \in q + 1 .. E : n[k] = m[k]
      PROVE  LoopAt(text, n, q) = LoopAt(text, m, q)
  <2> DEFINE e == parse_cmd_group(text, q).end
  <2>1. e # SyntaxError /\ peek(text, e) \in {"semi", "amp"} => e + 1 \in q + 1 .. E
        BY SeparatorAhead
  <2>2. e # SyntaxError /\ peek(text, e) \in {"semi", "amp"} => n[e + 1] = m[e + 1]
        BY <1>a, <2>1
  <2>   QED BY <2>2, Zenon DEF LoopAt
<1>1. ASSUME NEW p \in 1 .. E, NEW m, p < E => From(m, p + 1) PROVE \E n : From(n, p)
  <2> DEFINE n == [q \in 1 .. E |-> IF q = p THEN LoopAt(text, m, p) ELSE m[q]]
  <2>1. ASSUME NEW q \in p .. E PROVE n[q] = LoopAt(text, n, q)
    <3>1. LoopAt(text, n, q) = LoopAt(text, m, q)
      <4>1. \A k \in q + 1 .. E : n[k] = m[k]
            OBVIOUS
      <4>2. q \in 1 .. E
            BY <1>0
      <4> HIDE DEF n
      <4>   QED BY <4>1, <4>2, <1>a
    <3>2. n[q] = IF q = p THEN LoopAt(text, m, p) ELSE m[q]
          BY <1>0
    <3>3. q # p => m[q] = LoopAt(text, m, q)
      <4>1. q # p => p < E /\ q \in p + 1 .. E
            BY <1>0
      <4>   QED BY <4>1, <1>1
    <3> HIDE DEF n
    <3>   QED BY <3>1, <3>2, <3>3
  <2>2. From(n, p)
        BY <2>1
  <2>   QED BY <2>2
<1> HIDE DEF From
<1>2. Bad = {}
  <2> SUFFICES ASSUME Bad # {} PROVE FALSE
      OBVIOUS
  <2>1. PICK p \in Bad : \A q \in Bad : q <= p
        BY <1>0, LastNumber
  <2>2. p < E => \E m : From(m, p + 1)
    <3>1. p < E => p + 1 \in 1 .. E /\ p + 1 \notin Bad
          BY <1>0, <2>1
    <3>   QED BY <3>1
  <2>   QED BY <2>1, <2>2, <1>1
<1>3. PICK m : From(m, 1)
  <2>1. 1 \in 1 .. E /\ 1 \notin Bad
        BY <1>0, <1>2
  <2>   QED BY <2>1
<1> DEFINE f == [p \in 1 .. E |-> m[p]]
<1>4. ASSUME NEW q \in 1 .. E PROVE f[q] = LoopAt(text, f, q)
  <2>1. \A k \in q + 1 .. E : f[k] = m[k]
        OBVIOUS
  <2>2. f[q] = m[q]
        OBVIOUS
  <2> HIDE DEF f
  <2>   QED BY <2>1, <2>2, <1>3, <1>a DEF From
<1>5. f = [p \in 1 .. E |-> LoopAt(text, f, p)]
  <2>1. f = [p \in 1 .. E |-> f[p]]
        OBVIOUS
  <2> HIDE DEF f
  <2>   QED BY <2>1, <1>4, Zenon
<1>   QED BY <1>5

\* At the end of the line nothing is left.
LEMMA NothingLeft ==
    ASSUME NEW text \in Seq(TokenKinds)
    PROVE  LoopEnd(text, Len(text) + 1, [groups |-> <<>>, types |-> <<>>, ok |-> TRUE, end |-> Len(text) + 1])
<1> DEFINE E == Len(text) + 1
           r == [groups |-> <<>>, types |-> <<>>, ok |-> TRUE, end |-> E]
<1>0. E \in Nat \ {0} /\ E \in 1 .. Len(text) + 1 /\ Len(text) \in Nat
      OBVIOUS
<1>1. peek(text, E) = "eof"
  <2> HIDE DEF E
  <2>   QED BY <1>0, Peeked DEF E
<1>2. ~Broken(text, E)
      BY <1>0 DEF Broken
<1>3. r.groups = <<>> /\ r.types = <<>> /\ r.ok = TRUE /\ r.end = E /\ DOMAIN r = {"groups", "types", "ok", "end"}
      /\ r = [groups |-> r.groups, types |-> r.types, ok |-> r.ok, end |-> r.end]
      OBVIOUS
<1>4. <<>> \in Seq(Seq(1 .. E)) /\ <<>> \in Seq({"eof"} \cup TokenKinds) /\ <<>> \in Seq(E .. E) /\ Len(<<>>) = 0
      OBVIOUS
<1> HIDE DEF r
<1>5. Cut(text, E, r, <<>>)
      BY <1>0, <1>3, <1>4 DEF Cut
<1>6. LoopEnd(text, E, r)
      BY <1>0, <1>1, <1>2, <1>3, <1>4, <1>5 DEF LoopEnd
<1>   QED BY <1>6 DEF r

\* Behind a separator the loop goes on.
LEMMA LoopGoesOn ==
    ASSUME NEW text \in Seq(TokenKinds), NEW p \in 1 .. Len(text), NEW g, GroupEnd(text, p, g),
           NEW e \in p + 1 .. Len(text), g.end = e, text[e] \in {"semi", "amp"},
           NEW rest, LoopEnd(text, e + 1, rest)
    PROVE  LoopEnd(text, p, [groups |-> <<g.atoms>> \o rest.groups, types |-> <<text[e]>> \o rest.types,
                             ok |-> rest.ok, end |-> rest.end])
<1> DEFINE E == Len(text) + 1
           groups == <<g.atoms>> \o rest.groups
           types == <<text[e]>> \o rest.types
           r == [groups |-> groups, types |-> types, ok |-> rest.ok, end |-> rest.end]
<1>1. groups \in Seq(Seq(1 .. E))
  <2> DEFINE S == Seq(1 .. E)
             x == g.atoms
             s == rest.groups
  <2>1. x \in S /\ s \in Seq(S)
        BY DEF GroupEnd, LoopEnd
  <2> HIDE DEF S, x, s
  <2>2. <<x>> \o s \in Seq(S)
        BY <2>1, Prepended
  <2>   QED BY <2>2 DEF S, x, s
<1>2. types \in Seq({"eof"} \cup TokenKinds)
  <2> DEFINE S == {"eof"} \cup TokenKinds
             x == text[e]
             s == rest.types
  <2>1. x \in S /\ s \in Seq(S)
        BY DEF LoopEnd
  <2> HIDE DEF S, x, s
  <2>2. <<x>> \o s \in Seq(S)
        BY <2>1, Prepended
  <2>   QED BY <2>2 DEF S, x, s
<1>3. /\ r.groups = groups /\ r.types = types /\ r.ok = rest.ok /\ r.end = rest.end
      /\ DOMAIN r = {"groups", "types", "ok", "end"}
      /\ r = [groups |-> r.groups, types |-> r.types, ok |-> r.ok, end |-> r.end]
      OBVIOUS
<1>4. /\ IsName(peek(text, p))
      /\ \A q \in p .. e - 1 : WellPlaced(text, q)
      BY DEF GroupEnd, SyntaxError
<1>5. e \in Separators(text) /\ (WellPlaced(text, e) <=> e = Len(text) \/ IsName(text[e + 1]))
      BY DEF Separators, WellPlaced
<1>6. e # Len(text) => peek(text, e + 1) = text[e + 1]
  <2>1. e # Len(text) => e + 1 \in 1 .. Len(text) /\ e + 1 \in 1 .. Len(text) + 1
        OBVIOUS
  <2>   QED BY <2>1, Peeked
<1>7. Broken(text, p) <=> ~WellPlaced(text, e) \/ Broken(text, e + 1)
  <2>1. \A q \in p .. Len(text) : q \in p .. e - 1 \/ q = e \/ q \in e + 1 .. Len(text)
        OBVIOUS
  <2>   QED BY <2>1, <1>4 DEF Broken
<1>8. e + 1 = Len(text) + 1 <=> e = Len(text)
      OBVIOUS
<1> HIDE DEF groups, types
<1>9. r.ok /\ peek(text, r.end) = "eof" <=>
         ~Broken(text, p) /\ (p = Len(text) + 1 \/ IsName(peek(text, p)))
  <2>1. rest.ok /\ peek(text, rest.end) = "eof" <=>
          ~Broken(text, e + 1) /\ (e + 1 = Len(text) + 1 \/ IsName(peek(text, e + 1)))
        BY DEF LoopEnd
  <2> HIDE DEF r
  <2>   QED BY <2>1, <1>3, <1>4, <1>5, <1>6, <1>7, <1>8
<1>10. ASSUME r.ok, peek(text, r.end) = "eof" PROVE \E ends : Cut(text, p, r, ends)
  <2>1. PICK tail : Cut(text, e + 1, rest, tail)
        BY <1>3, <1>10 DEF LoopEnd
  <2>2. Cut(text, p, r, <<e>> \o tail)
        BY <2>1, CutThere DEF groups, types
  <2>   QED BY <2>2
<1> HIDE DEF r
<1>11. LoopEnd(text, p, r)
       BY <1>1, <1>2, <1>3, <1>9, <1>10 DEF LoopEnd
<1>   QED BY <1>11 DEF r, groups, types

\* At the end of the line or an error the loop stops.
LEMMA LoopStops ==
    ASSUME NEW text \in Seq(TokenKinds), NEW p \in 1 .. Len(text), NEW g, GroupEnd(text, p, g),
           ~(g.end # SyntaxError /\ peek(text, g.end) \in {"semi", "amp"}), NEW sep, sep = peek(text, g.end)
    PROVE  LoopEnd(text, p, [groups |-> <<g.atoms>>, types |-> <<sep>>, ok |-> g.end # SyntaxError, end |-> g.end])
<1> DEFINE E == Len(text) + 1
           r == [groups |-> <<g.atoms>>, types |-> <<sep>>, ok |-> g.end # SyntaxError, end |-> g.end]
<1>0. E \in Nat /\ g.atoms \in Seq(1 .. E) /\ g.end \in 0 .. E
      BY DEF GroupEnd
<1>1. CASE g.end = SyntaxError
  <2>1. peek(text, g.end) = "eof"
        BY <1>1 DEF peek, SyntaxError
  <2>2. ~IsName(peek(text, p)) \/ Broken(text, p)
        BY <1>1 DEF GroupEnd, SyntaxError
  <2>3. /\ r.groups = <<g.atoms>> /\ r.types = <<sep>> /\ r.ok = FALSE /\ r.end = g.end
        /\ DOMAIN r = {"groups", "types", "ok", "end"}
        /\ r = [groups |-> r.groups, types |-> r.types, ok |-> r.ok, end |-> r.end]
        BY <1>1
  <2>4. <<g.atoms>> \in Seq(Seq(1 .. E)) /\ <<sep>> \in Seq({"eof"} \cup TokenKinds)
        BY <1>0, <2>1
  <2> HIDE DEF r
  <2>5. LoopEnd(text, p, r)
        BY <2>2, <2>3, <2>4 DEF LoopEnd
  <2>   QED BY <2>5 DEF r
<1>2. CASE g.end # SyntaxError
  <2>1. /\ g.end \in p + 1 .. E /\ sep = "eof" /\ IsName(peek(text, p))
        /\ \A q \in p .. g.end - 1 : WellPlaced(text, q) /\ q \notin Separators(text)
        /\ Atoms(text, p, g.end, g.atoms)
        BY <1>2 DEF GroupEnd
  <2>2. g.end = E
    <3> DEFINE e == g.end
    <3> HIDE DEF e
    <3>1. e \in 1 .. Len(text) + 1 /\ peek(text, e) = "eof"
          BY <2>1 DEF e
    <3>2. e = Len(text) + 1
          BY <3>1, Peeked
    <3>   QED BY <3>2 DEF e
  <2>3. /\ r.groups = <<g.atoms>> /\ r.types = <<sep>> /\ r.ok = TRUE /\ r.end = E
        /\ DOMAIN r = {"groups", "types", "ok", "end"}
        /\ r = [groups |-> r.groups, types |-> r.types, ok |-> r.ok, end |-> r.end]
        BY <1>2, <2>2
  <2>4. <<g.atoms>> \in Seq(Seq(1 .. E)) /\ <<sep>> \in Seq({"eof"} \cup TokenKinds)
        BY <1>0, <2>1
  <2> HIDE DEF r
  <2>5. ~Broken(text, p)
        BY <2>1, <2>2 DEF Broken
  <2>6. Cut(text, p, r, <<E>>)
    <3>1. /\ <<E>> \in Seq(p .. E) /\ <<E>> # <<>> /\ Len(<<E>>) = 1 /\ <<E>>[1] = E
          /\ Len(<<g.atoms>>) = 1 /\ <<g.atoms>>[1] = g.atoms /\ Len(<<sep>>) = 1 /\ <<sep>>[1] = sep
          BY <1>0
    <3>2. \A k \in 1 .. Len(<<E>>) : k = 1
          BY <3>1
    <3>3. Begin(p, <<E>>, 1) = p /\ p \in p .. E - 1
          BY DEF Begin
    <3>4. /\ r.types[1] = peek(text, <<E>>[1]) /\ r.types[1] \in {"semi", "amp", "eof"}
          /\ Begin(p, <<E>>, 1) \in p .. <<E>>[1] - 1
          /\ r.groups[1] \in Seq(1 .. E)
          /\ Atoms(text, Begin(p, <<E>>, 1), <<E>>[1], r.groups[1])
          BY <3>1, <3>3, <2>1, <2>2, <2>3, <1>0
    <3>5. \A q \in p .. Len(text) : q \notin Separators(text)
          BY <2>1, <2>2
    <3>6. \A q \in p .. Len(text) : text[q] = "pipe" => \E j \in 2 .. Len(g.atoms) : g.atoms[j] = q + 1
          BY <2>1, <2>2 DEF Atoms
    <3>7. <<E>>[Len(<<E>>)] >= Len(text)
          BY <3>1
    <3>8. r.groups[1] = g.atoms /\ 1 \in 1 .. Len(<<E>>)
          BY <2>3, <3>1
    <3>9. \A q \in p .. Len(text) : text[q] = "pipe" =>
            \E k \in 1 .. Len(<<E>>) : \E j \in 2 .. Len(r.groups[k]) : r.groups[k][j] = q + 1
          BY <3>6, <3>8
    <3>10. Len(<<E>>) = Len(r.groups) /\ Len(<<E>>) = Len(r.types)
           BY <3>1, <2>3
    <3> DEFINE ends == <<E>>
    <3> HIDE DEF ends
    <3>11. Cut(text, p, r, ends)
           BY <3>1, <3>2, <3>4, <3>5, <3>7, <3>9, <3>10 DEF Cut, ends
    <3>   QED BY <3>11 DEF ends
  <2>7. peek(text, E) = "eof"
        BY <2>1, <2>2
  <2>8. LoopEnd(text, p, r)
        BY <2>1, <2>3, <2>4, <2>5, <2>6, <2>7 DEF LoopEnd
  <2>   QED BY <2>8 DEF r
<1>   QED BY <1>1, <1>2

\* What the loop found from here on, with other groups and types.
Parsed(groups, types, ok, end) == [groups |-> groups, types |-> types, ok |-> ok, end |-> end]
With(rest, groups, types) == [rest EXCEPT !.groups = groups, !.types = types]
Longer(rest, x, y) == [rest EXCEPT !.groups = x \o @, !.types = y \o @]

LEMMA OtherLists ==
    ASSUME NEW a, NEW b, NEW c, NEW e, NEW s, NEW t
    PROVE  With(Parsed(a, b, c, e), s, t) = Parsed(s, t, c, e)
<1> DEFINE l == With(Parsed(a, b, c, e), s, t)
           r == Parsed(s, t, c, e)
<1>1. DOMAIN l = {"groups", "types", "ok", "end"} /\ DOMAIN r = {"groups", "types", "ok", "end"}
      BY DEF With, Parsed
<1>2. l.groups = r.groups /\ l.types = r.types /\ l.ok = r.ok /\ l.end = r.end
      BY DEF With, Parsed
<1>3. l = [k \in DOMAIN l |-> l[k]] /\ r = [k \in DOMAIN r |-> r[k]]
      BY DEF With, Parsed
<1> HIDE DEF l, r
<1>4. l = r
      BY <1>1, <1>2, <1>3
<1>   QED BY <1>4 DEF l, r

\* ... and one group longer.
LEMMA OneMore ==
    ASSUME NEW a, NEW b, NEW c, NEW e, NEW x, NEW y
    PROVE  Longer(Parsed(a, b, c, e), x, y) = Parsed(x \o a, y \o b, c, e)
<1> DEFINE rest == Parsed(a, b, c, e)
<1>1. rest.groups = a /\ rest.types = b
      BY DEF Parsed
<1>2. Longer(rest, x, y) = With(rest, x \o rest.groups, y \o rest.types)
      BY DEF Longer, With
<1>   QED BY <1>1, <1>2, OtherLists

\* The loop of parse_shell_cmd accepts what is well placed and finds its groups.
LEMMA LoopParsed ==
    ASSUME NEW text \in Seq(TokenKinds)
    PROVE  LoopEnd(text, 1, Groups(text))
<1> DEFINE E == Len(text) + 1
           Solves(m) == m = [p \in 1 .. E |-> LoopAt(text, m, p)]
           f == CHOOSE m : Solves(m)
<1>0. E \in Nat \ {0}
      OBVIOUS
<1>1. Groups(text) = f[1]
      BY DEF Groups, LoopAt
<1>2. \A p \in 1 .. E : f[p] = LoopAt(text, f, p)
  <2>1. \E m : Solves(m)
        BY LoopUnfold
  <2> HIDE DEF Solves
  <2>2. Solves(f)
        BY <2>1
  <2>   QED BY <2>2 DEF Solves
<1> HIDE DEF f
<1>3. ASSUME NEW p \in 1 .. E, \A q \in p + 1 .. E : LoopEnd(text, q, f[q])
      PROVE  LoopEnd(text, p, f[p])
  <2>1. CASE peek(text, p) = "eof"
    <3>1. p = E
          BY <2>1, Peeked
    <3>2. f[p] = [groups |-> <<>>, types |-> <<>>, ok |-> TRUE, end |-> p]
          BY <1>2, <2>1 DEF LoopAt
    <3>   QED BY <3>1, <3>2, NothingLeft
  <2>2. CASE peek(text, p) # "eof"
    <3> DEFINE g == parse_cmd_group(text, p)
               e == g.end
               sep == peek(text, e)
    <3>0. p \in 1 .. Len(text)
      <4>1. p = E => peek(text, p) = "eof"
            BY Peeked
      <4>   QED BY <4>1, <2>2, <1>0
    <3>1. GroupEnd(text, p, g)
          BY GroupParsed
    <3>2. CASE e # SyntaxError /\ sep \in {"semi", "amp"}
      <4>1. e \in p + 1 .. Len(text) /\ e + 1 \in p + 1 .. E
            BY <3>2, SeparatorAhead
      <4>2. f[p] = [f[e + 1] EXCEPT !.groups = <<g.atoms>> \o @, !.types = <<sep>> \o @]
            BY <1>2, <2>2, <3>2 DEF LoopAt
      <4>3. LoopEnd(text, e + 1, f[e + 1])
            BY <4>1, <1>3
      <4> DEFINE e0 == e
                 g0 == g
      <4> HIDE DEF g, e0, g0
      <4>4. sep = text[e]
        <5>1. e \in 1 .. Len(text) + 1 /\ e \in 1 .. Len(text)
              BY <4>1
        <5>   QED BY <5>1, Peeked
      <4>5. f[p] = Parsed(<<g.atoms>> \o f[e + 1].groups, <<text[e]>> \o f[e + 1].types,
                          f[e + 1].ok, f[e + 1].end)
        <5> DEFINE rest == f[e + 1]
        <5>1. rest = Parsed(rest.groups, rest.types, rest.ok, rest.end)
              BY <4>3 DEF LoopEnd, Parsed
        <5>2. f[p] = Longer(rest, <<g.atoms>>, <<text[e]>>)
              BY <4>2, <4>4 DEF Longer
        <5> DEFINE x == <<g.atoms>>
                   y == <<text[e]>>
        <5> HIDE DEF rest, x, y
        <5>3. \A a, b, c, z : Longer(Parsed(a, b, c, z), x, y) = Parsed(x \o a, y \o b, c, z)
              BY OneMore
        <5>4. Longer(rest, x, y) = Parsed(x \o rest.groups, y \o rest.types, rest.ok, rest.end)
              BY <5>1, <5>3
        <5>   QED BY <5>2, <5>4 DEF rest, x, y
      <4>6. LoopEnd(text, p, [groups |-> <<g.atoms>> \o f[e + 1].groups, types |-> <<text[e]>> \o f[e + 1].types,
                              ok |-> f[e + 1].ok, end |-> f[e + 1].end])
        <5>1. text[e] \in {"semi", "amp"}
              BY <3>2, <4>4
        <5>   QED BY <5>1, <3>0, <3>1, <4>1, <4>3, LoopGoesOn
      <4>   QED BY <4>5, <4>6 DEF Parsed
    <3>3. CASE ~(e # SyntaxError /\ sep \in {"semi", "amp"})
      <4>1. f[p] = [groups |-> <<g.atoms>>, types |-> <<sep>>, ok |-> e # SyntaxError, end |-> e]
            BY <1>2, <2>2, <3>3 DEF LoopAt
      <4>2. LoopEnd(text, p, [groups |-> <<g.atoms>>, types |-> <<sep>>, ok |-> e # SyntaxError, end |-> e])
        <5> HIDE DEF g
        <5>   QED BY <3>0, <3>1, <3>3, LoopStops
      <4>   QED BY <4>1, <4>2
    <3>   QED BY <3>2, <3>3
  <2>   QED BY <2>1, <2>2
<1>4. \A p \in 1 .. E : LoopEnd(text, p, f[p])
  <2> DEFINE Bad == {p \in 1 .. E : ~LoopEnd(text, p, f[p])}
  <2> SUFFICES ASSUME Bad # {} PROVE FALSE
      OBVIOUS
  <2>1. PICK p \in Bad : \A q \in Bad : q <= p
        BY <1>0, LastNumber
  <2>2. \A q \in p + 1 .. E : LoopEnd(text, q, f[q])
        BY <1>0, <2>1
  <2>   QED BY <2>1, <2>2, <1>3
<1>   QED BY <1>0, <1>1, <1>4

-----------------------------------------------------------------------------
(* The groups of a line, counted.                                            *)

\* The least number of a set.
LEMMA FirstNumber ==
    ASSUME NEW T, T \subseteq Nat, T # {}
    PROVE  \E n \in T : \A m \in T : n <= m
<1>1. PICK n \in T : \A m \in T : <<m, n>> \notin OpToRel(<, Nat)
      BY WFMin, NatLessThanWellFounded, Zenon
<1>2. \A m \in T : ~(m < n)
      BY <1>1, Zenon DEF OpToRel
<1>   QED BY <1>2

\* What grows from each to the next grows.
LEMMA Increasing ==
    ASSUME NEW n \in Nat, NEW e, \A k \in 1 .. n : e[k] \in Int, \A k \in 2 .. n : e[k - 1] < e[k]
    PROVE  \A j, k \in 1 .. n : j < k => e[j] < e[k]
<1> SUFFICES ASSUME NEW k \in 1 .. n PROVE \A j \in 1 .. n : j < k => e[j] < e[k]
    OBVIOUS
<1> DEFINE T == {j \in 1 .. n : j < k /\ ~(e[j] < e[k])}
<1> SUFFICES ASSUME T # {} PROVE FALSE
    OBVIOUS
<1>1. PICK j \in T : \A i \in T : i <= j
      BY LastNumber
<1>2. j + 1 \in 2 .. n /\ (j + 1) - 1 = j
      OBVIOUS
<1>3. e[j] < e[j + 1]
      BY <1>2
<1>4. j + 1 = k \/ e[j + 1] < e[k]
      BY <1>1, <1>2
<1>   QED BY <1>2, <1>3, <1>4

\* The ends of the groups: they are in order, and but for the last they are separators.
LEMMA EndsInOrder ==
    ASSUME NEW text \in Seq(TokenKinds), NEW r, NEW ends, Cut(text, 1, r, ends)
    PROVE  /\ \A k \in 1 .. Len(ends) : ends[k] \in 2 .. Len(text) + 1
           /\ \A j, k \in 1 .. Len(ends) : j < k => ends[j] < ends[k]
           /\ \A k \in 1 .. Len(ends) : k < Len(ends) => ends[k] \in Separators(text)
<1> DEFINE n == Len(ends)
<1>1. n \in Nat /\ \A k \in 1 .. n : ends[k] \in 1 .. Len(text) + 1
      BY DEF Cut
<1>2. \A k \in 1 .. n : Begin(1, ends, k) \in 1 .. ends[k] - 1
      BY DEF Cut
<1>3. \A k \in 1 .. n : ends[k] \in 2 .. Len(text) + 1
      BY <1>1, <1>2
<1>4. \A k \in 2 .. n : ends[k - 1] < ends[k]
  <2> SUFFICES ASSUME NEW k \in 2 .. n PROVE ends[k - 1] < ends[k]
      OBVIOUS
  <2>1. k \in 1 .. n /\ k # 1 /\ k - 1 \in 1 .. n
        OBVIOUS
  <2>2. Begin(1, ends, k) = ends[k - 1] + 1
        BY <2>1 DEF Begin
  <2>   QED BY <1>1, <1>2, <2>1, <2>2, SMTT(30)
<1> HIDE DEF n
<1>5. \A j, k \in 1 .. n : j < k => ends[j] < ends[k]
  <2>1. \A k \in 1 .. n : ends[k] \in Int
        BY <1>1
  <2>   QED BY <2>1, <1>1, <1>4, Increasing
<1>6. ASSUME NEW k \in 1 .. n, k < n PROVE ends[k] \in Separators(text)
  <2>1. n \in 1 .. n /\ ends[k] < ends[n] /\ ends[n] <= Len(text) + 1
        BY <1>1, <1>5, <1>6
  <2>2. ends[k] \in 1 .. Len(text) /\ ends[k] \in 1 .. Len(text) + 1
        BY <1>1, <2>1
  <2>3. peek(text, ends[k]) = text[ends[k]] /\ text[ends[k]] \in TokenKinds
        BY <2>2, Peeked
  <2>4. peek(text, ends[k]) \in {"semi", "amp", "eof"}
        BY <1>6 DEF Cut, n
  <2>   QED BY <2>2, <2>3, <2>4 DEF Separators, TokenKinds
<1>   QED BY <1>3, <1>5, <1>6 DEF n

\* The groups that the loop finds are those of the line.
LEMMA GroupsCounted ==
    ASSUME NEW text \in Seq(TokenKinds), NEW r, NEW ends, Cut(text, 1, r, ends)
    PROVE  /\ \A k \in 1 .. Len(ends) : Begin(1, ends, k) \in GroupStarts(text)
           /\ GroupCount(text) = Len(ends)
<1> DEFINE n == Len(ends)
           f == [k \in 1 .. n |-> Begin(1, ends, k)]
<1>1. /\ n \in Nat /\ \A k \in 1 .. n : Begin(1, ends, k) \in 1 .. ends[k] - 1
      /\ \A q \in 1 .. Len(text) : q \in Separators(text) => \E k \in 1 .. n : ends[k] = q
      /\ 1 <= Len(text) => n \in 1 .. n /\ ends[n] >= Len(text)
  <2>1. ends \in Seq(1 .. Len(text) + 1)
        BY DEF Cut
  <2>2. ends # <<>> => n \in 1 .. n
        BY <2>1
  <2>   QED BY <2>1, <2>2 DEF Cut
<1>2. /\ \A k \in 1 .. n : ends[k] \in 2 .. Len(text) + 1
      /\ \A j, k \in 1 .. n : j < k => ends[j] < ends[k]
      /\ \A k \in 1 .. n : k < n => ends[k] \in Separators(text)
      BY EndsInOrder
<1>0. DOMAIN text = 1 .. Len(text) /\ Len(text) \in Nat
      OBVIOUS
<1> HIDE DEF n
<1>3. ASSUME NEW k \in 1 .. n PROVE Begin(1, ends, k) \in GroupStarts(text)
  <2>1. Begin(1, ends, k) \in DOMAIN text
    <3>1. Begin(1, ends, k) \in 1 .. ends[k] - 1 /\ ends[k] \in 2 .. Len(text) + 1
          BY <1>1, <1>2
    <3>2. Begin(1, ends, k) \in 1 .. Len(text)
          BY <3>1, <1>0
    <3>   QED BY <3>2, <1>0
  <2>2. CASE k = 1
        BY <2>1, <2>2 DEF Begin, GroupStarts
  <2>3. CASE k # 1
    <3>1. k - 1 \in 1 .. n /\ k - 1 < n
          BY <2>3, <1>1
    <3>2. ends[k - 1] \in Separators(text) /\ ends[k - 1] \in Int
          BY <3>1, <1>2
    <3>3. Begin(1, ends, k) - 1 = ends[k - 1]
          BY <2>3, <3>2 DEF Begin
    <3>   QED BY <2>1, <3>2, <3>3 DEF GroupStarts
  <2>   QED BY <2>2, <2>3
<1>4. ASSUME NEW s \in GroupStarts(text) PROVE \E k \in 1 .. n : Begin(1, ends, k) = s
  <2>0. s \in 1 .. Len(text) /\ (s = 1 \/ s - 1 \in Separators(text))
        BY <1>0, <1>4 DEF GroupStarts
  <2>1. n \in 1 .. n /\ ends[n] >= Len(text)
        BY <2>0, <1>1
  <2>2. CASE s = 1
    <3>1. 1 \in 1 .. n /\ Begin(1, ends, 1) = 1
          BY <2>1 DEF Begin
    <3>   QED BY <2>2, <3>1
  <2>3. CASE s # 1
    <3>1. s - 1 \in 1 .. Len(text) /\ s - 1 \in Separators(text)
          BY <2>0, <2>3
    <3>2. PICK k \in 1 .. n : ends[k] = s - 1
          BY <3>1, <1>1
    <3>3. k # n
          BY <3>2, <2>0, <2>1, <1>0
    <3>4. k + 1 \in 1 .. n /\ k + 1 # 1 /\ (k + 1) - 1 = k
          BY <3>3, <1>1
    <3>5. Begin(1, ends, k + 1) = ends[k] + 1
          BY <3>4 DEF Begin
    <3>6. ends[k] + 1 = s
          BY <3>2, <2>0
    <3>   QED BY <3>4, <3>5, <3>6
  <2>   QED BY <2>2, <2>3
<1>5. ASSUME NEW j \in 1 .. n, NEW k \in 1 .. n, Begin(1, ends, j) = Begin(1, ends, k), j < k PROVE FALSE
  <2>1. ends[j] < ends[k] /\ ends[j] \in Int
        BY <1>2, <1>5
  <2>2. k # 1 /\ k - 1 \in 1 .. n /\ (j = k - 1 \/ j < k - 1)
        BY <1>5, <1>1
  <2>3. ends[j] <= ends[k - 1] /\ ends[k - 1] \in Int
        BY <2>2, <2>1, <1>2
  <2>4. Begin(1, ends, k) = ends[k - 1] + 1 /\ Begin(1, ends, j) <= ends[j] - 1
        BY <2>2, <1>1 DEF Begin
  <2>5. Begin(1, ends, j) \in Int
        BY <1>1, <1>2
  <2>   QED BY <2>1, <2>3, <2>4, <2>5, <1>5
<1>6. f \in Bijection(1 .. n, GroupStarts(text))
  <2>1. f \in [1 .. n -> GroupStarts(text)]
        BY <1>3
  <2>2. \A s \in GroupStarts(text) : \E k \in 1 .. n : f[k] = s
        BY <1>4
  <2>3. \A j, k \in 1 .. n : f[j] = f[k] => j = k
        BY <1>5, <1>1
  <2> HIDE DEF f
  <2>   QED BY <2>1, <2>2, <2>3 DEF Bijection, Injection, Surjection, IsInjective
<1>7. GroupCount(text) = n
      BY <1>6, <1>1, FS_CountingElements DEF ExistsBijection, GroupCount
<1>   QED BY <1>3, <1>7 DEF n

\* The groups up to the first &, as the parser counts them and as the line has them.
LEMMA BackgroundCounted ==
    ASSUME NEW text \in Seq(TokenKinds), NEW r, NEW ends, Cut(text, 1, r, ends),
           r.types \in Seq({"eof"} \cup TokenKinds)
    PROVE  IF \E k \in DOMAIN r.types : r.types[k] = "amp"
           THEN BackgroundUntil(r.types) \in 1 .. Len(ends) /\ BackgroundCount(text) = BackgroundUntil(r.types)
           ELSE BackgroundCount(text) = 0
<1> DEFINE n == Len(ends)
           types == r.types
           amps == {p \in DOMAIN text : text[p] = "amp"}
           before == {p \in Separators(text) : \E q \in amps : p <= q /\ \A a \in amps : q <= a}
<1>1. n \in Nat /\ DOMAIN types = 1 .. n /\ DOMAIN text = 1 .. Len(text) /\ Len(text) \in Nat
  <2>1. ends \in Seq(1 .. Len(text) + 1) /\ Len(types) = n
        BY DEF Cut
  <2>   QED BY <2>1
<1>2. /\ \A k \in 1 .. n : ends[k] \in 2 .. Len(text) + 1
      /\ \A j, k \in 1 .. n : j < k => ends[j] < ends[k]
      BY EndsInOrder
<1>3. /\ \A k \in 1 .. n : types[k] = peek(text, ends[k])
      /\ \A q \in 1 .. Len(text) : q \in Separators(text) => \E k \in 1 .. n : ends[k] = q
      BY DEF Cut
<1> HIDE DEF n, types
<1>4. \A q \in amps : q \in 1 .. Len(text) /\ q \in Separators(text)
      BY <1>1 DEF Separators
<1>5. BackgroundCount(text) = Cardinality(before)
      BY DEF BackgroundCount
<1>6. ASSUME NEW k \in 1 .. n PROVE types[k] = "amp" <=> ends[k] \in amps
  <2>1. ends[k] \in 1 .. Len(text) + 1
        BY <1>2
  <2>2. CASE ends[k] \in 1 .. Len(text)
        BY <2>2, <2>1, <1>1, <1>3, Peeked
  <2>3. CASE ends[k] \notin 1 .. Len(text)
    <3>1. ends[k] = Len(text) + 1
          BY <2>1, <2>3
    <3>2. ends[k] \notin amps /\ ends[k] \notin DOMAIN text
          BY <2>3, <1>1
    <3>3. types[k] = "eof"
          BY <3>2, <1>3 DEF peek
    <3>   QED BY <3>2, <3>3
  <2>   QED BY <2>2, <2>3
<1> HIDE DEF amps
<1>7. \A q \in amps : \E k \in 1 .. n : ends[k] = q /\ types[k] = "amp"
      BY <1>3, <1>4, <1>6
<1>8. CASE ~ \E k \in 1 .. n : types[k] = "amp"
  <2>1. amps = {}
        BY <1>7, <1>8
  <2>2. before = {}
        BY <2>1
  <2>   QED BY <1>8, <2>2, <1>5, <1>1, FS_EmptySet DEF types
<1>9. CASE \E k \in 1 .. n : types[k] = "amp"
  <2> DEFINE T == {k \in 1 .. n : types[k] = "amp"}
             Least(k) == k \in 1 .. n /\ types[k] = "amp" /\ \A j \in 1 .. k - 1 : types[j] # "amp"
             m == CHOOSE k \in 1 .. n : types[k] = "amp" /\ \A j \in 1 .. k - 1 : types[j] # "amp"
  <2>1. \E k \in 1 .. n : Least(k)
    <3>1. T \subseteq Nat /\ T # {}
          BY <1>9
    <3>2. PICK k \in T : \A j \in T : k <= j
      <4> HIDE DEF T
      <4>   QED BY <3>1, FirstNumber
    <3>3. \A j \in 1 .. k - 1 : j \in 1 .. n /\ ~(k <= j)
          BY <1>1, <3>2
    <3>   QED BY <3>2, <3>3
  <2>2. Least(m)
        BY <2>1
  <2>3. BackgroundUntil(types) = m
        BY <1>1, <1>9 DEF BackgroundUntil
  <2> HIDE DEF m
  <2>4. m \in 1 .. n /\ ends[m] \in amps
        BY <2>2, <1>6
  <2>5. \A a \in amps : ends[m] <= a
    <3> SUFFICES ASSUME NEW a \in amps PROVE ends[m] <= a
        OBVIOUS
    <3>1. PICK k \in 1 .. n : ends[k] = a /\ types[k] = "amp"
          BY <1>7
    <3>2. k = m \/ m < k
          BY <3>1, <2>2, <2>4, <1>1
    <3>3. ends[m] \in Int /\ ends[k] \in Int
          BY <1>2, <2>4
    <3>   QED BY <3>1, <3>2, <3>3, <2>4, <1>2
  <2>6. \A q \in amps : (\A a \in amps : q <= a) => q = ends[m]
    <3>1. \A q \in amps : q \in Int
          BY <1>4
    <3>2. ends[m] \in Int
          BY <3>1, <2>4
    <3>   QED BY <3>1, <3>2, <2>4, <2>5
  <2>7. before = {p \in Separators(text) : p <= ends[m]}
        BY <2>4, <2>5, <2>6
  <2> DEFINE f == [k \in 1 .. m |-> ends[k]]
  <2>8. f \in Bijection(1 .. m, before)
    <3>1. \A k \in 1 .. m : k \in 1 .. n /\ (k = m \/ k < m) /\ ends[k] \in Int
          BY <1>1, <1>2, <2>4
    <3>2. ASSUME NEW k \in 1 .. m PROVE ends[k] \in before
      <4>1. k = m => ends[k] \in Separators(text) /\ ends[k] <= ends[m]
            BY <2>4, <1>4, <3>1
      <4>2. k < m => ends[k] < ends[m]
            BY <3>1, <2>4, <1>2
      <4>3. k < m => ends[k] \in Separators(text)
        <5>1. k < m => k < Len(ends)
              BY <2>4, <1>1 DEF n
        <5>   QED BY <5>1, <3>1, EndsInOrder DEF n
      <4>   QED BY <4>1, <4>2, <4>3, <3>1, <2>7, <2>4
    <3>3. ASSUME NEW p \in before PROVE \E k \in 1 .. m : ends[k] = p
      <4>1. p \in Separators(text) /\ p <= ends[m] /\ p \in 1 .. Len(text)
            BY <2>7, <1>1 DEF Separators
      <4>2. PICK k \in 1 .. n : ends[k] = p
            BY <4>1, <1>3
      <4>3. ~(m < k)
        <5>1. m < k => ends[m] < ends[k]
              BY <1>2, <2>4
        <5>2. ends[m] \in Int /\ ends[k] \in Int
              BY <1>2, <2>4
        <5>   QED BY <5>1, <5>2, <4>1, <4>2
      <4>4. k \in 1 .. m
            BY <4>3, <2>4
      <4>   QED BY <4>2, <4>4
    <3>4. ASSUME NEW j \in 1 .. m, NEW k \in 1 .. m, ends[j] = ends[k] PROVE j = k
      <4>1. ~(j < k) /\ ~(k < j)
            BY <3>1, <3>4, <1>2
      <4>   QED BY <4>1, <2>4
    <3> HIDE DEF before
    <3>5. f \in [1 .. m -> before]
          BY <3>2
    <3>6. \A p \in before : \E k \in 1 .. m : f[k] = p
          BY <3>3
    <3>7. \A j, k \in 1 .. m : f[j] = f[k] => j = k
          BY <3>4
    <3> HIDE DEF f
    <3>   QED BY <3>5, <3>6, <3>7 DEF Bijection, Injection, Surjection, IsInjective
  <2> HIDE DEF before
  <2>9. m \in Nat /\ ExistsBijection(1 .. m, before)
    <3>1. m \in Nat
          BY <2>4
    <3> HIDE DEF f
    <3>   QED BY <3>1, <2>8 DEF ExistsBijection
  <2>10. Cardinality(before) = m
         BY <2>9, FS_CountingElements
  <2>11. m \in 1 .. n /\ BackgroundCount(text) = BackgroundUntil(types) /\ BackgroundUntil(types) = m
         BY <2>4, <2>3, <2>10, <1>5
  <2>   QED BY <1>9, <1>1, <2>11 DEF types, n
<1>   QED BY <1>8, <1>9

\* What the parser makes of a line.
Understood(text, cmd) ==
    /\ cmd.accepted \in BOOLEAN /\ cmd.trailing_amp \in BOOLEAN
    /\ cmd.groups \in Seq(Seq(Nat)) /\ cmd.types \in Seq({"eof"} \cup TokenKinds)
    /\ cmd.accepted <=> Grammatical(text)
    /\ cmd.accepted =>
         /\ SameGroups(text, cmd.groups)
         /\ ngroups(cmd) = GroupCount(text)
         /\ cmd.trailing_amp => cmd.bg_until \in 1 .. ngroups(cmd) /\ BackgroundCount(text) = cmd.bg_until
         /\ ~cmd.trailing_amp => cmd.bg_until = -1 /\ BackgroundCount(text) = 0
         /\ \A k \in DOMAIN cmd.groups : Len(cmd.groups[k]) > 1 => \E q \in DOMAIN text : text[q] = "pipe"

LEMMA LineParsed ==
    ASSUME NEW text \in Seq(TokenKinds)
    PROVE  Understood(text, parse_shell_cmd(text))
<1> DEFINE r == Groups(text)
           E == Len(text) + 1
           cmd == parse_shell_cmd(text)
<1>0. LoopEnd(text, 1, r)
      BY LoopParsed
<1>1. /\ cmd.groups = r.groups /\ cmd.types = r.types
      /\ cmd.bg_until = BackgroundUntil(r.types)
      /\ cmd.trailing_amp = (\E k \in DOMAIN r.types : r.types[k] = "amp")
      /\ cmd.accepted = (r.ok /\ peek(text, r.end) = "eof")
      BY DEF parse_shell_cmd
<1> HIDE DEF r, cmd
<1>2. /\ r.groups \in Seq(Seq(1 .. E)) /\ r.types \in Seq({"eof"} \cup TokenKinds)
      /\ r.ok /\ peek(text, r.end) = "eof" <=> ~Broken(text, 1) /\ (1 = E \/ IsName(peek(text, 1)))
      /\ r.ok /\ peek(text, r.end) = "eof" => \E ends : Cut(text, 1, r, ends)
      BY <1>0 DEF LoopEnd
<1>3. cmd.accepted \in BOOLEAN /\ cmd.trailing_amp \in BOOLEAN
      BY <1>1
<1>4. cmd.groups \in Seq(Seq(Nat)) /\ cmd.types \in Seq({"eof"} \cup TokenKinds)
      BY <1>1, <1>2
<1>5. cmd.accepted <=> Grammatical(text)
  <2>0. DOMAIN text = 1 .. Len(text) /\ Len(text) \in Nat
        OBVIOUS
  <2>1. Broken(text, 1) <=> \E q \in DOMAIN text : ~WellPlaced(text, q)
        BY <2>0 DEF Broken
  <2>2. 1 = E <=> text = <<>>
        OBVIOUS
  <2>3. text # <<>> => 1 \in 1 .. Len(text) /\ 1 \in 1 .. Len(text) + 1
        OBVIOUS
  <2>4. text # <<>> => peek(text, 1) = text[1]
        BY <2>3, Peeked
  <2>5. Grammatical(text) <=> ~Broken(text, 1) /\ (1 = E \/ IsName(peek(text, 1)))
        BY <2>1, <2>2, <2>4 DEF Grammatical, WellPlaced
  <2>   QED BY <1>1, <1>2, <2>5
<1>6. ASSUME cmd.accepted
      PROVE  /\ SameGroups(text, cmd.groups)
             /\ ngroups(cmd) = GroupCount(text)
             /\ cmd.trailing_amp => cmd.bg_until \in 1 .. ngroups(cmd) /\ BackgroundCount(text) = cmd.bg_until
             /\ ~cmd.trailing_amp => cmd.bg_until = -1 /\ BackgroundCount(text) = 0
             /\ \A k \in DOMAIN cmd.groups : Len(cmd.groups[k]) > 1 => \E q \in DOMAIN text : text[q] = "pipe"
  <2>1. PICK ends : Cut(text, 1, r, ends)
        BY <1>1, <1>2, <1>6
  <2>2. Len(cmd.groups) = Len(ends) /\ Len(ends) = GroupCount(text) /\ DOMAIN cmd.groups = 1 .. Len(ends)
    <3>1. Len(ends) = Len(r.groups)
          BY <2>1 DEF Cut
    <3>   QED BY <3>1, <2>1, <1>1, <1>2, GroupsCounted
  <2>3. ASSUME NEW k \in 1 .. Len(ends)
        PROVE  /\ cmd.groups[k][1] \in GroupStarts(text) /\ Len(cmd.groups[k]) \in Nat
               /\ \A j \in 2 .. Len(cmd.groups[k]) :
                    cmd.groups[k][j] - 1 \in DOMAIN text /\ text[cmd.groups[k][j] - 1] = "pipe"
    <3>1. Atoms(text, Begin(1, ends, k), ends[k], cmd.groups[k])
          BY <2>1, <1>1 DEF Cut
    <3>2. Begin(1, ends, k) \in GroupStarts(text)
          BY <2>1, GroupsCounted
    <3>3. Begin(1, ends, k) \in Nat \ {0} /\ ends[k] \in 2 .. E
      <4>1. ends[k] \in 2 .. E
            BY <2>1, EndsInOrder
      <4>2. Begin(1, ends, k) \in 1 .. ends[k] - 1
            BY <2>1 DEF Cut
      <4>   QED BY <4>1, <4>2
    <3>4. \A q \in Begin(1, ends, k) .. ends[k] - 1 : q \in DOMAIN text
          BY <3>3
    <3>5. Len(cmd.groups[k]) \in Nat
          BY <2>2, <1>4
    <3>   QED BY <3>1, <3>2, <3>4, <3>5 DEF Atoms
  <2>4. \A p \in DOMAIN text : text[p] = "pipe" =>
          \E k \in 1 .. Len(ends) : \E j \in 2 .. Len(cmd.groups[k]) : cmd.groups[k][j] = p + 1
    <3>1. \A p \in DOMAIN text : p \in 1 .. Len(text)
          OBVIOUS
    <3>2. \A q \in 1 .. Len(text) : text[q] = "pipe" =>
            \E k \in 1 .. Len(ends) : \E j \in 2 .. Len(r.groups[k]) : r.groups[k][j] = q + 1
          BY <2>1 DEF Cut
    <3>3. \A q \in 1 .. Len(text) : text[q] = "pipe" =>
            \E k \in 1 .. Len(ends) : \E j \in 2 .. Len(cmd.groups[k]) : cmd.groups[k][j] = q + 1
          BY <3>2, <1>1, Zenon
    <3>   QED BY <3>1, <3>3
  <2>5. SameGroups(text, cmd.groups)
        BY <2>2, <2>3, <2>4 DEF SameGroups
  <2>6. ASSUME NEW k \in DOMAIN cmd.groups, Len(cmd.groups[k]) > 1
        PROVE  \E q \in DOMAIN text : text[q] = "pipe"
    <3>1. Len(cmd.groups[k]) \in Nat
          BY <2>2, <2>3
    <3>2. 2 \in 2 .. Len(cmd.groups[k])
          BY <2>6, <3>1
    <3>   QED BY <3>2, <2>2, <2>3
  <2>7. IF cmd.trailing_amp
        THEN cmd.bg_until \in 1 .. Len(ends) /\ BackgroundCount(text) = cmd.bg_until
        ELSE BackgroundCount(text) = 0
        BY <2>1, <1>1, <1>2, BackgroundCounted
  <2>8. ngroups(cmd) = Len(ends)
        BY <2>2 DEF ngroups
  <2>9. ~cmd.trailing_amp => cmd.bg_until = -1
        BY <1>1 DEF BackgroundUntil
  <2>   QED BY <2>2, <2>5, <2>6, <2>7, <2>8, <2>9
<1>7. Understood(text, cmd)
      BY <1>3, <1>4, <1>5, <1>6 DEF Understood
<1>   QED BY <1>7 DEF cmd

-----------------------------------------------------------------------------
(* What holds of the lines dispatched D, the stacks S, the children forked C, *)
(* the jobs listed L and the groups run R.  They are parameters, as a replay  *)
(* both runs a group and dispatches a line.                                   *)

Count(D, d) == GroupCount(D[d].line)
Back(D, d) == BackgroundCount(D[d].line)
Pending(frame) == frame.g + 1 .. frame.upto
Frames(D) == [d : DOMAIN D, g : Nat, upto : Nat, again : Nat]

\* The lines dispatched are lines that the parser accepted.
Accepted(D) ==
    /\ D \in Seq([line : Lines, cmd : {parse_shell_cmd(text) : text \in Lines}, replay : BOOLEAN])
    /\ \A d \in DOMAIN D : D[d].cmd = parse_shell_cmd(D[d].line) /\ D[d].cmd.accepted

\* A process is in ever later lines.  All but the first of its lines are replays; the
\* first is what was typed, or the background of a line.
Stacks(D, S, C) ==
    /\ S \in [Processes -> Seq(Frames(D))]
    /\ C \in 0 .. MaxChildren
    /\ \A p \in Processes :
         /\ p > C => S[p] = <<>>
         /\ \A k \in DOMAIN S[p] :
              /\ \A j \in 1 .. k - 1 : S[p][j].d < S[p][k].d
              /\ k > 1 => D[S[p][k].d].replay
              /\ S[p][k].upto = IF p # Main /\ k = 1 THEN Back(D, S[p][k].d) ELSE Count(D, S[p][k].d)
    /\ S[Main] # <<>> => ~D[S[Main][1].d].replay /\ S[Main][1].g >= Back(D, S[Main][1].d)

\* No two processes have the same group before them.
Apart(S) ==
    \A p, q \in Processes : \A j \in DOMAIN S[p], k \in DOMAIN S[q] :
      S[p][j].d = S[q][k].d /\ (p # q \/ j # k) =>
        \A h \in Pending(S[p][j]) : h \notin Pending(S[q][k])

Recorded(D, R) == R \in Seq([proc : Processes, d : DOMAIN D, group : Nat])

\* What the job entry of a child names it has run or has before it.
Jobs(D, S, C, L, R) ==
    \A c \in 1 .. C :
      /\ L[c].d \in DOMAIN D /\ L[c].groups = 1 .. Back(D, L[c].d)
      /\ S[c] # <<>> => S[c][1].d = L[c].d
      /\ \A k \in DOMAIN R : R[k].proc = c /\ R[k].d = L[c].d => R[k].group \in L[c].groups
      /\ \A h \in L[c].groups :
           \/ \E k \in DOMAIN R : R[k].proc = c /\ R[k].d = L[c].d /\ R[k].group = h
           \/ S[c] # <<>> /\ h \in Pending(S[c][1])

\* What is due the shell has run in order, or has before it.
DueIn(D, d, g) == ~D[d].replay /\ g \in Back(D, d) + 1 .. Count(D, d)
OfMain(D, R, k) == k \in DOMAIN R /\ R[k].proc = Main /\ ~D[R[k].d].replay
RanIn(D, R, d, g, n) == \E j \in DOMAIN R : OfMain(D, R, j) /\ j < n /\ R[j].d = d /\ R[j].group = g

Foreground(D, S, R) ==
    /\ \A k \in DOMAIN R : OfMain(D, R, k) =>
         /\ DueIn(D, R[k].d, R[k].group)
         /\ \A d \in DOMAIN D : \A g \in 1 .. Count(D, d) :
              DueIn(D, d, g) /\ Earlier(d, g, R[k]) => RanIn(D, R, d, g, k)
         /\ \A j \in DOMAIN R : OfMain(D, R, j) /\ j < k => ~Earlier(R[k].d, R[k].group, R[j])
         /\ S[Main] # <<>> => \/ R[k].d < S[Main][1].d
                              \/ R[k].d = S[Main][1].d /\ R[k].group <= S[Main][1].g + 1
    /\ \A d \in DOMAIN D : \A g \in 1 .. Count(D, d) : DueIn(D, d, g) =>
         \/ RanIn(D, R, d, g, Len(R) + 1)
         \/ S[Main] # <<>> /\ S[Main][1].d = d /\ g > S[Main][1].g

\* The groups of a line that the shell is to run once it has run once, or one process
\* has them before it.
RepeatedIn(D, d) == /\ D[d].cmd.types[1] = "semi"
                    /\ \E p \in DOMAIN D[d].line : D[d].line[p] = "pipe"
Single(D, d) == D[d].line # <<>> /\ ~RepeatedIn(D, d) /\ (D[d].replay => Back(D, d) = 0)

Once(D, S, R) ==
    \A d \in DOMAIN D : Single(D, d) =>
      /\ \A p \in Processes : \A k \in DOMAIN S[p] : S[p][k].d = d =>
           S[p][k].again = 0 /\ \A j \in DOMAIN R : R[j].d = d => R[j].group \notin Pending(S[p][k])
      /\ \A h \in 1 .. Count(D, d) :
           \/ \E j \in DOMAIN R : R[j].d = d /\ R[j].group = h
           \/ \E p \in Processes : \E k \in DOMAIN S[p] : S[p][k].d = d /\ h \in Pending(S[p][k])
      /\ \A i, j \in DOMAIN R : R[i].d = d /\ R[j].d = d /\ R[i].group = R[j].group => i = j

\* A replay has run what it is to run, or has it before it; the line of a process that
\* is in an earlier one has run it all or is further up its stack; and a process that
\* went back to an earlier line had done so, is not in the other line, and did not go
\* into it again.
ReplayedIn(D, d) == (IF Back(D, d) = 0 THEN 1 ELSE Back(D, d) + 2) .. Count(D, d)
RanBy(R, p, d, g, n) == \E i \in DOMAIN R : i < n /\ R[i].proc = p /\ R[i].d = d /\ R[i].group = g
WholeRun(D, R, p, d, n) == \A g \in ReplayedIn(D, d) : RanBy(R, p, d, g, n)
InLine(S, p, d) == \E k \in DOMAIN S[p] : S[p][k].d = d

OnItsWay(D, S, R) ==
    \A p \in Processes : \A k \in DOMAIN S[p] : k # 1 =>
      \A g \in ReplayedIn(D, S[p][k].d) : g \in Pending(S[p][k]) \/ RanBy(R, p, S[p][k].d, g, Len(R) + 1)
Above(D, S, R) ==
    \A j \in DOMAIN R : \A k \in DOMAIN S[R[j].proc] : S[R[j].proc][k].d < R[j].d =>
      InLine(S, R[j].proc, R[j].d) \/ WholeRun(D, R, R[j].proc, R[j].d, Len(R) + 1)
WentBack(D, S, R) ==
    \A j, k \in DOMAIN R : j < k /\ R[j].proc = R[k].proc /\ R[k].d < R[j].d =>
      /\ WholeRun(D, R, R[k].proc, R[j].d, k)
      /\ ~InLine(S, R[k].proc, R[j].d)
      /\ \A i \in DOMAIN R : i > k /\ R[i].proc = R[k].proc => R[i].d # R[j].d
Nested(D, S, R) == OnItsWay(D, S, R) /\ Above(D, S, R) /\ WentBack(D, S, R)

Good(D, S, C, L, R) ==
    Accepted(D) /\ Stacks(D, S, C) /\ Apart(S) /\ Recorded(D, R)
      /\ Jobs(D, S, C, L, R) /\ Foreground(D, S, R) /\ Once(D, S, R) /\ Nested(D, S, R)

\* The inductive invariant.
DispatchInv ==
    /\ line \in Lines \cup {<<>>} /\ accepted \in BOOLEAN /\ (accepted <=> Grammatical(line))
    /\ Len(dispatched) <= MaxDispatches /\ DOMAIN listed = Processes /\ broken \subseteq Processes
    /\ Good(dispatched, stack, children, listed, ran)

-----------------------------------------------------------------------------
(* A group is run: only the frame on top of p's stack goes on, and one entry *)
(* is added to what was run.                                                 *)

Runs1(D, S, R, p, T, Q) ==
    LET t == Len(S[p])
    IN  /\ t \in DOMAIN S[p] /\ S[p][t].g < S[p][t].upto
        /\ T \in [Processes -> Seq(Frames(D))]
        /\ \A q \in Processes :
             /\ DOMAIN T[q] = DOMAIN S[q] /\ (T[q] = <<>> <=> S[q] = <<>>)
             /\ \A k \in DOMAIN S[q] : /\ T[q][k].d = S[q][k].d /\ T[q][k].upto = S[q][k].upto
                                       /\ q # p \/ k # t => T[q][k] = S[q][k]
        /\ T[p][t].g \in {S[p][t].g, S[p][t].g + 1}
        /\ Single(D, S[p][t].d) /\ S[p][t].again = 0 => T[p][t].g = S[p][t].g + 1 /\ T[p][t].again = 0
        /\ Recorded(D, Q) /\ DOMAIN Q = DOMAIN R \cup {Len(R) + 1} /\ Len(Q) = Len(R) + 1
        /\ \A k \in DOMAIN R : Q[k] = R[k]
        /\ Q[Len(R) + 1] = [proc |-> p, d |-> S[p][t].d, group |-> S[p][t].g + 1]

\* The types, of the places on the stacks.
LEMMA StackFacts ==
    ASSUME NEW D, NEW S, NEW C, Accepted(D), Stacks(D, S, C)
    PROVE  /\ Main \in Processes /\ C \in Nat /\ \A c \in 1 .. C : c \in Processes /\ c # Main
           /\ \A q \in Processes :
                /\ S[q] \in Seq(Frames(D)) /\ Len(S[q]) \in Nat /\ DOMAIN S[q] = 1 .. Len(S[q])
                /\ S[q] # <<>> <=> 1 \in DOMAIN S[q]
                /\ \A k \in DOMAIN S[q] : /\ S[q][k] \in Frames(D) /\ S[q][k].d \in DOMAIN D /\ S[q][k].d \in Nat
                                          /\ S[q][k].g \in Nat /\ S[q][k].upto \in Nat /\ S[q][k].again \in Nat
<1>1. MaxChildren \in Nat /\ C \in 0 .. MaxChildren
      BY DispatchAssumption DEF Stacks
<1>2. Main \in Processes /\ C \in Nat /\ \A c \in 1 .. C : c \in Processes /\ c # Main
      BY <1>1 DEF Processes, Main
<1>3. DOMAIN D \subseteq Nat
      BY DEF Accepted
<1>4. \A f \in Frames(D) : /\ f.d \in DOMAIN D /\ f.d \in Nat
                           /\ f.g \in Nat /\ f.upto \in Nat /\ f.again \in Nat
      BY <1>3 DEF Frames
<1>5. ASSUME NEW q \in Processes
      PROVE  /\ S[q] \in Seq(Frames(D)) /\ Len(S[q]) \in Nat /\ DOMAIN S[q] = 1 .. Len(S[q])
             /\ S[q] # <<>> <=> 1 \in DOMAIN S[q]
             /\ \A k \in DOMAIN S[q] : S[q][k] \in Frames(D)
  <2>1. S[q] \in Seq(Frames(D))
        BY DEF Stacks
  <2>   QED BY <2>1
<1>   QED BY <1>2, <1>4, <1>5

\* A line dispatched has so many groups, and so many of them before its first &.
LEMMA LineCounts ==
    ASSUME NEW D, Accepted(D)
    PROVE  \A d \in DOMAIN D :
             /\ D[d].line \in Lines /\ Understood(D[d].line, D[d].cmd) /\ D[d].cmd.accepted /\ D[d].replay \in BOOLEAN
             /\ Count(D, d) \in Nat /\ Back(D, d) \in 0 .. Count(D, d) /\ ngroups(D[d].cmd) = Count(D, d)
<1> SUFFICES ASSUME NEW d \in DOMAIN D
             PROVE  /\ D[d].line \in Lines /\ Understood(D[d].line, D[d].cmd) /\ D[d].cmd.accepted
                    /\ D[d].replay \in BOOLEAN
                    /\ Count(D, d) \in Nat /\ Back(D, d) \in 0 .. Count(D, d) /\ ngroups(D[d].cmd) = Count(D, d)
    OBVIOUS
<1>1. D[d].line \in Lines /\ D[d].replay \in BOOLEAN
  <2> DEFINE E == [line : Lines, cmd : {parse_shell_cmd(text) : text \in Lines}, replay : BOOLEAN]
  <2>1. D \in Seq(E)
        BY DEF Accepted
  <2>2. D[d] \in E
    <3> HIDE DEF E
    <3>   QED BY <2>1
  <2>   QED BY <2>2
<1>2. D[d].cmd = parse_shell_cmd(D[d].line) /\ D[d].cmd.accepted
      BY DEF Accepted
<1>3. Understood(D[d].line, D[d].cmd)
      BY <1>1, <1>2, LineParsed, DispatchAssumption
<1>4. ngroups(D[d].cmd) = Count(D, d) /\ ngroups(D[d].cmd) \in Nat
      BY <1>2, <1>3 DEF Understood, Count, ngroups
<1>5. Back(D, d) \in 0 .. Count(D, d)
      BY <1>2, <1>3, <1>4 DEF Understood, Back
<1>   QED BY <1>1, <1>2, <1>3, <1>4, <1>5

\* What is before a process only shrinks, and loses at most the group that is run.
Shrinks(S, p, T) ==
    \A q \in Processes : \A k \in DOMAIN S[q] :
      /\ Pending(T[q][k]) \subseteq Pending(S[q][k])
      /\ \A h \in Pending(S[q][k]) :
           h \in Pending(T[q][k]) \/ (q = p /\ k = Len(S[p]) /\ h = S[p][k].g + 1)

LEMMA RunPending ==
    ASSUME NEW D, NEW S, NEW C, NEW R, NEW p \in Processes, NEW T, NEW Q,
           Accepted(D), Stacks(D, S, C), Runs1(D, S, R, p, T, Q)
    PROVE  Shrinks(S, p, T)
<1> SUFFICES ASSUME NEW q \in Processes, NEW k \in DOMAIN S[q]
             PROVE  /\ Pending(T[q][k]) \subseteq Pending(S[q][k])
                    /\ \A h \in Pending(S[q][k]) :
                         h \in Pending(T[q][k]) \/ (q = p /\ k = Len(S[p]) /\ h = S[p][k].g + 1)
    BY DEF Shrinks
<1>1. S[q][k].g \in Nat /\ S[q][k].upto \in Nat
      BY StackFacts
<1>2. CASE q # p \/ k # Len(S[p])
  <2>1. T[q][k] = S[q][k]
        BY <1>2 DEF Runs1
  <2>   QED BY <2>1, <1>1, <1>2
<1>3. CASE q = p /\ k = Len(S[p])
  <2>1. T[q][k].g \in {S[q][k].g, S[q][k].g + 1} /\ T[q][k].upto = S[q][k].upto
        BY <1>3 DEF Runs1
  <2>2. \A g, u \in Nat : \A next \in {g, g + 1} :
          next + 1 .. u \subseteq g + 1 .. u /\ \A h \in g + 1 .. u : h \in next + 1 .. u \/ h = g + 1
        OBVIOUS
  <2>3. /\ T[q][k].g + 1 .. S[q][k].upto \subseteq S[q][k].g + 1 .. S[q][k].upto
        /\ \A h \in S[q][k].g + 1 .. S[q][k].upto :
             h \in T[q][k].g + 1 .. S[q][k].upto \/ h = S[q][k].g + 1
        BY <2>1, <2>2, <1>1
  <2>4. T[q][k].upto = S[q][k].upto
        BY <2>1
  <2>   QED BY <2>3, <2>4, <1>3, Zenon DEF Pending
<1>   QED BY <1>2, <1>3

LEMMA RunStacks ==
    ASSUME NEW D, NEW S, NEW C, NEW R, NEW p \in Processes, NEW T, NEW Q,
           Accepted(D), Stacks(D, S, C), Apart(S), Runs1(D, S, R, p, T, Q)
    PROVE  Stacks(D, T, C) /\ Apart(T)
<1>1. \A q \in Processes : /\ DOMAIN T[q] = DOMAIN S[q] /\ (T[q] = <<>> <=> S[q] = <<>>)
                           /\ \A k \in DOMAIN S[q] : T[q][k].d = S[q][k].d /\ T[q][k].upto = S[q][k].upto
      BY DEF Runs1
<1>2. \A q \in Processes : \A k \in DOMAIN S[q] : Pending(T[q][k]) \subseteq Pending(S[q][k])
      BY RunPending DEF Shrinks
<1>3. \A q \in Processes : \A k \in DOMAIN S[q] : \A j \in 1 .. k - 1 : j \in DOMAIN S[q]
  <2> SUFFICES ASSUME NEW q \in Processes, NEW k \in DOMAIN S[q], NEW j \in 1 .. k - 1 PROVE j \in DOMAIN S[q]
      OBVIOUS
  <2>1. DOMAIN S[q] = 1 .. Len(S[q]) /\ Len(S[q]) \in Nat
        BY StackFacts
  <2>   QED BY <2>1
<1>4. ASSUME T[Main] # <<>> PROVE 1 \in DOMAIN S[Main] /\ S[Main] # <<>> /\ Main \in Processes /\ S[Main][1].g \in Nat
      BY <1>1, <1>4, StackFacts
<1>5. T \in [Processes -> Seq(Frames(D))]
      BY DEF Runs1
<1>6. \A q \in Processes :
         /\ q > C => T[q] = <<>>
         /\ \A k \in DOMAIN T[q] :
              /\ \A j \in 1 .. k - 1 : T[q][j].d < T[q][k].d
              /\ k > 1 => D[T[q][k].d].replay
              /\ T[q][k].upto = IF q # Main /\ k = 1 THEN Back(D, T[q][k].d) ELSE Count(D, T[q][k].d)
  <2> SUFFICES ASSUME NEW q \in Processes
               PROVE  /\ q > C => T[q] = <<>>
                      /\ \A k \in DOMAIN T[q] :
                           /\ \A j \in 1 .. k - 1 : T[q][j].d < T[q][k].d
                           /\ k > 1 => D[T[q][k].d].replay
                           /\ T[q][k].upto = IF q # Main /\ k = 1 THEN Back(D, T[q][k].d)
                                            ELSE Count(D, T[q][k].d)
      OBVIOUS
  <2>1. q > C => T[q] = <<>>
        BY <1>1 DEF Stacks
  <2>2. \A k \in DOMAIN S[q] :
           /\ \A j \in 1 .. k - 1 : S[q][j].d < S[q][k].d
           /\ k > 1 => D[S[q][k].d].replay
           /\ S[q][k].upto = IF q # Main /\ k = 1 THEN Back(D, S[q][k].d) ELSE Count(D, S[q][k].d)
        BY DEF Stacks
  <2>   QED BY <1>1, <1>3, <2>1, <2>2
<1>7. T[Main] # <<>> => ~D[T[Main][1].d].replay /\ T[Main][1].g >= Back(D, T[Main][1].d)
  <2> SUFFICES ASSUME T[Main] # <<>> PROVE ~D[T[Main][1].d].replay /\ T[Main][1].g >= Back(D, T[Main][1].d)
      OBVIOUS
  <2>1. ~D[S[Main][1].d].replay /\ S[Main][1].g >= Back(D, S[Main][1].d)
        BY <1>4 DEF Stacks
  <2>2. T[Main][1].d = S[Main][1].d /\ T[Main][1].g \in {S[Main][1].g, S[Main][1].g + 1}
        BY <1>1, <1>4 DEF Runs1
  <2>3. T[Main][1].g >= Back(D, S[Main][1].d)
    <3>1. Back(D, S[Main][1].d) \in Int
          BY <1>4, StackFacts, LineCounts
    <3>   QED BY <3>1, <2>1, <2>2, <1>4
  <2>   QED BY <2>1, <2>2, <2>3
<1>8. Stacks(D, T, C)
      BY <1>5, <1>6, <1>7 DEF Stacks
<1>9. Apart(T)
  <2> SUFFICES ASSUME NEW a \in Processes, NEW q \in Processes, NEW j \in DOMAIN T[a], NEW k \in DOMAIN T[q],
                      T[a][j].d = T[q][k].d, a # q \/ j # k, NEW h \in Pending(T[a][j])
               PROVE  h \notin Pending(T[q][k])
      BY DEF Apart
  <2>1. j \in DOMAIN S[a] /\ k \in DOMAIN S[q] /\ S[a][j].d = S[q][k].d
        BY <1>1
  <2>2. h \in Pending(S[a][j]) /\ Pending(T[q][k]) \subseteq Pending(S[q][k])
        BY <1>2, <2>1
  <2>   QED BY <2>1, <2>2 DEF Apart
<1>   QED BY <1>8, <1>9

LEMMA RunJobs ==
    ASSUME NEW D, NEW S, NEW C, NEW L, NEW R, NEW p \in Processes, NEW T, NEW Q,
           Accepted(D), Stacks(D, S, C), Recorded(D, R), Jobs(D, S, C, L, R), Runs1(D, S, R, p, T, Q)
    PROVE  Jobs(D, T, C, L, Q)
<1> SUFFICES ASSUME NEW c \in 1 .. C
             PROVE  /\ L[c].d \in DOMAIN D /\ L[c].groups = 1 .. Back(D, L[c].d)
                    /\ T[c] # <<>> => T[c][1].d = L[c].d
                    /\ \A k \in DOMAIN Q : Q[k].proc = c /\ Q[k].d = L[c].d => Q[k].group \in L[c].groups
                    /\ \A h \in L[c].groups :
                         \/ \E k \in DOMAIN Q : Q[k].proc = c /\ Q[k].d = L[c].d /\ Q[k].group = h
                         \/ T[c] # <<>> /\ h \in Pending(T[c][1])
    BY DEF Jobs
<1> DEFINE t == Len(S[p])
           last == Len(R) + 1
<1>0. c \in Processes /\ c # Main
      BY StackFacts
<1>1. /\ L[c].d \in DOMAIN D /\ L[c].groups = 1 .. Back(D, L[c].d)
      /\ S[c] # <<>> => S[c][1].d = L[c].d
      /\ \A k \in DOMAIN R : R[k].proc = c /\ R[k].d = L[c].d => R[k].group \in L[c].groups
      /\ \A h \in L[c].groups :
           \/ \E k \in DOMAIN R : R[k].proc = c /\ R[k].d = L[c].d /\ R[k].group = h
           \/ S[c] # <<>> /\ h \in Pending(S[c][1])
      BY DEF Jobs
<1>2. S[c] # <<>> => 1 \in DOMAIN S[c]
      BY <1>0, StackFacts
<1>3. /\ DOMAIN Q = DOMAIN R \cup {last} /\ \A k \in DOMAIN R : Q[k] = R[k]
      /\ Q[last].proc = p /\ Q[last].d = S[p][t].d /\ Q[last].group = S[p][t].g + 1
      /\ t \in DOMAIN S[p] /\ S[p][t].g < S[p][t].upto
      BY DEF Runs1
<1>4. (T[c] = <<>> <=> S[c] = <<>>) /\ \A k \in DOMAIN S[c] : T[c][k].d = S[c][k].d
      BY <1>0 DEF Runs1
<1>5. ASSUME p = c, S[p][t].d = L[c].d
      PROVE  t = 1 /\ S[p][t].g + 1 \in L[c].groups
  <2>1. /\ t \in 1 .. t /\ t \in Nat /\ 1 \in DOMAIN S[p] /\ S[p] # <<>>
        /\ S[p][t].d \in Nat /\ S[p][t].g \in Nat /\ S[p][t].upto \in Nat
    <3>1. DOMAIN S[p] = 1 .. t /\ t \in Nat /\ (S[p] # <<>> <=> 1 \in DOMAIN S[p])
          BY StackFacts
    <3>2. S[p][t].d \in Nat /\ S[p][t].g \in Nat /\ S[p][t].upto \in Nat
          BY <1>3, StackFacts
    <3>   QED BY <3>1, <3>2, <1>3
  <2>2. S[p][1].d = S[p][t].d
        BY <2>1, <1>1, <1>5
  <2>3. t = 1
    <3>1. t > 1 => 1 \in 1 .. t - 1
          BY <2>1
    <3>2. t > 1 => S[p][1].d < S[p][t].d
          BY <3>1, <1>3 DEF Stacks
    <3>3. ~(t > 1)
          BY <3>2, <2>1, <2>2
    <3>4. t \in Nat /\ t >= 1
          BY <2>1
    <3> HIDE DEF t
    <3>   QED BY <3>3, <3>4
  <2>4. S[p][t].upto = Back(D, S[p][t].d)
        BY <2>3, <1>0, <1>3, <1>5 DEF Stacks
  <2>   QED BY <2>1, <2>3, <2>4, <1>1, <1>3, <1>5
<1>8. Shrinks(S, p, T)
      BY RunPending
<1>6. ASSUME NEW k \in DOMAIN Q, Q[k].proc = c, Q[k].d = L[c].d PROVE Q[k].group \in L[c].groups
      BY <1>6, <1>1, <1>3, <1>5
<1>7. ASSUME NEW h \in L[c].groups
      PROVE  \/ \E k \in DOMAIN Q : Q[k].proc = c /\ Q[k].d = L[c].d /\ Q[k].group = h
             \/ T[c] # <<>> /\ h \in Pending(T[c][1])
  <2>1. CASE \E k \in DOMAIN R : R[k].proc = c /\ R[k].d = L[c].d /\ R[k].group = h
        BY <2>1, <1>3
  <2>2. CASE S[c] # <<>> /\ h \in Pending(S[c][1])
    <3>1. h \in Pending(T[c][1]) \/ (c = p /\ 1 = t /\ h = S[p][1].g + 1)
      <4>1. \A i \in Pending(S[c][1]) :
              i \in Pending(T[c][1]) \/ (c = p /\ 1 = Len(S[p]) /\ i = S[p][1].g + 1)
            BY <1>8, <2>2, <1>0, <1>2 DEF Shrinks
      <4>   QED BY <4>1, <2>2
    <3>2. last \in DOMAIN Q
          BY <1>3
    <3>   QED BY <3>1, <3>2, <2>2, <1>1, <1>3, <1>4
  <2>   QED BY <2>1, <2>2, <1>1
<1>   QED BY <1>1, <1>2, <1>4, <1>6, <1>7

LEMMA RunForeground ==
    ASSUME NEW D, NEW S, NEW C, NEW R, NEW p \in Processes, NEW T, NEW Q,
           Accepted(D), Stacks(D, S, C), Recorded(D, R), Foreground(D, S, R), Runs1(D, S, R, p, T, Q)
    PROVE  Foreground(D, T, Q)
<1> DEFINE t == Len(S[p])
           last == Len(R) + 1
           first == S[Main][1]
<1>1. Len(R) \in Nat /\ DOMAIN R = 1 .. Len(R) /\ \A k \in DOMAIN R : R[k].group \in Nat /\ R[k].d \in DOMAIN D
  <2> DEFINE E == [proc : Processes, d : DOMAIN D, group : Nat]
  <2>1. R \in Seq(E)
        BY DEF Recorded
  <2>2. \A k \in DOMAIN R : R[k] \in E
    <3> HIDE DEF E
    <3>   QED BY <2>1
  <2>   QED BY <2>1, <2>2
<1>2. /\ DOMAIN Q = DOMAIN R \cup {last} /\ Len(Q) = last /\ \A k \in DOMAIN R : Q[k] = R[k]
      /\ Q[last].proc = p /\ Q[last].d = S[p][t].d /\ Q[last].group = S[p][t].g + 1
      /\ t \in DOMAIN S[p] /\ S[p][t].g < S[p][t].upto
      BY DEF Runs1
<1>3. S[Main] # <<>> => /\ 1 \in DOMAIN S[Main] /\ Main \in Processes /\ first.g \in Nat /\ first.upto \in Nat
                        /\ first.d \in DOMAIN D /\ first.d \in Nat
                        /\ ~D[first.d].replay /\ first.g >= Back(D, first.d) /\ first.upto = Count(D, first.d)
  <2>1. S[Main] # <<>> => /\ 1 \in DOMAIN S[Main] /\ Main \in Processes /\ first.g \in Nat /\ first.upto \in Nat
                          /\ first.d \in DOMAIN D /\ first.d \in Nat
        BY StackFacts
  <2>2. S[Main] # <<>> => first.upto = Count(D, first.d)
        BY <2>1 DEF Stacks
  <2>   QED BY <2>1, <2>2 DEF Stacks
<1>4. T[Main] # <<>> <=> S[Main] # <<>>
      BY StackFacts DEF Runs1
<1>5. S[Main] # <<>> => /\ T[Main][1].d = first.d /\ T[Main][1].g \in {first.g, first.g + 1}
                        /\ T[Main][1].g # first.g => p = Main /\ t = 1
      BY <1>3 DEF Runs1
<1>6. OfMain(D, Q, last) => p = Main /\ t = 1 /\ S[Main] # <<>>
  <2> SUFFICES ASSUME OfMain(D, Q, last) PROVE p = Main /\ t = 1 /\ S[Main] # <<>>
      OBVIOUS
  <2>1. p = Main /\ ~D[S[p][t].d].replay
        BY <1>2 DEF OfMain
  <2>2. ~(t > 1)
        BY <1>2, <2>1 DEF Stacks
  <2>3. t \in Nat /\ DOMAIN S[p] = 1 .. t
        BY StackFacts
  <2>4. t = 1
    <3>1. t \in 1 .. t
          BY <1>2, <2>3
    <3> HIDE DEF t
    <3>   QED BY <2>2, <2>3, <3>1
  <2>5. 1 \in DOMAIN S[Main]
        BY <2>1, <2>4, <1>2
  <2>   QED BY <2>1, <2>4, <2>5, StackFacts
<1>7. /\ \A k \in DOMAIN R : /\ OfMain(D, Q, k) <=> OfMain(D, R, k)
                             /\ k \in DOMAIN Q /\ k \in Nat /\ k < last /\ k # last
      /\ last \in DOMAIN Q /\ last \in Nat
      BY <1>1, <1>2 DEF OfMain
<1>8. \A d, g, n : RanIn(D, R, d, g, n) => RanIn(D, Q, d, g, n)
      BY <1>2, <1>7 DEF RanIn
<1>9. /\ \A k \in DOMAIN R : OfMain(D, R, k) =>
         /\ DueIn(D, R[k].d, R[k].group)
         /\ \A d \in DOMAIN D : \A g \in 1 .. Count(D, d) :
              DueIn(D, d, g) /\ Earlier(d, g, R[k]) => RanIn(D, R, d, g, k)
         /\ \A j \in DOMAIN R : OfMain(D, R, j) /\ j < k => ~Earlier(R[k].d, R[k].group, R[j])
         /\ S[Main] # <<>> => \/ R[k].d < first.d
                              \/ R[k].d = first.d /\ R[k].group <= first.g + 1
      /\ \A d \in DOMAIN D : \A g \in 1 .. Count(D, d) : DueIn(D, d, g) =>
         \/ RanIn(D, R, d, g, last)
         \/ S[Main] # <<>> /\ first.d = d /\ g > first.g
      BY DEF Foreground
<1>10. DOMAIN D \subseteq Nat
       BY DEF Accepted
<1> HIDE DEF t, last, first
<1>11. ASSUME NEW k \in DOMAIN R, OfMain(D, Q, k)
       PROVE  /\ DueIn(D, Q[k].d, Q[k].group)
              /\ \A d \in DOMAIN D : \A g \in 1 .. Count(D, d) :
                   DueIn(D, d, g) /\ Earlier(d, g, Q[k]) => RanIn(D, Q, d, g, k)
              /\ \A j \in DOMAIN Q : OfMain(D, Q, j) /\ j < k => ~Earlier(Q[k].d, Q[k].group, Q[j])
              /\ T[Main] # <<>> => \/ Q[k].d < T[Main][1].d
                                   \/ Q[k].d = T[Main][1].d /\ Q[k].group <= T[Main][1].g + 1
  <2>1. OfMain(D, R, k) /\ Q[k] = R[k]
        BY <1>2, <1>7, <1>11
  <2>2. DueIn(D, Q[k].d, Q[k].group)
        BY <2>1, <1>9
  <2>3. \A d \in DOMAIN D : \A g \in 1 .. Count(D, d) :
          DueIn(D, d, g) /\ Earlier(d, g, Q[k]) => RanIn(D, Q, d, g, k)
        BY <2>1, <1>8, <1>9
  <2>4. ASSUME NEW j \in DOMAIN Q, OfMain(D, Q, j), j < k PROVE ~Earlier(Q[k].d, Q[k].group, Q[j])
    <3>1. j # last
          BY <1>7, <2>4
    <3>2. j \in DOMAIN R
          BY <3>1, <1>2
    <3>   QED BY <3>2, <2>1, <2>4, <1>2, <1>7, <1>9
  <2>5. ASSUME T[Main] # <<>>
        PROVE  \/ Q[k].d < T[Main][1].d
               \/ Q[k].d = T[Main][1].d /\ Q[k].group <= T[Main][1].g + 1
    <3>1. R[k].d < first.d \/ (R[k].d = first.d /\ R[k].group <= first.g + 1)
          BY <2>1, <2>5, <1>4, <1>9
    <3>2. /\ T[Main][1].d = first.d /\ T[Main][1].g \in {first.g, first.g + 1}
          /\ first.g \in Nat /\ R[k].group \in Nat
          BY <2>5, <1>1, <1>3, <1>4, <1>5
    <3>   QED BY <3>1, <3>2, <2>1
  <2>   QED BY <2>2, <2>3, <2>4, <2>5
<1>12. ASSUME OfMain(D, Q, last)
       PROVE  /\ DueIn(D, Q[last].d, Q[last].group)
              /\ \A d \in DOMAIN D : \A g \in 1 .. Count(D, d) :
                   DueIn(D, d, g) /\ Earlier(d, g, Q[last]) => RanIn(D, Q, d, g, last)
              /\ \A j \in DOMAIN Q : OfMain(D, Q, j) /\ j < last => ~Earlier(Q[last].d, Q[last].group, Q[j])
              /\ T[Main] # <<>> => \/ Q[last].d < T[Main][1].d
                                   \/ Q[last].d = T[Main][1].d /\ Q[last].group <= T[Main][1].g + 1
  <2>1. p = Main /\ t = 1 /\ S[Main] # <<>>
        BY <1>6, <1>12
  <2>2. Q[last].d = first.d /\ Q[last].group = first.g + 1 /\ first.g < first.upto
        BY <2>1, <1>2 DEF first
  <2>3. /\ first.g \in Nat /\ first.upto \in Nat /\ first.d \in DOMAIN D /\ first.d \in Nat
        /\ ~D[first.d].replay /\ first.g >= Back(D, first.d) /\ first.upto = Count(D, first.d)
        BY <2>1, <1>3
  <2>4. DueIn(D, Q[last].d, Q[last].group)
    <3>1. Back(D, first.d) \in Int
          BY <2>3, LineCounts
    <3>   QED BY <3>1, <2>2, <2>3 DEF DueIn
  <2>5. ASSUME NEW d \in DOMAIN D, NEW g \in 1 .. Count(D, d), DueIn(D, d, g), Earlier(d, g, Q[last])
        PROVE  RanIn(D, Q, d, g, last)
    <3>1. d < first.d \/ (d = first.d /\ g < first.g + 1)
          BY <2>2, <2>5 DEF Earlier
    <3>2. ~(first.d = d /\ g > first.g)
          BY <3>1, <2>3, <1>10
    <3>   QED BY <3>2, <2>5, <1>8, <1>9
  <2>6. ASSUME NEW j \in DOMAIN Q, OfMain(D, Q, j), j < last PROVE ~Earlier(Q[last].d, Q[last].group, Q[j])
    <3>1. j \in DOMAIN R
          BY <2>6, <1>2, <1>7
    <3>2. OfMain(D, R, j) /\ Q[j] = R[j] /\ R[j].group \in Nat /\ R[j].d \in Nat
          BY <3>1, <2>6, <1>1, <1>2, <1>7, <1>10
    <3>3. R[j].d < first.d \/ (R[j].d = first.d /\ R[j].group <= first.g + 1)
          BY <3>1, <3>2, <2>1, <1>9
    <3>   QED BY <3>2, <3>3, <2>2, <2>3 DEF Earlier
  <2>7. T[Main][1].d = first.d /\ T[Main][1].g \in {first.g, first.g + 1}
        BY <2>1, <1>5
  <2>   QED BY <2>2, <2>3, <2>4, <2>5, <2>6, <2>7
<1>13. ASSUME NEW d \in DOMAIN D, NEW g \in 1 .. Count(D, d), DueIn(D, d, g)
       PROVE  \/ RanIn(D, Q, d, g, Len(Q) + 1)
              \/ T[Main] # <<>> /\ T[Main][1].d = d /\ g > T[Main][1].g
  <2>1. CASE RanIn(D, R, d, g, last)
    <3>1. PICK j \in DOMAIN R : OfMain(D, R, j) /\ j < last /\ R[j].d = d /\ R[j].group = g
          BY <2>1 DEF RanIn
    <3>2. j \in DOMAIN Q /\ OfMain(D, Q, j) /\ j < Len(Q) + 1 /\ Q[j].d = d /\ Q[j].group = g
          BY <3>1, <1>2, <1>7
    <3>   QED BY <3>2 DEF RanIn
  <2>2. CASE S[Main] # <<>> /\ first.d = d /\ g > first.g
    <3>1. T[Main] # <<>> /\ T[Main][1].d = d /\ T[Main][1].g \in {first.g, first.g + 1} /\ first.g \in Nat
          BY <2>2, <1>3, <1>4, <1>5
    <3>2. CASE T[Main][1].g = first.g
          BY <3>1, <3>2, <2>2
    <3>3. CASE T[Main][1].g # first.g
      <4>1. p = Main /\ t = 1
            BY <3>3, <2>2, <1>5
      <4>2. Q[last].proc = Main /\ Q[last].d = d /\ Q[last].group = first.g + 1 /\ ~D[d].replay
            BY <4>1, <2>2, <1>2, <1>3 DEF first
      <4>3. OfMain(D, Q, last) /\ last < Len(Q) + 1
            BY <4>2, <1>2, <1>7 DEF OfMain
      <4>4. g = first.g + 1 \/ g > T[Main][1].g
            BY <3>1, <3>3, <2>2
      <4>   QED BY <3>1, <4>2, <4>3, <4>4, <1>7 DEF RanIn
    <3>   QED BY <3>2, <3>3
  <2>   QED BY <2>1, <2>2, <1>13, <1>9
<1>14. \A k \in DOMAIN Q : k \in DOMAIN R \/ k = last
       BY <1>2
<1>   QED BY <1>11, <1>12, <1>13, <1>14 DEF Foreground

LEMMA RunOnce ==
    ASSUME NEW D, NEW S, NEW C, NEW R, NEW p \in Processes, NEW T, NEW Q,
           Accepted(D), Stacks(D, S, C), Apart(S), Recorded(D, R), Once(D, S, R), Runs1(D, S, R, p, T, Q)
    PROVE  Once(D, T, Q)
<1> DEFINE t == Len(S[p])
           last == Len(R) + 1
           g == S[p][t].g + 1
<1>1. Len(R) \in Nat /\ DOMAIN R = 1 .. Len(R)
      BY DEF Recorded
<1>2. /\ DOMAIN Q = DOMAIN R \cup {last} /\ \A k \in DOMAIN R : Q[k] = R[k]
      /\ Q[last].d = S[p][t].d /\ Q[last].group = g
      /\ t \in DOMAIN S[p] /\ S[p][t].g < S[p][t].upto
      BY DEF Runs1
<1>3. last \notin DOMAIN R
      BY <1>1
<1>4. Shrinks(S, p, T)
      BY RunPending
<1>5. S[p][t].g \in Nat /\ S[p][t].upto \in Nat
      BY <1>2, StackFacts
<1>6. g \in Pending(S[p][t])
      BY <1>2, <1>5 DEF Pending
<1>7. /\ \A q \in Processes : DOMAIN T[q] = DOMAIN S[q] /\ \A k \in DOMAIN S[q] : T[q][k].d = S[q][k].d
      /\ \A q \in Processes : \A k \in DOMAIN S[q] : q # p \/ k # t => T[q][k] = S[q][k]
      /\ Single(D, S[p][t].d) /\ S[p][t].again = 0 => T[p][t].g = S[p][t].g + 1 /\ T[p][t].again = 0
      BY DEF Runs1
<1> HIDE DEF t, last, g
<1> SUFFICES ASSUME NEW d \in DOMAIN D, Single(D, d)
             PROVE  /\ \A q \in Processes : \A k \in DOMAIN T[q] : T[q][k].d = d =>
                         T[q][k].again = 0 /\ \A j \in DOMAIN Q : Q[j].d = d => Q[j].group \notin Pending(T[q][k])
                    /\ \A h \in 1 .. Count(D, d) :
                         \/ \E j \in DOMAIN Q : Q[j].d = d /\ Q[j].group = h
                         \/ \E q \in Processes : \E k \in DOMAIN T[q] : T[q][k].d = d /\ h \in Pending(T[q][k])
                    /\ \A i, j \in DOMAIN Q : Q[i].d = d /\ Q[j].d = d /\ Q[i].group = Q[j].group => i = j
    BY DEF Once
<1>8. /\ \A q \in Processes : \A k \in DOMAIN S[q] : S[q][k].d = d =>
           S[q][k].again = 0 /\ \A j \in DOMAIN R : R[j].d = d => R[j].group \notin Pending(S[q][k])
      /\ \A h \in 1 .. Count(D, d) :
           \/ \E j \in DOMAIN R : R[j].d = d /\ R[j].group = h
           \/ \E q \in Processes : \E k \in DOMAIN S[q] : S[q][k].d = d /\ h \in Pending(S[q][k])
      /\ \A i, j \in DOMAIN R : R[i].d = d /\ R[j].d = d /\ R[i].group = R[j].group => i = j
      BY DEF Once
<1>9. ASSUME NEW q \in Processes, NEW k \in DOMAIN T[q], T[q][k].d = d
      PROVE  T[q][k].again = 0 /\ \A j \in DOMAIN Q : Q[j].d = d => Q[j].group \notin Pending(T[q][k])
  <2>1. k \in DOMAIN S[q] /\ S[q][k].d = d
        BY <1>7, <1>9
  <2>2. S[q][k].again = 0 /\ \A j \in DOMAIN R : R[j].d = d => R[j].group \notin Pending(S[q][k])
        BY <2>1, <1>8
  <2>3. Pending(T[q][k]) \subseteq Pending(S[q][k])
        BY <2>1, <1>4 DEF Shrinks
  <2>4. CASE q = p /\ k = t
    <3>1. T[q][k].again = 0 /\ T[q][k].g = g
          BY <2>1, <2>2, <2>4, <1>7 DEF g
    <3>2. g \notin Pending(T[q][k])
          BY <3>1, <1>5 DEF Pending, g
    <3>   QED BY <3>1, <3>2, <2>2, <2>3, <1>2
  <2>5. CASE q # p \/ k # t
    <3>1. T[q][k] = S[q][k]
          BY <2>1, <2>5, <1>7
    <3>2. S[p][t].d = d => g \notin Pending(S[q][k])
          BY <2>1, <2>5, <1>2, <1>6 DEF Apart
    <3>   QED BY <3>1, <3>2, <2>2, <1>2
  <2>   QED BY <2>4, <2>5
<1>10. ASSUME NEW h \in 1 .. Count(D, d)
       PROVE  \/ \E j \in DOMAIN Q : Q[j].d = d /\ Q[j].group = h
              \/ \E q \in Processes : \E k \in DOMAIN T[q] : T[q][k].d = d /\ h \in Pending(T[q][k])
  <2>1. CASE \E j \in DOMAIN R : R[j].d = d /\ R[j].group = h
        BY <2>1, <1>2
  <2>2. CASE \E q \in Processes : \E k \in DOMAIN S[q] : S[q][k].d = d /\ h \in Pending(S[q][k])
    <3>0. PICK q \in Processes : \E k \in DOMAIN S[q] : S[q][k].d = d /\ h \in Pending(S[q][k])
          BY <2>2
    <3>1. PICK k \in DOMAIN S[q] : S[q][k].d = d /\ h \in Pending(S[q][k])
          BY <3>0
    <3>2. h \in Pending(T[q][k]) \/ (q = p /\ k = t /\ h = g)
          BY <3>1, <1>4 DEF Shrinks, t, g
    <3>   QED BY <3>1, <3>2, <1>2, <1>7
  <2>   QED BY <2>1, <2>2, <1>8
<1>11. ASSUME NEW i \in DOMAIN Q, NEW j \in DOMAIN Q, Q[i].d = d, Q[j].d = d, Q[i].group = Q[j].group
       PROVE  i = j
  <2>1. \A m \in DOMAIN R : R[m].d = d /\ S[p][t].d = d => R[m].group # g
        BY <1>2, <1>6, <1>8
  <2>   QED BY <2>1, <1>2, <1>8, <1>11
<1>   QED BY <1>9, <1>10, <1>11

LEMMA RunNested ==
    ASSUME NEW D, NEW S, NEW C, NEW R, NEW p \in Processes, NEW T, NEW Q,
           Accepted(D), Stacks(D, S, C), Recorded(D, R), Nested(D, S, R), Runs1(D, S, R, p, T, Q)
    PROVE  Nested(D, T, Q)
<1> DEFINE t == Len(S[p])
           last == Len(R) + 1
           e == S[p][t].d
           g == S[p][t].g + 1
<1>1. /\ Len(R) \in Nat /\ DOMAIN R = 1 .. Len(R) /\ last \in Nat /\ last \notin DOMAIN R
      /\ \A j \in DOMAIN R : j < last /\ j \in Nat
      BY DEF Recorded
<1>2. /\ DOMAIN Q = DOMAIN R \cup {last} /\ Len(Q) = last /\ \A k \in DOMAIN R : Q[k] = R[k]
      /\ Q[last].proc = p /\ Q[last].d = e /\ Q[last].group = g
      /\ t \in DOMAIN S[p]
      BY DEF Runs1
<1>3. \A q \in Processes : DOMAIN T[q] = DOMAIN S[q] /\ \A k \in DOMAIN S[q] : T[q][k].d = S[q][k].d
      BY DEF Runs1
<1>4. Shrinks(S, p, T)
      BY RunPending
<1>5. \A j \in DOMAIN R : R[j].proc \in Processes /\ R[j].d \in DOMAIN D /\ R[j].d \in Nat
  <2> DEFINE K == [proc : Processes, d : DOMAIN D, group : Nat]
  <2>1. R \in Seq(K)
        BY DEF Recorded
  <2>2. \A j \in DOMAIN R : R[j] \in K
    <3> HIDE DEF K
    <3>   QED BY <2>1
  <2>3. DOMAIN D \subseteq Nat
        BY DEF Accepted
  <2>   QED BY <2>2, <2>3
<1>6. e \in Nat /\ \A k \in DOMAIN S[p] : S[p][k].d <= e
  <2>1. DOMAIN S[p] = 1 .. t /\ t \in Nat /\ \A k \in DOMAIN S[p] : S[p][k].d \in Nat
        BY StackFacts
  <2>2. \A j \in 1 .. t - 1 : S[p][j].d < e
        BY <1>2 DEF Stacks
  <2>3. \A k \in DOMAIN S[p] : k = t \/ k \in 1 .. t - 1
        BY <2>1
  <2> HIDE DEF t
  <2>4. ASSUME NEW k \in DOMAIN S[p] PROVE S[p][k].d <= e
        BY <2>1, <2>2, <2>3, <1>2
  <2>   QED BY <2>1, <2>4, <1>2
<1>7. OnItsWay(D, S, R) /\ Above(D, S, R) /\ WentBack(D, S, R)
      BY DEF Nested
<1> HIDE DEF t, last, g, e
<1>8. \A q, d : q \in Processes => (InLine(T, q, d) <=> InLine(S, q, d))
      BY <1>3 DEF InLine
<1>9. /\ \A q, d, h, n : RanBy(R, q, d, h, n) => RanBy(Q, q, d, h, n)
      /\ \A q, d, h : RanBy(R, q, d, h, last) => RanBy(Q, q, d, h, last + 1)
      /\ RanBy(Q, p, e, g, last + 1)
  <2>1. \A q, d, h, n : RanBy(R, q, d, h, n) => RanBy(Q, q, d, h, n)
        BY <1>2 DEF RanBy
  <2>2. \A i \in DOMAIN Q : i < last + 1
        BY <1>1, <1>2
  <2>3. \A q, d, h : RanBy(R, q, d, h, last) => RanBy(Q, q, d, h, last + 1)
        BY <2>2, <1>2 DEF RanBy
  <2>4. RanBy(Q, p, e, g, last + 1)
        BY <2>2, <1>2 DEF RanBy
  <2>   QED BY <2>1, <2>3, <2>4
<1>10. /\ \A q, d, n : WholeRun(D, R, q, d, n) => WholeRun(D, Q, q, d, n)
       /\ \A q, d : WholeRun(D, R, q, d, last) => WholeRun(D, Q, q, d, last + 1)
       BY <1>9 DEF WholeRun
<1>11. last = Len(R) + 1 /\ last + 1 = Len(Q) + 1
       BY <1>2 DEF last
<1>12. OnItsWay(D, T, Q)
  <2> SUFFICES ASSUME NEW q \in Processes, NEW k \in DOMAIN T[q], k # 1, NEW h \in ReplayedIn(D, T[q][k].d)
               PROVE  h \in Pending(T[q][k]) \/ RanBy(Q, q, T[q][k].d, h, last + 1)
      BY <1>11 DEF OnItsWay
  <2>1. k \in DOMAIN S[q] /\ T[q][k].d = S[q][k].d
        BY <1>3
  <2>2. h \in Pending(S[q][k]) \/ RanBy(R, q, S[q][k].d, h, last)
        BY <2>1, <1>7, <1>11 DEF OnItsWay
  <2>3. h \in Pending(S[q][k]) => h \in Pending(T[q][k]) \/ (q = p /\ k = t /\ h = g)
        BY <2>1, <1>4 DEF Shrinks, t, g
  <2>4. q = p /\ k = t => S[q][k].d = e
        BY DEF e
  <2>   QED BY <2>1, <2>2, <2>3, <2>4, <1>9
<1>13. Above(D, T, Q)
  <2> SUFFICES ASSUME NEW j \in DOMAIN Q, NEW k \in DOMAIN T[Q[j].proc], T[Q[j].proc][k].d < Q[j].d
               PROVE  InLine(T, Q[j].proc, Q[j].d) \/ WholeRun(D, Q, Q[j].proc, Q[j].d, last + 1)
      BY <1>11 DEF Above
  <2>1. CASE j = last
    <3>1. InLine(S, p, e)
          BY <1>2 DEF InLine, e
    <3>   QED BY <3>1, <2>1, <1>2, <1>8
  <2>2. CASE j \in DOMAIN R
    <3>1. Q[j] = R[j] /\ R[j].proc \in Processes
          BY <2>2, <1>2, <1>5
    <3>2. k \in DOMAIN S[R[j].proc] /\ S[R[j].proc][k].d < R[j].d
          BY <3>1, <1>3
    <3>3. InLine(S, R[j].proc, R[j].d) \/ WholeRun(D, R, R[j].proc, R[j].d, last)
          BY <2>2, <3>2, <1>7, <1>11 DEF Above
    <3>   QED BY <3>1, <3>3, <1>8, <1>10
  <2>   QED BY <2>1, <2>2, <1>2
<1>14. WentBack(D, T, Q)
  <2> SUFFICES ASSUME NEW j \in DOMAIN Q, NEW k \in DOMAIN Q, j < k, Q[j].proc = Q[k].proc, Q[k].d < Q[j].d
               PROVE  /\ WholeRun(D, Q, Q[k].proc, Q[j].d, k)
                      /\ ~InLine(T, Q[k].proc, Q[j].d)
                      /\ \A i \in DOMAIN Q : i > k /\ Q[i].proc = Q[k].proc => Q[i].d # Q[j].d
      BY DEF WentBack
  <2>0. j \in DOMAIN R
        BY <1>1, <1>2
  <2>1. CASE k = last
    <3>1. Q[j] = R[j] /\ R[j].proc = p /\ e < R[j].d /\ R[j].d \in Nat
          BY <2>0, <2>1, <1>2, <1>5
    <3>2. ~InLine(S, p, R[j].d)
      <4>1. \A k1 \in DOMAIN S[p] : S[p][k1].d \in Nat
            BY StackFacts
      <4>   QED BY <4>1, <3>1, <1>6 DEF InLine
    <3>3. WholeRun(D, R, p, R[j].d, last)
      <4>1. t \in DOMAIN S[p] /\ S[p][t].d < R[j].d
            BY <3>1, <1>2 DEF e
      <4>   QED BY <4>1, <3>1, <3>2, <2>0, <1>7, <1>11 DEF Above
    <3>4. \A i \in DOMAIN Q : ~(i > last)
          BY <1>1, <1>2
    <3>   QED BY <3>1, <3>2, <3>3, <3>4, <2>1, <1>2, <1>8, <1>10
  <2>2. CASE k \in DOMAIN R
    <3>1. Q[j] = R[j] /\ Q[k] = R[k] /\ R[k].proc \in Processes /\ k < last
          BY <2>0, <2>2, <1>1, <1>2, <1>5
    <3>2. /\ WholeRun(D, R, R[k].proc, R[j].d, k)
          /\ ~InLine(S, R[k].proc, R[j].d)
          /\ \A i \in DOMAIN R : i > k /\ R[i].proc = R[k].proc => R[i].d # R[j].d
          BY <3>1, <2>0, <2>2, <1>7 DEF WentBack
    <3>3. InLine(S, p, e)
          BY <1>2 DEF InLine, e
    <3>4. \A i \in DOMAIN Q : i > k /\ Q[i].proc = R[k].proc => Q[i].d # R[j].d
          BY <3>2, <3>3, <1>2
    <3>   QED BY <3>1, <3>2, <3>4, <1>8, <1>10
  <2>   QED BY <2>1, <2>2, <1>2
<1>   QED BY <1>12, <1>13, <1>14 DEF Nested

-----------------------------------------------------------------------------
(* The loop ends: a frame with nothing before it is left.                    *)

Ends1(D, S, T) ==
    /\ T \in [Processes -> Seq(Frames(D))]
    /\ \A q \in Processes :
         /\ T[q] # <<>> <=> 1 \in DOMAIN T[q]
         /\ \A k \in DOMAIN T[q] : k \in DOMAIN S[q] /\ T[q][k] = S[q][k]
         /\ \A k \in DOMAIN S[q] : k \in DOMAIN T[q] \/ Pending(S[q][k]) = {}

LEMMA EndKeeps ==
    ASSUME NEW D, NEW S, NEW C, NEW L, NEW R, NEW T, Good(D, S, C, L, R), Ends1(D, S, T)
    PROVE  Good(D, T, C, L, R)
<1>1. /\ Accepted(D) /\ Stacks(D, S, C) /\ Apart(S) /\ Recorded(D, R)
      /\ Jobs(D, S, C, L, R) /\ Foreground(D, S, R) /\ Once(D, S, R) /\ Nested(D, S, R)
      BY DEF Good
<1>2. \A q \in Processes :
         /\ T[q] # <<>> <=> 1 \in DOMAIN T[q]
         /\ \A k \in DOMAIN T[q] : k \in DOMAIN S[q] /\ T[q][k] = S[q][k]
         /\ \A k \in DOMAIN S[q] : k \in DOMAIN T[q] \/ Pending(S[q][k]) = {}
      BY DEF Ends1
<1>3. /\ Main \in Processes /\ \A c \in 1 .. C : c \in Processes /\ c # Main
      /\ \A q \in Processes : S[q] # <<>> <=> 1 \in DOMAIN S[q]
      /\ \A q \in Processes : \A k \in DOMAIN S[q] : k \in Nat
      /\ \A q \in Processes : \A k \in DOMAIN S[q] : \A j \in 1 .. k - 1 : j \in DOMAIN S[q]
  <2>1. /\ Main \in Processes /\ \A c \in 1 .. C : c \in Processes /\ c # Main
        /\ \A q \in Processes : S[q] # <<>> <=> 1 \in DOMAIN S[q]
        BY <1>1, StackFacts
  <2>2. ASSUME NEW q \in Processes, NEW k \in DOMAIN S[q]
        PROVE  k \in Nat /\ \A j \in 1 .. k - 1 : j \in DOMAIN S[q]
    <3>1. DOMAIN S[q] = 1 .. Len(S[q]) /\ Len(S[q]) \in Nat
          BY <1>1, StackFacts
    <3>   QED BY <3>1
  <2>   QED BY <2>1, <2>2
<1>4. \A q \in Processes : T[q] # <<>> => S[q] # <<>> /\ T[q][1] = S[q][1] /\ 1 \in DOMAIN T[q]
      BY <1>2, <1>3
<1>5. Stacks(D, T, C)
  <2>1. ASSUME NEW q \in Processes
        PROVE  /\ q > C => T[q] = <<>>
               /\ \A k \in DOMAIN T[q] :
                    /\ \A j \in 1 .. k - 1 : T[q][j].d < T[q][k].d
                    /\ k > 1 => D[T[q][k].d].replay
                    /\ T[q][k].upto = IF q # Main /\ k = 1 THEN Back(D, T[q][k].d) ELSE Count(D, T[q][k].d)
    <3>1. q > C => T[q] = <<>>
          BY <1>1, <1>4 DEF Stacks
    <3>2. \A k \in DOMAIN S[q] :
             /\ \A j \in 1 .. k - 1 : S[q][j].d < S[q][k].d
             /\ k > 1 => D[S[q][k].d].replay
             /\ S[q][k].upto = IF q # Main /\ k = 1 THEN Back(D, S[q][k].d) ELSE Count(D, S[q][k].d)
          BY <1>1 DEF Stacks
    <3>3. \A k \in DOMAIN T[q] : \A j \in 1 .. k - 1 : j \in DOMAIN T[q]
      <4>1. T[q] \in Seq(Frames(D))
            BY DEF Ends1
      <4>2. DOMAIN T[q] = 1 .. Len(T[q]) /\ Len(T[q]) \in Nat
            BY <4>1
      <4>   QED BY <4>2
    <3>4. \A k \in DOMAIN T[q] : \A j \in 1 .. k - 1 : T[q][j].d < T[q][k].d
          BY <3>2, <3>3, <1>2
    <3>5. \A k \in DOMAIN T[q] :
             /\ k > 1 => D[T[q][k].d].replay
             /\ T[q][k].upto = IF q # Main /\ k = 1 THEN Back(D, T[q][k].d) ELSE Count(D, T[q][k].d)
          BY <3>2, <1>2
    <3>   QED BY <3>1, <3>4, <3>5
  <2>2. T[Main] # <<>> => ~D[T[Main][1].d].replay /\ T[Main][1].g >= Back(D, T[Main][1].d)
        BY <1>1, <1>3, <1>4 DEF Stacks
  <2>3. T \in [Processes -> Seq(Frames(D))] /\ C \in 0 .. MaxChildren
        BY <1>1 DEF Ends1, Stacks
  <2>   QED BY <2>1, <2>2, <2>3 DEF Stacks
<1>6. Apart(T)
  <2> SUFFICES ASSUME NEW a \in Processes, NEW q \in Processes, NEW j \in DOMAIN T[a], NEW k \in DOMAIN T[q],
                      T[a][j].d = T[q][k].d, a # q \/ j # k, NEW h \in Pending(T[a][j])
               PROVE  h \notin Pending(T[q][k])
      BY DEF Apart
  <2>1. j \in DOMAIN S[a] /\ k \in DOMAIN S[q] /\ T[a][j] = S[a][j] /\ T[q][k] = S[q][k]
        BY <1>2
  <2>   QED BY <2>1, <1>1 DEF Apart
<1>7. Jobs(D, T, C, L, R)
  <2> SUFFICES ASSUME NEW c \in 1 .. C
               PROVE  /\ L[c].d \in DOMAIN D /\ L[c].groups = 1 .. Back(D, L[c].d)
                      /\ T[c] # <<>> => T[c][1].d = L[c].d
                      /\ \A k \in DOMAIN R : R[k].proc = c /\ R[k].d = L[c].d => R[k].group \in L[c].groups
                      /\ \A h \in L[c].groups :
                           \/ \E k \in DOMAIN R : R[k].proc = c /\ R[k].d = L[c].d /\ R[k].group = h
                           \/ T[c] # <<>> /\ h \in Pending(T[c][1])
      BY DEF Jobs
  <2>1. /\ L[c].d \in DOMAIN D /\ L[c].groups = 1 .. Back(D, L[c].d)
        /\ S[c] # <<>> => S[c][1].d = L[c].d
        /\ \A k \in DOMAIN R : R[k].proc = c /\ R[k].d = L[c].d => R[k].group \in L[c].groups
        /\ \A h \in L[c].groups :
             \/ \E k \in DOMAIN R : R[k].proc = c /\ R[k].d = L[c].d /\ R[k].group = h
             \/ S[c] # <<>> /\ h \in Pending(S[c][1])
        BY <1>1 DEF Jobs
  <2>2. \A h : S[c] # <<>> /\ h \in Pending(S[c][1]) => T[c] # <<>> /\ h \in Pending(T[c][1])
        BY <1>2, <1>3, <1>4
  <2>3. T[c] # <<>> => T[c][1].d = L[c].d
        BY <2>1, <1>3, <1>4
  <2>   QED BY <2>1, <2>2, <2>3
<1>8. Foreground(D, T, R)
  <2>1. T[Main] # <<>> => S[Main] # <<>> /\ T[Main][1] = S[Main][1]
        BY <1>3, <1>4
  <2>2. ASSUME S[Main] # <<>>, NEW g \in 1 .. Count(D, S[Main][1].d), g > S[Main][1].g
        PROVE  T[Main] # <<>>
    <3>1. 1 \in DOMAIN S[Main] /\ S[Main][1].g \in Nat
          BY <1>1, <1>3, <2>2, StackFacts
    <3>2. S[Main][1].upto = Count(D, S[Main][1].d)
          BY <1>1, <1>3, <3>1 DEF Stacks
    <3>3. Count(D, S[Main][1].d) \in Nat
          BY <1>1, <1>3, <3>1, StackFacts, LineCounts
    <3>4. g \in Pending(S[Main][1])
      <4>1. \A a, b \in Nat : \A h \in 1 .. b : h > a => h \in a + 1 .. b
            OBVIOUS
      <4>   QED BY <4>1, <3>1, <3>2, <3>3, <2>2 DEF Pending
    <3>   QED BY <3>1, <3>4, <1>2, <1>3
  <2>3. \A k \in DOMAIN R : OfMain(D, R, k) =>
         /\ DueIn(D, R[k].d, R[k].group)
         /\ \A d \in DOMAIN D : \A g \in 1 .. Count(D, d) :
              DueIn(D, d, g) /\ Earlier(d, g, R[k]) => RanIn(D, R, d, g, k)
         /\ \A j \in DOMAIN R : OfMain(D, R, j) /\ j < k => ~Earlier(R[k].d, R[k].group, R[j])
         /\ T[Main] # <<>> => \/ R[k].d < T[Main][1].d
                              \/ R[k].d = T[Main][1].d /\ R[k].group <= T[Main][1].g + 1
        BY <1>1, <2>1 DEF Foreground
  <2>4. \A d \in DOMAIN D : \A g \in 1 .. Count(D, d) : DueIn(D, d, g) =>
         \/ RanIn(D, R, d, g, Len(R) + 1)
         \/ T[Main] # <<>> /\ T[Main][1].d = d /\ g > T[Main][1].g
    <3> SUFFICES ASSUME NEW d \in DOMAIN D, NEW g \in 1 .. Count(D, d), DueIn(D, d, g),
                        ~RanIn(D, R, d, g, Len(R) + 1)
                 PROVE  T[Main] # <<>> /\ T[Main][1].d = d /\ g > T[Main][1].g
        OBVIOUS
    <3>1. S[Main] # <<>> /\ S[Main][1].d = d /\ g > S[Main][1].g
          BY <1>1 DEF Foreground
    <3>   QED BY <3>1, <2>1, <2>2
  <2>   QED BY <2>3, <2>4 DEF Foreground
<1>9. Once(D, T, R)
  <2> SUFFICES ASSUME NEW d \in DOMAIN D, Single(D, d)
               PROVE  /\ \A q \in Processes : \A k \in DOMAIN T[q] : T[q][k].d = d =>
                           T[q][k].again = 0 /\ \A j \in DOMAIN R : R[j].d = d => R[j].group \notin Pending(T[q][k])
                      /\ \A h \in 1 .. Count(D, d) :
                           \/ \E j \in DOMAIN R : R[j].d = d /\ R[j].group = h
                           \/ \E q \in Processes : \E k \in DOMAIN T[q] : T[q][k].d = d /\ h \in Pending(T[q][k])
                      /\ \A i, j \in DOMAIN R : R[i].d = d /\ R[j].d = d /\ R[i].group = R[j].group => i = j
      BY DEF Once
  <2>1. /\ \A q \in Processes : \A k \in DOMAIN S[q] : S[q][k].d = d =>
             S[q][k].again = 0 /\ \A j \in DOMAIN R : R[j].d = d => R[j].group \notin Pending(S[q][k])
        /\ \A h \in 1 .. Count(D, d) :
             \/ \E j \in DOMAIN R : R[j].d = d /\ R[j].group = h
             \/ \E q \in Processes : \E k \in DOMAIN S[q] : S[q][k].d = d /\ h \in Pending(S[q][k])
        /\ \A i, j \in DOMAIN R : R[i].d = d /\ R[j].d = d /\ R[i].group = R[j].group => i = j
        BY <1>1 DEF Once
  <2>2. \A q \in Processes : \A k \in DOMAIN T[q] : T[q][k].d = d =>
           T[q][k].again = 0 /\ \A j \in DOMAIN R : R[j].d = d => R[j].group \notin Pending(T[q][k])
        BY <2>1, <1>2
  <2>3. \A h : \A q \in Processes : \A k \in DOMAIN S[q] : S[q][k].d = d /\ h \in Pending(S[q][k]) =>
           k \in DOMAIN T[q] /\ T[q][k].d = d /\ h \in Pending(T[q][k])
        BY <1>2
  <2>   QED BY <2>1, <2>2, <2>3
<1>10. Nested(D, T, R)
  <2>0. OnItsWay(D, S, R) /\ Above(D, S, R) /\ WentBack(D, S, R)
        BY <1>1 DEF Nested
  <2>1. OnItsWay(D, T, R)
        BY <2>0, <1>2 DEF OnItsWay
  <2>2. Above(D, T, R)
    <3> SUFFICES ASSUME NEW j \in DOMAIN R, NEW k \in DOMAIN T[R[j].proc], T[R[j].proc][k].d < R[j].d
                 PROVE  InLine(T, R[j].proc, R[j].d) \/ WholeRun(D, R, R[j].proc, R[j].d, Len(R) + 1)
        BY DEF Above
    <3> DEFINE q == R[j].proc
    <3>1. q \in Processes
      <4> DEFINE K == [proc : Processes, d : DOMAIN D, group : Nat]
      <4>1. R \in Seq(K)
            BY <1>1 DEF Recorded
      <4>2. R[j] \in K
        <5> HIDE DEF K
        <5>   QED BY <4>1
      <4>   QED BY <4>2
    <3>2. k \in DOMAIN S[q] /\ T[q][k] = S[q][k]
          BY <3>1, <1>2
    <3>3. InLine(S, q, R[j].d) \/ WholeRun(D, R, q, R[j].d, Len(R) + 1)
          BY <3>2, <2>0 DEF Above
    <3> SUFFICES ASSUME NEW m \in DOMAIN S[q], S[q][m].d = R[j].d, m \notin DOMAIN T[q]
                 PROVE  WholeRun(D, R, q, R[j].d, Len(R) + 1)
        BY <3>1, <3>3, <1>2 DEF InLine
    <3>4. Pending(S[q][m]) = {}
          BY <3>1, <1>2
    <3>5. m # 1
          BY <3>1, <3>2, <1>2
    <3>6. \A g \in ReplayedIn(D, S[q][m].d) : RanBy(R, q, S[q][m].d, g, Len(R) + 1)
          BY <3>1, <3>4, <3>5, <2>0 DEF OnItsWay
    <3>   QED BY <3>6 DEF WholeRun
  <2>3. WentBack(D, T, R)
    <3>1. \A k \in DOMAIN R : R[k].proc \in Processes
      <4> DEFINE K == [proc : Processes, d : DOMAIN D, group : Nat]
      <4>1. R \in Seq(K)
            BY <1>1 DEF Recorded
      <4>2. \A k \in DOMAIN R : R[k] \in K
        <5> HIDE DEF K
        <5>   QED BY <4>1
      <4>   QED BY <4>2
    <3>2. \A q, d : q \in Processes /\ InLine(T, q, d) => InLine(S, q, d)
          BY <1>2 DEF InLine
    <3>   QED BY <3>1, <3>2, <2>0 DEF WentBack
  <2>   QED BY <2>1, <2>2, <2>3 DEF Nested
<1>   QED BY <1>1, <1>5, <1>6, <1>7, <1>8, <1>9, <1>10 DEF Good

LEMMA RunKeeps ==
    ASSUME NEW D, NEW S, NEW C, NEW L, NEW R, NEW p \in Processes, NEW T, NEW Q,
           Good(D, S, C, L, R), Runs1(D, S, R, p, T, Q)
    PROVE  Good(D, T, C, L, Q)
<1>1. /\ Accepted(D) /\ Stacks(D, S, C) /\ Apart(S) /\ Recorded(D, R)
      /\ Jobs(D, S, C, L, R) /\ Foreground(D, S, R) /\ Once(D, S, R) /\ Nested(D, S, R)
      BY DEF Good
<1>2. Stacks(D, T, C) /\ Apart(T)
      BY <1>1, RunStacks
<1>3. Recorded(D, Q)
      BY DEF Runs1
<1>4. Jobs(D, T, C, L, Q)
      BY <1>1, RunJobs
<1>5. Foreground(D, T, Q)
      BY <1>1, RunForeground
<1>6. Once(D, T, Q)
      BY <1>1, RunOnce
<1>7. Nested(D, T, Q)
      BY <1>1, RunNested
<1>   QED BY <1>1, <1>2, <1>3, <1>4, <1>5, <1>6, <1>7 DEF Good

-----------------------------------------------------------------------------
(* A line is dispatched: p gets a frame for it, and if there is an & in it a *)
(* child is forked that gets another.                                        *)

New1(D, S, C, L, p, from, E, T, B, M) ==
    LET d == Len(D) + 1
        top == Len(S[p]) + 1
        mine == Frame(d, from, Count(E, d))
        its == Frame(d, 0, Back(E, d))
    IN  /\ Accepted(E) /\ DOMAIN E = DOMAIN D \cup {d} /\ \A e \in DOMAIN D : E[e] = D[e]
        /\ T \in [Processes -> Seq(Frames(E))]
        /\ \A q \in Processes :
             /\ T[q] # <<>> <=> 1 \in DOMAIN T[q]
             /\ \A k \in DOMAIN S[q] : k \in DOMAIN T[q] /\ T[q][k] = S[q][k]
             /\ \A k \in DOMAIN T[q] : \/ k \in DOMAIN S[q] /\ T[q][k] = S[q][k]
                                       \/ q = p /\ k = top /\ T[q][k] = mine
                                       \/ Back(E, d) > 0 /\ q = B /\ k = 1 /\ B = C + 1 /\ T[q][k] = its
        /\ top \in DOMAIN T[p] /\ T[p][top] = mine
        /\ \A c \in 1 .. C : M[c] = L[c]
        /\ \/ Back(E, d) = 0 /\ B = C
           \/ /\ Back(E, d) > 0 /\ B = C + 1 /\ B \in Processes
              /\ 1 \in DOMAIN T[B] /\ T[B][1] = its /\ M[B] = [d |-> d, groups |-> 1 .. Back(E, d)]
        /\ from \in Nat /\ from >= Back(E, d)
        /\ IF E[d].replay
           THEN S[p] # <<>> /\ (Back(E, d) = 0 => from = 0) /\ (Back(E, d) # 0 => from = Back(E, d) + 1)
           ELSE p = Main /\ S[p] = <<>> /\ from = Back(E, d)

\* The new line is the last one, the lines before it are what they were.
Latest(D, S, C, R, p, E) ==
    /\ Len(D) + 1 \in DOMAIN E /\ Len(D) + 1 \in Nat
    /\ \A e \in DOMAIN D : /\ e \in DOMAIN E /\ e < Len(D) + 1 /\ e # Len(D) + 1 /\ e \in Nat /\ E[e] = D[e]
                           /\ Count(E, e) = Count(D, e) /\ Back(E, e) = Back(D, e)
                           /\ Single(E, e) <=> Single(D, e)
    /\ \A q \in Processes : \A k \in DOMAIN S[q] : S[q][k].d \in DOMAIN D
    /\ \A k \in DOMAIN R : R[k].d \in DOMAIN D
    /\ Count(E, Len(D) + 1) \in Nat /\ Back(E, Len(D) + 1) \in 0 .. Count(E, Len(D) + 1)
    /\ p <= C /\ C \in Nat /\ Main \in Processes /\ (S[p] = <<>> => Len(S[p]) = 0 /\ p = Main)

LEMMA NewLine ==
    ASSUME NEW D, NEW S, NEW C, NEW L, NEW R, NEW p \in Processes, NEW from, NEW E, NEW T, NEW B, NEW M,
           Good(D, S, C, L, R), New1(D, S, C, L, p, from, E, T, B, M)
    PROVE  Latest(D, S, C, R, p, E)
<1>1. Accepted(D) /\ Stacks(D, S, C) /\ Recorded(D, R)
      BY DEF Good
<1>2. Len(D) \in Nat /\ DOMAIN D = 1 .. Len(D)
      BY <1>1 DEF Accepted
<1>3. DOMAIN E = DOMAIN D \cup {Len(D) + 1} /\ (\A e \in DOMAIN D : E[e] = D[e]) /\ Accepted(E)
      BY DEF New1
<1>4. \A e \in DOMAIN D : /\ Count(E, e) = Count(D, e) /\ Back(E, e) = Back(D, e)
                          /\ Single(E, e) <=> Single(D, e)
      BY <1>3 DEF Count, Back, Single, RepeatedIn
<1>5. /\ \A q \in Processes : \A k \in DOMAIN S[q] : S[q][k].d \in DOMAIN D
      /\ C \in Nat /\ Main \in Processes
      BY <1>1, StackFacts
<1>6. \A k \in DOMAIN R : R[k].d \in DOMAIN D
  <2> DEFINE K == [proc : Processes, d : DOMAIN D, group : Nat]
  <2>1. R \in Seq(K)
        BY <1>1 DEF Recorded
  <2>2. \A k \in DOMAIN R : R[k] \in K
    <3> HIDE DEF K
    <3>   QED BY <2>1
  <2>   QED BY <2>2
<1>7. Count(E, Len(D) + 1) \in Nat /\ Back(E, Len(D) + 1) \in 0 .. Count(E, Len(D) + 1)
      BY <1>3, LineCounts
<1>8. S[p] = <<>> => Len(S[p]) = 0 /\ p = Main
      BY DEF New1
<1>9. p <= C
  <2>1. S[p] # <<>> => ~(p > C)
        BY <1>1 DEF Stacks
  <2>2. p \in Nat
        BY DEF Processes
  <2>   QED BY <2>1, <2>2, <1>5, <1>8 DEF Main
<1>   QED BY <1>2, <1>3, <1>4, <1>5, <1>6, <1>7, <1>8, <1>9 DEF Latest

LEMMA NewStacks ==
    ASSUME NEW D, NEW S, NEW C, NEW L, NEW R, NEW p \in Processes, NEW from, NEW E, NEW T, NEW B, NEW M,
           Good(D, S, C, L, R), New1(D, S, C, L, p, from, E, T, B, M)
    PROVE  Stacks(E, T, B) /\ Apart(T)
<1> DEFINE d == Len(D) + 1
           top == Len(S[p]) + 1
           n == Count(E, d)
           b == Back(E, d)
<1>1. Accepted(D) /\ Stacks(D, S, C) /\ Apart(S)
      BY DEF Good
<1>2. /\ T \in [Processes -> Seq(Frames(E))]
      /\ \A q \in Processes :
           /\ T[q] # <<>> <=> 1 \in DOMAIN T[q]
           /\ \A k \in DOMAIN S[q] : k \in DOMAIN T[q] /\ T[q][k] = S[q][k]
           /\ \A k \in DOMAIN T[q] : \/ k \in DOMAIN S[q] /\ T[q][k] = S[q][k]
                                     \/ q = p /\ k = top /\ T[q][k].d = d /\ T[q][k].g = from /\ T[q][k].upto = n
                                     \/ b > 0 /\ q = B /\ k = 1 /\ B = C + 1
                                        /\ T[q][k].d = d /\ T[q][k].g = 0 /\ T[q][k].upto = b
      /\ \/ b = 0 /\ B = C
         \/ b > 0 /\ B = C + 1 /\ B \in Processes
      /\ from \in Nat /\ from >= b
      /\ E[d].replay => S[p] # <<>>
      /\ ~E[d].replay => p = Main /\ S[p] = <<>> /\ from = b
      BY DEF New1, Frame
<1>3. /\ d \in DOMAIN E /\ d \in Nat /\ n \in Nat /\ b \in Nat
      /\ \A e \in DOMAIN D : /\ e < d /\ e # d /\ E[e] = D[e] /\ Count(E, e) = Count(D, e) /\ Back(E, e) = Back(D, e)
      /\ \A q \in Processes : \A k \in DOMAIN S[q] : S[q][k].d \in DOMAIN D
      /\ p <= C /\ C \in Nat /\ Main \in Processes /\ (S[p] = <<>> => top = 1 /\ p = Main)
  <2>1. Latest(D, S, C, R, p, E)
        BY NewLine
  <2>   QED BY <2>1 DEF Latest
<1>4. /\ \A q \in Processes : S[q] # <<>> <=> 1 \in DOMAIN S[q]
      /\ \A q \in Processes : \A k \in DOMAIN S[q] : \A j \in 1 .. k - 1 : j \in DOMAIN S[q]
      /\ top \in Nat /\ \A j \in 1 .. top - 1 : j \in DOMAIN S[p]
      /\ S[p] # <<>> => top # 1
  <2>1. /\ \A q \in Processes : S[q] # <<>> <=> 1 \in DOMAIN S[q]
        /\ \A q \in Processes : DOMAIN S[q] = 1 .. Len(S[q]) /\ Len(S[q]) \in Nat
        BY <1>1, StackFacts
  <2>2. ASSUME NEW q \in Processes, NEW k \in DOMAIN S[q], NEW j \in 1 .. k - 1 PROVE j \in DOMAIN S[q]
        BY <2>1
  <2>3. top \in Nat /\ \A j \in 1 .. top - 1 : j \in DOMAIN S[p]
        BY <2>1
  <2>4. S[p] # <<>> => top # 1
        BY <2>1
  <2>   QED BY <2>1, <2>2, <2>3, <2>4
<1>5. p \in Nat /\ Main = 0 /\ B \in 0 .. MaxChildren
      BY <1>1, <1>2, <1>3 DEF Processes, Main, Stacks
<1> HIDE DEF d, top, n, b
<1>6. ASSUME NEW q \in Processes, q > B PROVE T[q] = <<>>
  <2>1. q \in Nat /\ q > C /\ q # B /\ q # p
        BY <1>2, <1>3, <1>5, <1>6 DEF Processes
  <2>2. S[q] = <<>>
        BY <2>1, <1>1 DEF Stacks
  <2>   QED BY <2>1, <2>2, <1>2, <1>4
<1>7. ASSUME NEW q \in Processes, NEW k \in DOMAIN T[q]
      PROVE  /\ \A j \in 1 .. k - 1 : T[q][j].d < T[q][k].d
             /\ k > 1 => E[T[q][k].d].replay
             /\ T[q][k].upto = IF q # Main /\ k = 1 THEN Back(E, T[q][k].d) ELSE Count(E, T[q][k].d)
  <2>1. CASE k \in DOMAIN S[q] /\ T[q][k] = S[q][k]
    <3>1. /\ \A j \in 1 .. k - 1 : S[q][j].d < S[q][k].d
          /\ k > 1 => D[S[q][k].d].replay
          /\ S[q][k].upto = IF q # Main /\ k = 1 THEN Back(D, S[q][k].d) ELSE Count(D, S[q][k].d)
          BY <2>1, <1>1 DEF Stacks
    <3>2. \A j \in 1 .. k - 1 : T[q][j] = S[q][j]
          BY <2>1, <1>2, <1>4
    <3>3. S[q][k].d \in DOMAIN D
          BY <2>1, <1>3
    <3>   QED BY <3>1, <3>2, <3>3, <2>1, <1>3
  <2>2. CASE q = p /\ k = top /\ T[q][k].d = d /\ T[q][k].g = from /\ T[q][k].upto = n
    <3>1. \A j \in 1 .. k - 1 : T[q][j].d < T[q][k].d
          BY <2>2, <1>2, <1>3, <1>4
    <3>2. k > 1 => E[d].replay
          BY <2>2, <1>2, <1>3
    <3>3. ~(q # Main /\ k = 1)
          BY <2>2, <1>3, <1>4
    <3>   QED BY <3>1, <3>2, <3>3, <2>2 DEF n
  <2>3. CASE b > 0 /\ q = B /\ k = 1 /\ B = C + 1 /\ T[q][k].d = d /\ T[q][k].g = 0 /\ T[q][k].upto = b
    <3>1. q # Main
          BY <2>3, <1>3, <1>5
    <3>2. 1 .. k - 1 = {}
          BY <2>3
    <3>   QED BY <3>1, <3>2, <2>3 DEF b
  <2>   QED BY <2>1, <2>2, <2>3, <1>2
<1>8. ASSUME T[Main] # <<>> PROVE ~E[T[Main][1].d].replay /\ T[Main][1].g >= Back(E, T[Main][1].d)
  <2>1. 1 \in DOMAIN T[Main]
        BY <1>8, <1>2, <1>3
  <2>2. CASE 1 \in DOMAIN S[Main] /\ T[Main][1] = S[Main][1]
    <3>1. ~D[S[Main][1].d].replay /\ S[Main][1].g >= Back(D, S[Main][1].d) /\ S[Main][1].d \in DOMAIN D
          BY <2>2, <1>1, <1>3, <1>4 DEF Stacks
    <3>   QED BY <3>1, <2>2, <1>3
  <2>3. CASE Main = p /\ 1 = top /\ T[Main][1].d = d /\ T[Main][1].g = from
    <3>1. ~E[d].replay
          BY <2>3, <1>2, <1>4
    <3>   QED BY <3>1, <2>3, <1>2 DEF b
  <2>4. Main # C + 1
        BY <1>3, <1>5
  <2>   QED BY <2>1, <2>2, <2>3, <2>4, <1>2, <1>3
<1>9. Stacks(E, T, B)
      BY <1>2, <1>5, <1>6, <1>7, <1>8 DEF Stacks
<1>10. Apart(T)
  <2> SUFFICES ASSUME NEW a \in Processes, NEW q \in Processes, NEW j \in DOMAIN T[a], NEW k \in DOMAIN T[q],
                      T[a][j].d = T[q][k].d, a # q \/ j # k, NEW h \in Pending(T[a][j])
               PROVE  h \notin Pending(T[q][k])
      BY DEF Apart
  <2> DEFINE Old(x, i) == i \in DOMAIN S[x] /\ T[x][i] = S[x][i]
             Mine(x, i) == x = p /\ i = top /\ T[x][i].d = d /\ T[x][i].g = from /\ T[x][i].upto = n
             Its(x, i) == x = B /\ i = 1 /\ T[x][i].d = d /\ T[x][i].g = 0 /\ T[x][i].upto = b
  <2>1. (Old(a, j) \/ Mine(a, j) \/ Its(a, j)) /\ (Old(q, k) \/ Mine(q, k) \/ Its(q, k))
        BY <1>2
  <2>2. \A x \in Processes : \A i \in DOMAIN S[x] : Old(x, i) => T[x][i].d # d
        BY <1>3
  <2>3. CASE Old(a, j)
    <3>1. Old(q, k)
          BY <2>1, <2>2, <2>3
    <3>   QED BY <3>1, <2>3, <1>1 DEF Apart
  <2>4. CASE ~Old(a, j)
    <3>1. ~Old(q, k)
          BY <2>1, <2>2, <2>4
    <3>2. CASE Mine(a, j) /\ Its(q, k)
          BY <3>2, <1>2, <1>3 DEF Pending
    <3>3. CASE Its(a, j) /\ Mine(q, k)
          BY <3>3, <1>2, <1>3 DEF Pending
    <3>   QED BY <3>1, <3>2, <3>3, <2>1, <2>4
  <2>   QED BY <2>3, <2>4
<1>   QED BY <1>9, <1>10

LEMMA NewJobs ==
    ASSUME NEW D, NEW S, NEW C, NEW L, NEW R, NEW p \in Processes, NEW from, NEW E, NEW T, NEW B, NEW M,
           Good(D, S, C, L, R), New1(D, S, C, L, p, from, E, T, B, M)
    PROVE  Jobs(E, T, B, M, R)
<1> DEFINE d == Len(D) + 1
           b == Back(E, d)
<1>1. Accepted(D) /\ Stacks(D, S, C) /\ Jobs(D, S, C, L, R)
      BY DEF Good
<1>2. /\ \A q \in Processes :
           /\ T[q] # <<>> <=> 1 \in DOMAIN T[q]
           /\ \A k \in DOMAIN S[q] : k \in DOMAIN T[q] /\ T[q][k] = S[q][k]
           /\ \A k \in DOMAIN T[q] : \/ k \in DOMAIN S[q]
                                     \/ q = p /\ k = Len(S[p]) + 1
                                     \/ q = B /\ B = C + 1
      /\ \/ b = 0 /\ B = C
         \/ /\ b > 0 /\ B = C + 1 /\ B \in Processes /\ 1 \in DOMAIN T[B]
            /\ T[B][1].d = d /\ T[B][1].g = 0 /\ T[B][1].upto = b
            /\ M[B].d = d /\ M[B].groups = 1 .. b
      /\ \A c \in 1 .. C : M[c] = L[c]
      BY DEF New1, Frame
<1>3. /\ d \in DOMAIN E /\ b \in Nat
      /\ \A e \in DOMAIN D : e \in DOMAIN E /\ e # d /\ Back(E, e) = Back(D, e)
      /\ \A k \in DOMAIN R : R[k].d \in DOMAIN D
      /\ C \in Nat /\ (S[p] = <<>> => p = Main)
  <2>1. Latest(D, S, C, R, p, E)
        BY NewLine
  <2>   QED BY <2>1 DEF Latest
<1>4. /\ \A c \in 1 .. C : c \in Processes /\ c # Main
      /\ \A q \in Processes : S[q] # <<>> <=> 1 \in DOMAIN S[q]
      /\ Len(S[p]) \in Nat /\ (S[p] # <<>> => Len(S[p]) + 1 # 1)
  <2>1. /\ \A c \in 1 .. C : c \in Processes /\ c # Main
        /\ \A q \in Processes : S[q] # <<>> <=> 1 \in DOMAIN S[q]
        /\ Len(S[p]) \in Nat /\ DOMAIN S[p] = 1 .. Len(S[p])
        BY <1>1, StackFacts
  <2>2. S[p] # <<>> => Len(S[p]) + 1 # 1
        BY <2>1
  <2>   QED BY <2>1, <2>2
<1> HIDE DEF d, b
<1>5. ASSUME NEW c \in 1 .. C
      PROVE  /\ M[c].d \in DOMAIN E /\ M[c].groups = 1 .. Back(E, M[c].d)
             /\ T[c] # <<>> => T[c][1].d = M[c].d
             /\ \A k \in DOMAIN R : R[k].proc = c /\ R[k].d = M[c].d => R[k].group \in M[c].groups
             /\ \A h \in M[c].groups :
                  \/ \E k \in DOMAIN R : R[k].proc = c /\ R[k].d = M[c].d /\ R[k].group = h
                  \/ T[c] # <<>> /\ h \in Pending(T[c][1])
  <2>1. /\ L[c].d \in DOMAIN D /\ L[c].groups = 1 .. Back(D, L[c].d)
        /\ S[c] # <<>> => S[c][1].d = L[c].d
        /\ \A k \in DOMAIN R : R[k].proc = c /\ R[k].d = L[c].d => R[k].group \in L[c].groups
        /\ \A h \in L[c].groups :
             \/ \E k \in DOMAIN R : R[k].proc = c /\ R[k].d = L[c].d /\ R[k].group = h
             \/ S[c] # <<>> /\ h \in Pending(S[c][1])
        BY <1>1 DEF Jobs
  <2>2. M[c] = L[c] /\ c \in Processes /\ c # Main /\ c # C + 1
        BY <1>2, <1>3, <1>4
  <2>3. S[c] # <<>> => T[c] # <<>> /\ T[c][1] = S[c][1]
        BY <2>2, <1>2, <1>4
  <2>4. T[c] # <<>> => S[c] # <<>>
        BY <2>2, <1>2, <1>3, <1>4
  <2>   QED BY <2>1, <2>2, <2>3, <2>4, <1>3
<1>6. ASSUME B = C + 1, b > 0
      PROVE  /\ M[B].d \in DOMAIN E /\ M[B].groups = 1 .. Back(E, M[B].d)
             /\ T[B] # <<>> => T[B][1].d = M[B].d
             /\ \A k \in DOMAIN R : R[k].proc = B /\ R[k].d = M[B].d => R[k].group \in M[B].groups
             /\ \A h \in M[B].groups :
                  \/ \E k \in DOMAIN R : R[k].proc = B /\ R[k].d = M[B].d /\ R[k].group = h
                  \/ T[B] # <<>> /\ h \in Pending(T[B][1])
  <2>1. /\ B \in Processes /\ 1 \in DOMAIN T[B]
        /\ T[B][1].d = d /\ T[B][1].g = 0 /\ T[B][1].upto = b
        /\ M[B].d = d /\ M[B].groups = 1 .. b
        BY <1>2, <1>3, <1>6
  <2>2. \A h \in 1 .. b : h \in Pending(T[B][1])
        BY <2>1, <1>3 DEF Pending
  <2>3. \A k \in DOMAIN R : R[k].d # d
        BY <1>3
  <2>   QED BY <2>1, <2>2, <2>3, <1>2, <1>3 DEF b
<1>7. \A c \in 1 .. B : c \in 1 .. C \/ (c = B /\ B = C + 1 /\ b > 0)
      BY <1>2, <1>3
<1>   QED BY <1>5, <1>6, <1>7 DEF Jobs

LEMMA NewForeground ==
    ASSUME NEW D, NEW S, NEW C, NEW L, NEW R, NEW p \in Processes, NEW from, NEW E, NEW T, NEW B, NEW M,
           Good(D, S, C, L, R), New1(D, S, C, L, p, from, E, T, B, M)
    PROVE  Foreground(E, T, R)
<1> DEFINE d == Len(D) + 1
           first == S[Main][1]
<1>1. Accepted(D) /\ Stacks(D, S, C) /\ Foreground(D, S, R)
      BY DEF Good
<1>2. /\ \A q \in Processes :
           /\ T[q] # <<>> <=> 1 \in DOMAIN T[q]
           /\ \A k \in DOMAIN S[q] : k \in DOMAIN T[q] /\ T[q][k] = S[q][k]
           /\ \A k \in DOMAIN T[q] : \/ k \in DOMAIN S[q]
                                     \/ T[q][k].d = d
      /\ T[p][Len(S[p]) + 1].d = d /\ T[p][Len(S[p]) + 1].g = from /\ Len(S[p]) + 1 \in DOMAIN T[p]
      /\ ~E[d].replay => p = Main /\ S[p] = <<>> /\ from = Back(E, d)
      /\ DOMAIN E = DOMAIN D \cup {d}
  <2>1. \A q \in Processes :
          /\ T[q] # <<>> <=> 1 \in DOMAIN T[q]
          /\ \A k \in DOMAIN S[q] : k \in DOMAIN T[q] /\ T[q][k] = S[q][k]
        BY DEF New1
  <2>2. \A q \in Processes : \A k \in DOMAIN T[q] :
          \/ k \in DOMAIN S[q]
          \/ T[q][k] = Frame(d, from, Count(E, d))
          \/ T[q][k] = Frame(d, 0, Back(E, d))
        BY DEF New1
  <2>3. \A q \in Processes : \A k \in DOMAIN T[q] : k \in DOMAIN S[q] \/ T[q][k].d = d
    <3>1. \A g, upto : Frame(d, g, upto).d = d
          BY DEF Frame
    <3>   QED BY <3>1, <2>2
  <2>4. T[p][Len(S[p]) + 1] = Frame(d, from, Count(E, d)) /\ Len(S[p]) + 1 \in DOMAIN T[p]
        BY DEF New1
  <2>5. T[p][Len(S[p]) + 1].d = d /\ T[p][Len(S[p]) + 1].g = from
        BY <2>4 DEF Frame
  <2>6. /\ ~E[d].replay => p = Main /\ S[p] = <<>> /\ from = Back(E, d)
        /\ DOMAIN E = DOMAIN D \cup {d}
        BY DEF New1
  <2>   QED BY <2>1, <2>3, <2>4, <2>5, <2>6
<1>3. /\ d \in DOMAIN E /\ d \in Nat /\ Count(E, d) \in Nat /\ Back(E, d) \in Nat
      /\ \A e \in DOMAIN D : /\ e \in DOMAIN E /\ e < d /\ e # d /\ e \in Nat /\ E[e] = D[e]
                             /\ Count(E, e) = Count(D, e) /\ Back(E, e) = Back(D, e)
      /\ \A k \in DOMAIN R : R[k].d \in DOMAIN D
      /\ Main \in Processes /\ (S[p] = <<>> => Len(S[p]) = 0)
  <2>1. Latest(D, S, C, R, p, E)
        BY NewLine
  <2>   QED BY <2>1 DEF Latest
<1>4. /\ S[Main] # <<>> <=> 1 \in DOMAIN S[Main]
      /\ S[Main] # <<>> => first.d \in DOMAIN D /\ T[Main] # <<>> /\ T[Main][1] = first
      /\ S[Main] = <<>> /\ T[Main] # <<>> => T[Main][1].d = d
      BY <1>1, <1>2, <1>3, StackFacts
<1> HIDE DEF d, first
<1>5. /\ \A k \in DOMAIN R : OfMain(E, R, k) <=> OfMain(D, R, k)
      /\ \A e \in DOMAIN D : \A g : DueIn(E, e, g) <=> DueIn(D, e, g)
      BY <1>3 DEF OfMain, DueIn
<1>6. \A e, g, n : RanIn(E, R, e, g, n) <=> RanIn(D, R, e, g, n)
      BY <1>5 DEF RanIn
<1>7. /\ \A k \in DOMAIN R : OfMain(D, R, k) =>
         /\ DueIn(D, R[k].d, R[k].group)
         /\ \A e \in DOMAIN D : \A g \in 1 .. Count(D, e) :
              DueIn(D, e, g) /\ Earlier(e, g, R[k]) => RanIn(D, R, e, g, k)
         /\ \A j \in DOMAIN R : OfMain(D, R, j) /\ j < k => ~Earlier(R[k].d, R[k].group, R[j])
         /\ S[Main] # <<>> => \/ R[k].d < first.d
                              \/ R[k].d = first.d /\ R[k].group <= first.g + 1
      /\ \A e \in DOMAIN D : \A g \in 1 .. Count(D, e) : DueIn(D, e, g) =>
         \/ RanIn(D, R, e, g, Len(R) + 1)
         \/ S[Main] # <<>> /\ first.d = e /\ g > first.g
      BY <1>1 DEF Foreground, first
<1>8. ASSUME NEW k \in DOMAIN R, OfMain(E, R, k)
      PROVE  /\ DueIn(E, R[k].d, R[k].group)
             /\ \A e \in DOMAIN E : \A g \in 1 .. Count(E, e) :
                  DueIn(E, e, g) /\ Earlier(e, g, R[k]) => RanIn(E, R, e, g, k)
             /\ \A j \in DOMAIN R : OfMain(E, R, j) /\ j < k => ~Earlier(R[k].d, R[k].group, R[j])
             /\ T[Main] # <<>> => \/ R[k].d < T[Main][1].d
                                  \/ R[k].d = T[Main][1].d /\ R[k].group <= T[Main][1].g + 1
  <2>1. OfMain(D, R, k) /\ R[k].d \in DOMAIN D
        BY <1>3, <1>5, <1>8
  <2>2. DueIn(E, R[k].d, R[k].group)
        BY <2>1, <1>5, <1>7
  <2>3. ASSUME NEW e \in DOMAIN E, NEW g \in 1 .. Count(E, e), DueIn(E, e, g), Earlier(e, g, R[k])
        PROVE  RanIn(E, R, e, g, k)
    <3>1. e # d
      <4>1. R[k].d < d /\ R[k].d \in Nat
            BY <2>1, <1>3
      <4>   QED BY <4>1, <2>3, <1>3 DEF Earlier
    <3>2. e \in DOMAIN D
          BY <3>1, <1>2
    <3>3. g \in 1 .. Count(D, e) /\ DueIn(D, e, g)
          BY <3>2, <2>3, <1>3, <1>5
    <3>   QED BY <3>2, <3>3, <2>1, <2>3, <1>6, <1>7
  <2>4. \A j \in DOMAIN R : OfMain(E, R, j) /\ j < k => ~Earlier(R[k].d, R[k].group, R[j])
        BY <2>1, <1>5, <1>7
  <2>5. ASSUME T[Main] # <<>>
        PROVE  R[k].d < T[Main][1].d \/ (R[k].d = T[Main][1].d /\ R[k].group <= T[Main][1].g + 1)
    <3>1. CASE S[Main] # <<>>
          BY <3>1, <2>1, <1>4, <1>7
    <3>2. CASE S[Main] = <<>>
          BY <3>2, <2>1, <2>5, <1>3, <1>4
    <3>   QED BY <3>1, <3>2
  <2>   QED BY <2>2, <2>3, <2>4, <2>5
<1>9. ASSUME NEW e \in DOMAIN E, NEW g \in 1 .. Count(E, e), DueIn(E, e, g)
      PROVE  \/ RanIn(E, R, e, g, Len(R) + 1)
             \/ T[Main] # <<>> /\ T[Main][1].d = e /\ g > T[Main][1].g
  <2>1. CASE e \in DOMAIN D
    <3>1. g \in 1 .. Count(D, e) /\ DueIn(D, e, g)
          BY <2>1, <1>3, <1>5, <1>9
    <3>2. RanIn(D, R, e, g, Len(R) + 1) \/ (S[Main] # <<>> /\ first.d = e /\ g > first.g)
          BY <3>1, <2>1, <1>7
    <3>   QED BY <3>2, <1>4, <1>6
  <2>2. CASE e = d
    <3>1. ~E[d].replay /\ g \in Back(E, d) + 1 .. Count(E, d)
          BY <2>2, <1>9 DEF DueIn
    <3>2. p = Main /\ Len(S[p]) + 1 = 1 /\ from = Back(E, d)
          BY <3>1, <1>2, <1>3
    <3>3. 1 \in DOMAIN T[Main] /\ T[Main][1].d = d /\ T[Main][1].g = Back(E, d)
          BY <3>2, <1>2
    <3>   QED BY <3>1, <3>3, <2>2, <1>2, <1>3
  <2>   QED BY <2>1, <2>2, <1>2
<1>   QED BY <1>8, <1>9 DEF Foreground

LEMMA NewOnce ==
    ASSUME NEW D, NEW S, NEW C, NEW L, NEW R, NEW p \in Processes, NEW from, NEW E, NEW T, NEW B, NEW M,
           Good(D, S, C, L, R), New1(D, S, C, L, p, from, E, T, B, M)
    PROVE  Once(E, T, R)
<1> DEFINE d == Len(D) + 1
           top == Len(S[p]) + 1
           n == Count(E, d)
           b == Back(E, d)
<1>1. Accepted(D) /\ Stacks(D, S, C) /\ Once(D, S, R)
      BY DEF Good
<1>2. /\ \A q \in Processes :
           /\ \A k \in DOMAIN S[q] : k \in DOMAIN T[q] /\ T[q][k] = S[q][k]
           /\ \A k \in DOMAIN T[q] : \/ k \in DOMAIN S[q] /\ T[q][k] = S[q][k]
                                     \/ T[q][k].d = d /\ T[q][k].again = 0
      /\ top \in DOMAIN T[p] /\ T[p][top].d = d /\ T[p][top].g = from /\ T[p][top].upto = n
      /\ \/ b = 0 /\ B = C
         \/ /\ b > 0 /\ B = C + 1 /\ B \in Processes /\ 1 \in DOMAIN T[B]
            /\ T[B][1].d = d /\ T[B][1].g = 0 /\ T[B][1].upto = b
      /\ ~E[d].replay => from = b
      /\ E[d].replay /\ b = 0 => from = b
      /\ DOMAIN E = DOMAIN D \cup {d}
      BY DEF New1, Frame
<1>3. /\ d \in DOMAIN E /\ n \in Nat /\ b \in Nat
      /\ \A e \in DOMAIN D : e \in DOMAIN E /\ e # d /\ Count(E, e) = Count(D, e) /\ (Single(E, e) <=> Single(D, e))
      /\ \A q \in Processes : \A k \in DOMAIN S[q] : S[q][k].d \in DOMAIN D
      /\ \A k \in DOMAIN R : R[k].d \in DOMAIN D
  <2>1. Latest(D, S, C, R, p, E)
        BY NewLine
  <2>   QED BY <2>1 DEF Latest
<1> HIDE DEF d, top, n, b
<1> SUFFICES ASSUME NEW e \in DOMAIN E, Single(E, e)
             PROVE  /\ \A q \in Processes : \A k \in DOMAIN T[q] : T[q][k].d = e =>
                         T[q][k].again = 0 /\ \A j \in DOMAIN R : R[j].d = e => R[j].group \notin Pending(T[q][k])
                    /\ \A h \in 1 .. Count(E, e) :
                         \/ \E j \in DOMAIN R : R[j].d = e /\ R[j].group = h
                         \/ \E q \in Processes : \E k \in DOMAIN T[q] : T[q][k].d = e /\ h \in Pending(T[q][k])
                    /\ \A i, j \in DOMAIN R : R[i].d = e /\ R[j].d = e /\ R[i].group = R[j].group => i = j
    BY DEF Once
<1>4. CASE e \in DOMAIN D
  <2>1. /\ \A q \in Processes : \A k \in DOMAIN S[q] : S[q][k].d = e =>
             S[q][k].again = 0 /\ \A j \in DOMAIN R : R[j].d = e => R[j].group \notin Pending(S[q][k])
        /\ \A h \in 1 .. Count(E, e) :
             \/ \E j \in DOMAIN R : R[j].d = e /\ R[j].group = h
             \/ \E q \in Processes : \E k \in DOMAIN S[q] : S[q][k].d = e /\ h \in Pending(S[q][k])
        /\ \A i, j \in DOMAIN R : R[i].d = e /\ R[j].d = e /\ R[i].group = R[j].group => i = j
        BY <1>1, <1>3, <1>4 DEF Once
  <2>2. \A q \in Processes : \A k \in DOMAIN T[q] : T[q][k].d = e => k \in DOMAIN S[q] /\ T[q][k] = S[q][k]
        BY <1>2, <1>3, <1>4
  <2>3. \A q \in Processes : \A k \in DOMAIN T[q] : T[q][k].d = e =>
           T[q][k].again = 0 /\ \A j \in DOMAIN R : R[j].d = e => R[j].group \notin Pending(T[q][k])
        BY <2>1, <2>2
  <2>4. \A h : \A q \in Processes : \A k \in DOMAIN S[q] : S[q][k].d = e /\ h \in Pending(S[q][k]) =>
           k \in DOMAIN T[q] /\ T[q][k].d = e /\ h \in Pending(T[q][k])
        BY <1>2
  <2>   QED BY <2>1, <2>3, <2>4
<1>5. CASE e = d
  <2>1. \A j \in DOMAIN R : R[j].d # e
        BY <1>3, <1>5
  <2>2. \A q \in Processes : \A k \in DOMAIN T[q] : T[q][k].d = e => T[q][k].again = 0
        BY <1>2, <1>3, <1>5
  <2>3. from = b
        BY <1>2, <1>5 DEF Single, b
  <2>4. ASSUME NEW h \in 1 .. n
        PROVE  \E q \in Processes : \E k \in DOMAIN T[q] : T[q][k].d = e /\ h \in Pending(T[q][k])
    <3>1. CASE h <= b
      <4>1. b > 0
            BY <3>1, <1>3
      <4>2. /\ B \in Processes /\ 1 \in DOMAIN T[B] /\ T[B][1].d = d /\ T[B][1].g = 0 /\ T[B][1].upto = b
            BY <4>1, <1>2, <1>3
      <4>3. h \in Pending(T[B][1])
            BY <4>2, <3>1, <1>3 DEF Pending
      <4>   QED BY <4>2, <4>3, <1>5
    <3>2. CASE ~(h <= b)
      <4>1. h \in Pending(T[p][top])
            BY <3>2, <2>3, <1>2, <1>3 DEF Pending
      <4>   QED BY <4>1, <1>2, <1>5
    <3>   QED BY <3>1, <3>2
  <2>   QED BY <2>1, <2>2, <2>4, <1>5 DEF n
<1>   QED BY <1>4, <1>5, <1>2

LEMMA NewNested ==
    ASSUME NEW D, NEW S, NEW C, NEW L, NEW R, NEW p \in Processes, NEW from, NEW E, NEW T, NEW B, NEW M,
           Good(D, S, C, L, R), New1(D, S, C, L, p, from, E, T, B, M)
    PROVE  Nested(E, T, R)
<1> DEFINE d == Len(D) + 1
           top == Len(S[p]) + 1
<1>1. /\ Accepted(D) /\ Stacks(D, S, C) /\ Recorded(D, R)
      /\ OnItsWay(D, S, R) /\ Above(D, S, R) /\ WentBack(D, S, R)
      BY DEF Good, Nested
<1>2. /\ \A q \in Processes :
           /\ \A k \in DOMAIN S[q] : k \in DOMAIN T[q] /\ T[q][k] = S[q][k]
           /\ \A k \in DOMAIN T[q] : \/ k \in DOMAIN S[q] /\ T[q][k] = S[q][k]
                                     \/ /\ q = p /\ k = top /\ T[q][k].d = d /\ T[q][k].g = from
                                        /\ T[q][k].upto = Count(E, d)
                                     \/ k = 1 /\ T[q][k].d = d
      /\ from \in Nat
      /\ E[d].replay => (Back(E, d) = 0 => from = 0) /\ (Back(E, d) # 0 => from = Back(E, d) + 1)
      /\ ~E[d].replay => S[p] = <<>>
      BY DEF New1, Frame
<1>3. /\ d \in Nat /\ Count(E, d) \in Nat /\ Back(E, d) \in 0 .. Count(E, d)
      /\ \A e \in DOMAIN D : e < d /\ e \in Nat /\ Count(E, e) = Count(D, e) /\ Back(E, e) = Back(D, e)
      /\ \A q \in Processes : \A k \in DOMAIN S[q] : S[q][k].d \in DOMAIN D
      /\ \A k \in DOMAIN R : R[k].d \in DOMAIN D
      /\ S[p] = <<>> => top = 1
  <2>1. Latest(D, S, C, R, p, E)
        BY NewLine
  <2>2. /\ d \in Nat /\ Count(E, d) \in Nat /\ Back(E, d) \in 0 .. Count(E, d)
        /\ \A e \in DOMAIN D : e < d /\ e \in Nat /\ Count(E, e) = Count(D, e) /\ Back(E, e) = Back(D, e)
        /\ \A q \in Processes : \A k \in DOMAIN S[q] : S[q][k].d \in DOMAIN D
        /\ \A k \in DOMAIN R : R[k].d \in DOMAIN D
        BY <2>1 DEF Latest
  <2>3. S[p] = <<>> => top = 1
        BY <2>1 DEF Latest
  <2>   QED BY <2>2, <2>3
<1>4. \A e \in DOMAIN D : ReplayedIn(E, e) = ReplayedIn(D, e)
      BY <1>3 DEF ReplayedIn
<1>5. \A k \in DOMAIN R : R[k].proc \in Processes
  <2> DEFINE K == [proc : Processes, d : DOMAIN D, group : Nat]
  <2>1. R \in Seq(K)
        BY <1>1 DEF Recorded
  <2>2. \A k \in DOMAIN R : R[k] \in K
    <3> HIDE DEF K
    <3>   QED BY <2>1
  <2>   QED BY <2>2
<1> HIDE DEF d, top
<1>6. /\ \A q, e : q \in Processes /\ InLine(S, q, e) => InLine(T, q, e)
      /\ \A q, e : q \in Processes /\ e # d /\ InLine(T, q, e) => InLine(S, q, e)
      BY <1>2 DEF InLine
<1>7. \A q, n : \A e \in DOMAIN D : WholeRun(D, R, q, e, n) => WholeRun(E, R, q, e, n)
      BY <1>4 DEF WholeRun
<1>8. OnItsWay(E, T, R)
  <2> SUFFICES ASSUME NEW q \in Processes, NEW k \in DOMAIN T[q], k # 1, NEW h \in ReplayedIn(E, T[q][k].d)
               PROVE  h \in Pending(T[q][k]) \/ RanBy(R, q, T[q][k].d, h, Len(R) + 1)
      BY DEF OnItsWay
  <2>1. CASE k \in DOMAIN S[q] /\ T[q][k] = S[q][k]
        BY <2>1, <1>1, <1>3, <1>4 DEF OnItsWay
  <2>2. CASE k \notin DOMAIN S[q]
    <3>1. k = top /\ T[q][k].d = d /\ T[q][k].g = from /\ T[q][k].upto = Count(E, d) /\ E[d].replay
          BY <2>2, <1>2, <1>3
    <3>2. /\ Back(E, d) = 0 => h \in 1 .. Count(E, d) /\ from = 0
          /\ Back(E, d) # 0 => h \in Back(E, d) + 2 .. Count(E, d) /\ from = Back(E, d) + 1
          BY <3>1, <1>2 DEF ReplayedIn
    <3>3. h \in from + 1 .. Count(E, d)
          BY <3>2, <1>3
    <3>   QED BY <3>1, <3>3 DEF Pending
  <2>   QED BY <2>1, <2>2, <1>2
<1>9. Above(E, T, R)
  <2> SUFFICES ASSUME NEW j \in DOMAIN R, NEW k \in DOMAIN T[R[j].proc], T[R[j].proc][k].d < R[j].d
               PROVE  InLine(T, R[j].proc, R[j].d) \/ WholeRun(E, R, R[j].proc, R[j].d, Len(R) + 1)
      BY DEF Above
  <2>1. T[R[j].proc][k].d # d
        BY <1>3
  <2>2. k \in DOMAIN S[R[j].proc] /\ S[R[j].proc][k].d < R[j].d
        BY <2>1, <1>2, <1>5
  <2>3. InLine(S, R[j].proc, R[j].d) \/ WholeRun(D, R, R[j].proc, R[j].d, Len(R) + 1)
        BY <2>2, <1>1 DEF Above
  <2>   QED BY <2>3, <1>3, <1>5, <1>6, <1>7
<1>10. WentBack(E, T, R)
  <2>1. \A j \in DOMAIN R : R[j].d \in DOMAIN D /\ R[j].d # d
        BY <1>3
  <2>   QED BY <2>1, <1>1, <1>5, <1>6, <1>7 DEF WentBack
<1>    QED BY <1>8, <1>9, <1>10 DEF Nested

LEMMA NewKeeps ==
    ASSUME NEW D, NEW S, NEW C, NEW L, NEW R, NEW p \in Processes, NEW from, NEW E, NEW T, NEW B, NEW M,
           Good(D, S, C, L, R), New1(D, S, C, L, p, from, E, T, B, M)
    PROVE  Good(E, T, B, M, R)
<1>1. Stacks(E, T, B) /\ Apart(T)
      BY NewStacks
<1>2. Jobs(E, T, B, M, R)
      BY NewJobs
<1>3. Foreground(E, T, R)
      BY NewForeground
<1>4. Once(E, T, R)
      BY NewOnce
<1>5. Recorded(E, R)
  <2>1. DOMAIN D \subseteq DOMAIN E
        BY NewLine DEF Latest
  <2>2. R \in Seq([proc : Processes, d : DOMAIN D, group : Nat])
        BY DEF Good, Recorded
  <2>3. [proc : Processes, d : DOMAIN D, group : Nat] \subseteq [proc : Processes, d : DOMAIN E, group : Nat]
        BY <2>1
  <2>4. \A X, Y : X \subseteq Y => Seq(X) \subseteq Seq(Y)
        OBVIOUS
  <2>5. R \in Seq([proc : Processes, d : DOMAIN E, group : Nat])
        BY <2>2, <2>3, <2>4
  <2>   QED BY <2>5 DEF Recorded
<1>6. Accepted(E)
      BY DEF New1
<1>7. Nested(E, T, R)
      BY NewNested
<1>   QED BY <1>1, <1>2, <1>3, <1>4, <1>5, <1>6, <1>7 DEF Good

-----------------------------------------------------------------------------
(* The actions are made of these three.                                      *)

\* A list with one more at its end, and one without its last.
LEMMA Appended ==
    ASSUME NEW X, NEW x \in X, NEW s \in Seq(X)
    PROVE  /\ Append(s, x) \in Seq(X) /\ Len(Append(s, x)) = Len(s) + 1 /\ Len(s) \in Nat
           /\ DOMAIN Append(s, x) = DOMAIN s \cup {Len(s) + 1} /\ DOMAIN s = 1 .. Len(s)
           /\ \A k \in DOMAIN s : Append(s, x)[k] = s[k]
           /\ Append(s, x)[Len(s) + 1] = x /\ 1 \in DOMAIN Append(s, x) /\ Append(s, x) # <<>>
OBVIOUS

LEMMA Shortened ==
    ASSUME NEW X, NEW s \in Seq(X), s # <<>>
    PROVE  /\ Front(s) \in Seq(X) /\ Len(Front(s)) = Len(s) - 1 /\ Len(s) \in Nat \ {0}
           /\ DOMAIN Front(s) = 1 .. Len(s) - 1 /\ DOMAIN s = 1 .. Len(s)
           /\ \A k \in 1 .. Len(s) - 1 : Front(s)[k] = s[k]
           /\ Last(s) = s[Len(s)] /\ Len(s) \in DOMAIN s
<1>1. Len(s) \in Nat \ {0} /\ DOMAIN s = 1 .. Len(s) /\ Len(s) \in DOMAIN s /\ \A k \in 1 .. Len(s) : s[k] \in X
      OBVIOUS
<1> DEFINE n == Len(s)
<1> HIDE DEF n
<1>2. n - 1 \in Nat /\ \A k \in 1 .. n - 1 : s[k] \in X
      BY <1>1 DEF n
<1>3. SubSeq(s, 1, n - 1) \in Seq(X)
      BY <1>2
<1>4. Len(SubSeq(s, 1, n - 1)) = n - 1 /\ \A k \in 1 .. n - 1 : SubSeq(s, 1, n - 1)[k] = s[k]
      BY <1>2
<1>5. DOMAIN SubSeq(s, 1, n - 1) = 1 .. n - 1
      BY <1>3, <1>4
<1>   QED BY <1>1, <1>3, <1>4, <1>5 DEF Front, Last, n

\* The line text, typed or replayed, is dispatched to p, and makes E of D, T of S, B of C
\* and M of L.
Starts(D, S, C, L, R, p, text, cmd, replay, from, E, T, B, M) ==
    /\ p \in Processes /\ text \in Lines /\ replay \in BOOLEAN
    /\ Good(D, S, C, L, R) /\ DOMAIN L = Processes
    /\ cmd = parse_shell_cmd(text) /\ cmd.accepted
    /\ IF replay THEN S[p] # <<>> /\ from = ReplayFrom(cmd)
       ELSE p = Main /\ S[p] = <<>> /\ from = ForegroundFrom(cmd)
    /\ E = Append(D, [line |-> text, cmd |-> cmd, replay |-> replay])
    /\ \/ /\ ~cmd.trailing_amp /\ B = C /\ M = L
          /\ T = [S EXCEPT ![p] = Append(S[p], Frame(Len(D) + 1, from, ngroups(cmd)))]
       \/ /\ cmd.trailing_amp /\ C < MaxChildren /\ B = C + 1
          /\ T = [S EXCEPT ![p] = Append(S[p], Frame(Len(D) + 1, from, ngroups(cmd))),
                           ![C + 1] = <<Frame(Len(D) + 1, 0, cmd.bg_until)>>]
          /\ M = [L EXCEPT ![C + 1] = [d |-> Len(D) + 1, groups |-> NamedBy(cmd)]]

LEMMA DispatchKeeps ==
    ASSUME NEW D, NEW S, NEW C, NEW L, NEW R, NEW p, NEW text, NEW cmd,
           NEW replay, NEW from, NEW E, NEW T, NEW B, NEW M,
           Starts(D, S, C, L, R, p, text, cmd, replay, from, E, T, B, M)
    PROVE  Good(E, T, B, M, R) /\ DOMAIN M = Processes
<1> DEFINE d == Len(D) + 1
           top == Len(S[p]) + 1
           n == Count(E, d)
           b == Back(E, d)
           X == [line : Lines, cmd : {parse_shell_cmd(l) : l \in Lines}, replay : BOOLEAN]
           x == [line |-> text, cmd |-> cmd, replay |-> replay]
           mine == Frame(d, from, n)
           its == Frame(d, 0, b)
<1>0. /\ p \in Processes /\ text \in Lines /\ replay \in BOOLEAN
      /\ Good(D, S, C, L, R) /\ DOMAIN L = Processes
      /\ cmd = parse_shell_cmd(text) /\ cmd.accepted
      /\ IF replay THEN S[p] # <<>> /\ from = ReplayFrom(cmd)
         ELSE p = Main /\ S[p] = <<>> /\ from = ForegroundFrom(cmd)
      /\ E = Append(D, [line |-> text, cmd |-> cmd, replay |-> replay])
      /\ \/ /\ ~cmd.trailing_amp /\ B = C /\ M = L
            /\ T = [S EXCEPT ![p] = Append(S[p], Frame(Len(D) + 1, from, ngroups(cmd)))]
         \/ /\ cmd.trailing_amp /\ C < MaxChildren /\ B = C + 1
            /\ T = [S EXCEPT ![p] = Append(S[p], Frame(Len(D) + 1, from, ngroups(cmd))),
                             ![C + 1] = <<Frame(Len(D) + 1, 0, cmd.bg_until)>>]
            /\ M = [L EXCEPT ![C + 1] = [d |-> Len(D) + 1, groups |-> NamedBy(cmd)]]
      BY DEF Starts
<1> USE <1>0
<1>1. Accepted(D) /\ Stacks(D, S, C)
      BY DEF Good
<1>2. /\ E \in Seq(X) /\ DOMAIN E = DOMAIN D \cup {d} /\ E[d] = x /\ d \in Nat
      /\ \A e \in DOMAIN D : E[e] = D[e]
  <2>1. D \in Seq(X) /\ x \in X
        BY <1>1 DEF Accepted
  <2> HIDE DEF X, x
  <2>2. E = Append(D, x)
        BY DEF x
  <2>   QED BY <2>1, <2>2, Appended
<1>3. Accepted(E)
  <2>1. \A e \in DOMAIN D : E[e].cmd = parse_shell_cmd(E[e].line) /\ E[e].cmd.accepted
        BY <1>1, <1>2 DEF Accepted
  <2>2. E[d].cmd = parse_shell_cmd(E[d].line) /\ E[d].cmd.accepted
        BY <1>2
  <2>   QED BY <2>1, <2>2, <1>2 DEF Accepted
<1>4. /\ n \in Nat /\ b \in 0 .. n /\ n = ngroups(cmd) /\ d \in DOMAIN E
      /\ E[d].replay = replay /\ Understood(text, cmd) /\ b = BackgroundCount(text)
  <2>1. E[d].line = text /\ E[d].cmd = cmd /\ E[d].replay = replay /\ d \in DOMAIN E
        BY <1>2
  <2>2. Understood(E[d].line, E[d].cmd) /\ Count(E, d) \in Nat /\ Back(E, d) \in 0 .. Count(E, d)
        BY <2>1, <1>3, LineCounts
  <2>3. ngroups(E[d].cmd) = Count(E, d)
        BY <2>1, <2>2, <1>3 DEF Understood, Count, Accepted
  <2>4. b = BackgroundCount(text)
        BY <2>1 DEF Back
  <2>   QED BY <2>1, <2>2, <2>3, <2>4
<1>5. /\ cmd.trailing_amp => cmd.bg_until = b /\ b > 0
      /\ ~cmd.trailing_amp => cmd.bg_until = -1 /\ b = 0
  <2>1. /\ cmd.trailing_amp => cmd.bg_until \in 1 .. ngroups(cmd) /\ b = cmd.bg_until
        /\ ~cmd.trailing_amp => cmd.bg_until = -1 /\ b = 0
        BY <1>4 DEF Understood
  <2>   QED BY <2>1, <1>4
<1>6. /\ from \in Nat /\ from >= b
      /\ IF E[d].replay THEN S[p] # <<>> /\ (b = 0 => from = 0) /\ (b # 0 => from = b + 1)
         ELSE p = Main /\ S[p] = <<>> /\ from = b
  <2>1. CASE replay
        BY <2>1, <1>4, <1>5 DEF ReplayFrom
  <2>2. CASE ~replay
        BY <2>2, <1>4, <1>5 DEF ForegroundFrom
  <2>   QED BY <2>1, <2>2
<1>7. /\ C \in Nat /\ Main \in Processes /\ MaxChildren \in Nat
      /\ \A q \in Processes : /\ S[q] \in Seq(Frames(D)) /\ (S[q] # <<>> <=> 1 \in DOMAIN S[q])
                              /\ q \in Nat /\ (q > C => S[q] = <<>>)
  <2>1. \A q \in Processes : q > C => S[q] = <<>>
        BY <1>1 DEF Stacks
  <2>   QED BY <2>1, <1>1, StackFacts, DispatchAssumption DEF Processes
<1>8. \A q \in Processes : S[q] \in Seq(Frames(E))
  <2>1. Frames(D) \subseteq Frames(E)
        BY <1>2 DEF Frames
  <2>2. \A Y, Z : Y \subseteq Z => Seq(Y) \subseteq Seq(Z)
        OBVIOUS
  <2>   QED BY <2>1, <2>2, <1>7
<1>9. mine \in Frames(E) /\ its \in Frames(E)
      BY <1>4, <1>6 DEF Frames, Frame
<1>10. p # C + 1
  <2>1. S[p] # <<>> => ~(p > C)
        BY <1>7
  <2>2. S[p] = <<>> => p = Main
        BY <1>6
  <2>   QED BY <2>1, <2>2, <1>7 DEF Main
<1> HIDE DEF d, top, n, b, X, x
<1>11. \/ ~cmd.trailing_amp /\ B = C /\ M = L /\ T = [S EXCEPT ![p] = Append(S[p], mine)]
       \/ /\ cmd.trailing_amp /\ C < MaxChildren /\ B = C + 1
          /\ T = [S EXCEPT ![p] = Append(S[p], mine), ![C + 1] = <<its>>]
          /\ M = [L EXCEPT ![C + 1] = [d |-> d, groups |-> 1 .. b]]
       BY <1>4, <1>5 DEF d, NamedBy
<1> HIDE DEF mine, its
<1>12. /\ Append(S[p], mine) \in Seq(Frames(E)) /\ DOMAIN Append(S[p], mine) = DOMAIN S[p] \cup {top}
       /\ \A k \in DOMAIN S[p] : Append(S[p], mine)[k] = S[p][k]
       /\ Append(S[p], mine)[top] = mine /\ top \in DOMAIN Append(S[p], mine)
       /\ 1 \in DOMAIN Append(S[p], mine) /\ Append(S[p], mine) # <<>>
       /\ \A k \in DOMAIN S[p] : k # top
  <2>1. /\ Append(S[p], mine) \in Seq(Frames(E)) /\ DOMAIN Append(S[p], mine) = DOMAIN S[p] \cup {top}
        /\ \A k \in DOMAIN S[p] : Append(S[p], mine)[k] = S[p][k]
        /\ Append(S[p], mine)[top] = mine
        /\ 1 \in DOMAIN Append(S[p], mine) /\ Append(S[p], mine) # <<>>
        BY <1>8, <1>9, Appended DEF top
  <2>2. DOMAIN S[p] = 1 .. Len(S[p]) /\ Len(S[p]) \in Nat
        BY <1>8
  <2>3. \A k \in DOMAIN S[p] : k # top
        BY <2>2 DEF top
  <2>   QED BY <2>1, <2>3
<1>13. <<its>> \in Seq(Frames(E)) /\ DOMAIN <<its>> = {1} /\ <<its>>[1] = its /\ <<its>> # <<>>
       BY <1>9
<1>14. S \in [Processes -> Seq(Frames(D))]
       BY <1>1 DEF Stacks
<1> DEFINE mineStack == Append(S[p], mine)
           itsStack == <<its>>
<1>15. cmd.trailing_amp => C + 1 \in Processes
       BY <1>7, <1>11 DEF Processes
<1>16. /\ DOMAIN T = Processes /\ T[p] = mineStack
       /\ \A q \in Processes : q # p /\ q # C + 1 => T[q] = S[q]
       /\ ~cmd.trailing_amp => B = C /\ M = L /\ \A q \in Processes : q # p => T[q] = S[q]
       /\ cmd.trailing_amp => /\ B = C + 1 /\ T[C + 1] = itsStack /\ S[C + 1] = <<>>
                              /\ M[C + 1] = [d |-> d, groups |-> 1 .. b]
                              /\ \A c \in 1 .. C : M[c] = L[c]
  <2> HIDE DEF mineStack, itsStack
  <2>1. CASE ~cmd.trailing_amp
    <3>1. T = [S EXCEPT ![p] = mineStack] /\ B = C /\ M = L
          BY <2>1, <1>11 DEF mineStack
    <3>   QED BY <3>1, <2>1, <1>14
  <2>2. CASE cmd.trailing_amp
    <3>1. /\ T = [S EXCEPT ![p] = mineStack, ![C + 1] = itsStack] /\ B = C + 1
          /\ M = [L EXCEPT ![C + 1] = [d |-> d, groups |-> 1 .. b]]
          BY <2>2, <1>11 DEF mineStack, itsStack
    <3>2. DOMAIN T = Processes /\ T[p] = mineStack /\ \A q \in Processes : q # p /\ q # C + 1 => T[q] = S[q]
          BY <3>1, <1>10, <1>14
    <3>3. T[C + 1] = itsStack
          BY <3>1, <2>2, <1>10, <1>14, <1>15
    <3>4. M[C + 1] = [d |-> d, groups |-> 1 .. b]
          BY <3>1, <2>2, <1>15
    <3>5. \A c \in 1 .. C : M[c] = L[c]
      <4>1. \A c \in 1 .. C : c \in Processes /\ c # C + 1
            BY <1>1, <1>7, StackFacts
      <4>   QED BY <4>1, <3>1
    <3>6. S[C + 1] = <<>>
          BY <2>2, <1>7, <1>15
    <3>   QED BY <3>1, <3>2, <3>3, <3>4, <3>5, <3>6, <2>2
  <2>   QED BY <2>1, <2>2
<1>17. DOMAIN M = Processes
       BY <1>11
<1>18. \A q \in Processes : \/ q = p /\ T[q] = mineStack
                            \/ q # p /\ T[q] = S[q]
                            \/ q # p /\ cmd.trailing_amp /\ q = C + 1 /\ S[q] = <<>> /\ T[q] = itsStack
       BY <1>10, <1>16
<1> HIDE DEF mineStack, itsStack
<1>19. T \in [Processes -> Seq(Frames(E))]
  <2>1. \A q \in Processes : T[q] \in Seq(Frames(E))
        BY <1>8, <1>12, <1>13, <1>18 DEF mineStack, itsStack
  <2>2. T = [q \in Processes |-> T[q]]
    <3>1. \A f : f \in [Processes -> Seq(Frames(D))] => f = [q \in DOMAIN f |-> f[q]]
          OBVIOUS
    <3>2. \E f : T = [S EXCEPT ![p] = f] \/ \E g : T = [S EXCEPT ![p] = f, ![C + 1] = g]
          BY <1>11
    <3>   QED BY <3>2, <1>14
  <2>   QED BY <2>1, <2>2
<1>20. ASSUME NEW q \in Processes
       PROVE  /\ T[q] # <<>> <=> 1 \in DOMAIN T[q]
              /\ \A k \in DOMAIN S[q] : k \in DOMAIN T[q] /\ T[q][k] = S[q][k]
              /\ \A k \in DOMAIN T[q] : \/ k \in DOMAIN S[q] /\ T[q][k] = S[q][k]
                                        \/ q = p /\ k = top /\ T[q][k] = mine
                                        \/ b > 0 /\ q = B /\ k = 1 /\ B = C + 1 /\ T[q][k] = its
  <2>1. CASE q = p /\ T[q] = mineStack
        BY <2>1, <1>7, <1>12 DEF mineStack
  <2>2. CASE T[q] = S[q]
        BY <2>2, <1>7
  <2>3. CASE cmd.trailing_amp /\ q = C + 1 /\ S[q] = <<>> /\ T[q] = itsStack
    <3>1. DOMAIN S[q] = {}
          BY <2>3
    <3>   QED BY <3>1, <2>3, <1>5, <1>13, <1>16 DEF itsStack
  <2>   QED BY <2>1, <2>2, <2>3, <1>18
<1>21. New1(D, S, C, L, p, from, E, T, B, M)
  <2>1. top \in DOMAIN T[p] /\ T[p][top] = mine
        BY <1>12, <1>16 DEF mineStack
  <2>2. \A c \in 1 .. C : M[c] = L[c]
        BY <1>16
  <2>3. \/ b = 0 /\ B = C
        \/ /\ b > 0 /\ B = C + 1 /\ B \in Processes
           /\ 1 \in DOMAIN T[B] /\ T[B][1] = its /\ M[B] = [d |-> d, groups |-> 1 .. b]
        BY <1>5, <1>13, <1>15, <1>16 DEF itsStack
  <2>   QED BY <2>1, <2>2, <2>3, <1>2, <1>3, <1>6, <1>19, <1>20 DEF New1, d, top, n, b, mine, its
<1>   QED BY <1>17, <1>21, NewKeeps

\* A group that is run is passed, unless it is a pipeline that is run again.
LEMMA GroupPassed ==
    ASSUME Good(dispatched, stack, children, listed, ran), NEW p \in Processes, Working(p)
    PROVE  LET top == Top(p)
               next == Passed(top)
           IN  /\ top = stack[p][Len(stack[p])] /\ next \in Frames(dispatched)
               /\ next.d = top.d /\ next.upto = top.upto /\ next.g \in {top.g, top.g + 1}
               /\ Single(dispatched, top.d) /\ top.again = 0 => next.g = top.g + 1 /\ next.again = 0
<1> DEFINE t == Len(stack[p])
           top == Top(p)
           next == Passed(top)
           D == dispatched
<1>1. Accepted(D) /\ Stacks(D, stack, children)
      BY DEF Good
<1>2. stack[p] # <<>> /\ top.g < top.upto
      BY DEF Working
<1>3. stack[p] \in Seq(Frames(D)) /\ top = stack[p][t] /\ t \in DOMAIN stack[p]
  <2>1. stack[p] \in Seq(Frames(D)) /\ stack[p] # <<>>
        BY <1>1, <1>2, StackFacts
  <2> HIDE DEF D
  <2>2. /\ t \in Nat \ {0} /\ DOMAIN stack[p] = 1 .. t
        /\ Last(stack[p]) = stack[p][t]
        BY <2>1, Shortened
  <2>   QED BY <2>1, <2>2 DEF Top
<1>4. top \in Frames(D)
      BY <1>3, <1>1, StackFacts
<1> HIDE DEF top, t
<1>5. /\ top = [d |-> top.d, g |-> top.g, upto |-> top.upto, again |-> top.again]
      /\ top.d \in DOMAIN D /\ top.g \in Nat /\ top.upto \in Nat /\ top.again \in Nat
      BY <1>4 DEF Frames
<1>6. next = [top EXCEPT !.again = @ + 1] \/ next = [top EXCEPT !.g = @ + 1, !.again = 0]
      BY DEF Passed
<1>7. /\ next \in Frames(D) /\ next.d = top.d /\ next.upto = top.upto /\ next.g \in {top.g, top.g + 1}
  <2> HIDE DEF next
  <2>1. CASE next = [top EXCEPT !.again = @ + 1]
    <3>1. next = [d |-> top.d, g |-> top.g, upto |-> top.upto, again |-> top.again + 1]
          BY <2>1, <1>5
    <3>   QED BY <3>1, <1>5 DEF Frames
  <2>2. CASE next = [top EXCEPT !.g = @ + 1, !.again = 0]
    <3>1. next = [d |-> top.d, g |-> top.g + 1, upto |-> top.upto, again |-> 0]
          BY <2>2, <1>5
    <3>   QED BY <3>1, <1>5 DEF Frames
  <2>   QED BY <2>1, <2>2, <1>6
<1>8. ASSUME Single(D, top.d), top.again = 0 PROVE next.g = top.g + 1 /\ next.again = 0
  <2> DEFINE cmd == D[top.d].cmd
             text == D[top.d].line
  <2>1. /\ Understood(text, cmd) /\ cmd.accepted /\ ngroups(cmd) = Count(D, top.d)
        /\ Back(D, top.d) \in 0 .. Count(D, top.d) /\ Count(D, top.d) \in Nat
        BY <1>1, <1>5, LineCounts
  <2>2. top.upto <= ngroups(cmd)
    <3>1. top.upto = Back(D, top.d) \/ top.upto = Count(D, top.d)
          BY <1>1, <1>3 DEF Stacks
    <3>   QED BY <3>1, <2>1
  <2>3. top.g + 1 \in DOMAIN cmd.groups
    <3>1. cmd.groups \in Seq(Seq(Nat))
          BY <2>1 DEF Understood
    <3>2. DOMAIN cmd.groups = 1 .. ngroups(cmd) /\ ngroups(cmd) \in Nat
          BY <3>1 DEF ngroups
    <3>   QED BY <3>2, <2>2, <1>2, <1>5 DEF top
  <2>4. Len(cmd.groups[top.g + 1]) > 1 => \E q \in DOMAIN text : text[q] = "pipe"
        BY <2>1, <2>3 DEF Understood
  <2>5. ~(Len(cmd.groups[top.g + 1]) > 1 /\ cmd.types[1] = "semi")
        BY <2>4, <1>8 DEF Single, RepeatedIn
  <2>6. Times(top) = 1
        BY <2>5 DEF Times, Group, Cmd
  <2>7. next = [top EXCEPT !.g = @ + 1, !.again = 0]
        BY <2>6, <1>8 DEF Passed
  <2>   QED BY <2>7, <1>5
<1>   QED BY <1>3, <1>7, <1>8 DEF top, t

LEMMA RunKeepsGood ==
    ASSUME Good(dispatched, stack, children, listed, ran), NEW p \in Processes, Working(p),
           NEW T, T = [stack EXCEPT ![p] = Replaces(p)],
           NEW Q, Q = Append(ran, [proc |-> p, d |-> Top(p).d, group |-> Top(p).g + 1])
    PROVE  Good(dispatched, T, children, listed, Q) /\ T[p] = Replaces(p) /\ T[p] # <<>>
<1> DEFINE D == dispatched
           t == Len(stack[p])
           top == Top(p)
           next == Passed(top)
           below == Front(stack[p])
           new == Append(below, next)
           K == [proc : Processes, d : DOMAIN D, group : Nat]
           x == [proc |-> p, d |-> top.d, group |-> top.g + 1]
<1>1. Accepted(D) /\ Stacks(D, stack, children) /\ Recorded(D, ran)
      BY DEF Good
<1>2. stack[p] # <<>> /\ top.g < top.upto
      BY DEF Working
<1>3. /\ top = stack[p][t] /\ next \in Frames(D)
      /\ next.d = top.d /\ next.upto = top.upto /\ next.g \in {top.g, top.g + 1}
      /\ Single(D, top.d) /\ top.again = 0 => next.g = top.g + 1 /\ next.again = 0
      BY GroupPassed
<1>4. /\ stack \in [Processes -> Seq(Frames(D))]
      /\ \A q \in Processes : stack[q] \in Seq(Frames(D)) /\ (stack[q] # <<>> <=> 1 \in DOMAIN stack[q])
      BY <1>1, StackFacts DEF Stacks
<1>5. new = Replaces(p)
      BY DEF Replaces
<1> HIDE DEF top, next, D
<1>6. /\ below \in Seq(Frames(D)) /\ Len(below) = t - 1 /\ t \in Nat \ {0} /\ DOMAIN below = 1 .. t - 1
      /\ DOMAIN stack[p] = 1 .. t /\ \A k \in 1 .. t - 1 : below[k] = stack[p][k]
      BY <1>2, <1>4, Shortened
<1> HIDE DEF below, t
<1>7. /\ new \in Seq(Frames(D)) /\ DOMAIN new = DOMAIN below \cup {Len(below) + 1}
      /\ \A k \in DOMAIN below : new[k] = below[k]
      /\ new[Len(below) + 1] = next /\ 1 \in DOMAIN new /\ new # <<>>
      BY <1>3, <1>6, Appended
<1> HIDE DEF new
<1>8. /\ DOMAIN new = DOMAIN stack[p] /\ new[t] = next /\ t \in DOMAIN stack[p]
      /\ \A k \in DOMAIN stack[p] : k # t => new[k] = stack[p][k]
  <2>1. Len(below) + 1 = t /\ 1 .. t = (1 .. t - 1) \cup {t}
        BY <1>6
  <2>2. \A k \in 1 .. t : k # t => k \in 1 .. t - 1
        BY <1>6
  <2>   QED BY <2>1, <2>2, <1>6, <1>7
<1>9. T = [stack EXCEPT ![p] = new]
      BY <1>5
<1>10. T \in [Processes -> Seq(Frames(D))] /\ T[p] = new /\ \A q \in Processes : q # p => T[q] = stack[q]
       BY <1>4, <1>7, <1>9
<1>11. \A q \in Processes :
         /\ DOMAIN T[q] = DOMAIN stack[q] /\ (T[q] = <<>> <=> stack[q] = <<>>)
         /\ \A k \in DOMAIN stack[q] : /\ T[q][k].d = stack[q][k].d /\ T[q][k].upto = stack[q][k].upto
                                       /\ q # p \/ k # t => T[q][k] = stack[q][k]
  <2> SUFFICES ASSUME NEW q \in Processes
               PROVE  /\ DOMAIN T[q] = DOMAIN stack[q] /\ (T[q] = <<>> <=> stack[q] = <<>>)
                      /\ \A k \in DOMAIN stack[q] : /\ T[q][k].d = stack[q][k].d /\ T[q][k].upto = stack[q][k].upto
                                                    /\ q # p \/ k # t => T[q][k] = stack[q][k]
      OBVIOUS
  <2>1. CASE q # p
        BY <2>1, <1>10
  <2>2. CASE q = p
        BY <2>2, <1>2, <1>3, <1>7, <1>8, <1>10
  <2>   QED BY <2>1, <2>2
<1>12. x \in K /\ ran \in Seq(K)
  <2>1. top.d \in DOMAIN D /\ top.g \in Nat
        BY <1>1, <1>3, <1>8, StackFacts
  <2>   QED BY <2>1, <1>1 DEF Recorded
<1>13. Q = Append(ran, x)
       BY DEF top
<1> HIDE DEF K, x
<1>14. /\ Q \in Seq(K) /\ Len(Q) = Len(ran) + 1 /\ DOMAIN Q = DOMAIN ran \cup {Len(ran) + 1}
       /\ \A k \in DOMAIN ran : Q[k] = ran[k]
       /\ Q[Len(ran) + 1] = x
       BY <1>12, <1>13, Appended
<1>15. Recorded(D, Q) /\ x = [proc |-> p, d |-> stack[p][t].d, group |-> stack[p][t].g + 1]
       BY <1>3, <1>14 DEF Recorded, K, x
<1>16. /\ T[p][t].g \in {stack[p][t].g, stack[p][t].g + 1} /\ stack[p][t].g < stack[p][t].upto
       /\ Single(D, stack[p][t].d) /\ stack[p][t].again = 0 => T[p][t].g = stack[p][t].g + 1 /\ T[p][t].again = 0
       BY <1>2, <1>3, <1>8, <1>10
<1>17. Runs1(D, stack, ran, p, T, Q)
       BY <1>8, <1>10, <1>11, <1>14, <1>15, <1>16 DEF Runs1, t
<1>18. Good(D, T, children, listed, Q)
       BY <1>17, RunKeeps DEF D
<1>   QED BY <1>5, <1>7, <1>10, <1>18 DEF D

LEMMA EndKeepsGood ==
    ASSUME Good(dispatched, stack, children, listed, ran), NEW p \in Processes, stack[p] # <<>>, ~Working(p),
           NEW T, T = [stack EXCEPT ![p] = Front(@)]
    PROVE  Good(dispatched, T, children, listed, ran)
<1> DEFINE D == dispatched
           t == Len(stack[p])
           below == Front(stack[p])
<1>1. Accepted(D) /\ Stacks(D, stack, children)
      BY DEF Good
<1>2. /\ stack \in [Processes -> Seq(Frames(D))]
      /\ \A q \in Processes : /\ stack[q] \in Seq(Frames(D)) /\ (stack[q] # <<>> <=> 1 \in DOMAIN stack[q])
                              /\ \A k \in DOMAIN stack[q] : stack[q][k].g \in Nat /\ stack[q][k].upto \in Nat
  <2>1. stack \in [Processes -> Seq(Frames(D))]
        BY <1>1 DEF Stacks
  <2>2. \A q \in Processes : /\ stack[q] \in Seq(Frames(D)) /\ (stack[q] # <<>> <=> 1 \in DOMAIN stack[q])
                              /\ \A k \in DOMAIN stack[q] : stack[q][k].g \in Nat /\ stack[q][k].upto \in Nat
        BY <1>1, StackFacts
  <2>   QED BY <2>1, <2>2
<1>3. /\ below \in Seq(Frames(D)) /\ Len(below) = t - 1 /\ t \in Nat \ {0} /\ DOMAIN below = 1 .. t - 1
      /\ DOMAIN stack[p] = 1 .. t /\ \A k \in 1 .. t - 1 : below[k] = stack[p][k]
      /\ Last(stack[p]) = stack[p][t]
      BY <1>2, Shortened
<1>4. ~(stack[p][t].g < stack[p][t].upto)
      BY <1>3 DEF Working, Top
<1>5. T = [stack EXCEPT ![p] = below]
      OBVIOUS
<1> HIDE DEF below, t, D
<1>6. T \in [Processes -> Seq(Frames(D))] /\ T[p] = below /\ \A q \in Processes : q # p => T[q] = stack[q]
      BY <1>2, <1>3, <1>5
<1>7. Pending(stack[p][t]) = {}
  <2>1. stack[p][t].g \in Nat /\ stack[p][t].upto \in Nat
        BY <1>2, <1>3
  <2>2. \A a, b \in Nat : ~(a < b) => a + 1 .. b = {}
        OBVIOUS
  <2>   QED BY <2>1, <2>2, <1>4 DEF Pending
<1>8. /\ below # <<>> <=> 1 \in DOMAIN below
      /\ \A k \in DOMAIN below : k \in DOMAIN stack[p]
      /\ \A k \in DOMAIN stack[p] : k \in DOMAIN below \/ k = t
      BY <1>3
<1>9. Ends1(D, stack, T)
  <2> SUFFICES ASSUME NEW q \in Processes
               PROVE  /\ T[q] # <<>> <=> 1 \in DOMAIN T[q]
                      /\ \A k \in DOMAIN T[q] : k \in DOMAIN stack[q] /\ T[q][k] = stack[q][k]
                      /\ \A k \in DOMAIN stack[q] : k \in DOMAIN T[q] \/ Pending(stack[q][k]) = {}
      BY <1>6 DEF Ends1
  <2>1. CASE q # p
        BY <2>1, <1>2, <1>6
  <2>2. CASE q = p
        BY <2>2, <1>3, <1>6, <1>7, <1>8
  <2>   QED BY <2>1, <2>2
<1>   QED BY <1>9, EndKeeps DEF D

-----------------------------------------------------------------------------
(* The invariant holds of every state reached. *)

LEMMA Begins == Init => DispatchInv
<1> SUFFICES ASSUME Init PROVE DispatchInv
    OBVIOUS
<1>1. MaxChildren \in Nat /\ MaxDispatches \in Nat
      BY DispatchAssumption
<1>2. /\ line = <<>> /\ accepted = TRUE /\ dispatched = <<>> /\ children = 0 /\ ran = <<>> /\ broken = {}
      /\ stack = [q \in Processes |-> <<>>] /\ DOMAIN listed = Processes
      BY DEF Init
<1>3. \A q \in Processes : stack[q] = <<>> /\ DOMAIN stack[q] = {}
      BY <1>2
<1>4. Grammatical(<<>>)
      BY DEF Grammatical
<1>5. DOMAIN dispatched = {} /\ DOMAIN ran = {} /\ Len(dispatched) = 0 /\ Main \in Processes
      BY <1>1, <1>2 DEF Processes, Main
<1>6. Accepted(dispatched)
      BY <1>2, <1>5 DEF Accepted
<1>7. Stacks(dispatched, stack, children)
  <2>1. stack \in [Processes -> Seq(Frames(dispatched))]
        BY <1>2
  <2>   QED BY <2>1, <1>1, <1>2, <1>3, <1>5 DEF Stacks
<1>8. Apart(stack)
      BY <1>3 DEF Apart
<1>9. Recorded(dispatched, ran)
      BY <1>2 DEF Recorded
<1>10. Jobs(dispatched, stack, children, listed, ran)
       BY <1>2 DEF Jobs
<1>11. Foreground(dispatched, stack, ran)
       BY <1>5 DEF Foreground, OfMain
<1>12. Once(dispatched, stack, ran)
       BY <1>5 DEF Once
<1>13. Nested(dispatched, stack, ran)
       BY <1>3, <1>5 DEF Nested, OnItsWay, Above, WentBack
<1>14. Good(dispatched, stack, children, listed, ran)
       BY <1>6, <1>7, <1>8, <1>9, <1>10, <1>11, <1>12, <1>13 DEF Good
<1>    QED BY <1>1, <1>2, <1>4, <1>5, <1>14 DEF DispatchInv

LEMMA LineKeeps == ASSUME DispatchInv, ReadLine PROVE DispatchInv'
<1>1. /\ Good(dispatched, stack, children, listed, ran) /\ DOMAIN listed = Processes
      /\ Len(dispatched) <= MaxDispatches /\ broken \subseteq Processes
      BY DEF DispatchInv
<1>2. PICK text \in {l \in Typed : Fits(l)} :
        /\ line' = text /\ accepted' = parse_shell_cmd(text).accepted
        /\ IF parse_shell_cmd(text).accepted
           THEN Dispatch(Main, text, parse_shell_cmd(text), FALSE, <<>>, ForegroundFrom(parse_shell_cmd(text)))
           ELSE UNCHANGED <<dispatched, stack, children, listed>>
      BY DEF ReadLine
<1> DEFINE cmd == parse_shell_cmd(text)
<1>3. /\ text \in Lines /\ text \in Seq(TokenKinds) /\ ran' = ran /\ stack[Main] = <<>>
      /\ broken' \subseteq Processes
  <2>1. text \in Typed /\ LaterLines \subseteq Lines /\ Lines \subseteq Seq(TokenKinds)
        BY <1>2, DispatchAssumption
  <2>2. ran' = ran /\ broken' = broken /\ stack[Main] = <<>>
        BY DEF ReadLine, AtPrompt
  <2>   QED BY <2>1, <2>2, <1>1 DEF Typed
<1>4. cmd.accepted \in BOOLEAN /\ (cmd.accepted <=> Grammatical(text))
  <2>1. Understood(text, cmd)
        BY <1>3, LineParsed
  <2>   QED BY <2>1 DEF Understood
<1>5. line' \in Lines \cup {<<>>} /\ accepted' \in BOOLEAN /\ (accepted' <=> Grammatical(line'))
      BY <1>2, <1>3, <1>4
<1>6. Main \in Processes
      BY <1>1, StackFacts DEF Good
<1> HIDE DEF cmd
<1>7. CASE ~cmd.accepted
  <2>1. UNCHANGED <<dispatched, stack, children, listed, ran>>
        BY <1>2, <1>3, <1>7 DEF cmd
  <2>   QED BY <2>1, <1>1, <1>3, <1>5 DEF DispatchInv
<1>8. CASE cmd.accepted
  <2>1. Dispatch(Main, text, cmd, FALSE, <<>>, ForegroundFrom(cmd))
        BY <1>2, <1>8 DEF cmd
  <2>2. Append(stack[Main], Frame(Len(dispatched) + 1, ForegroundFrom(cmd), ngroups(cmd)))
          = Append(<<>>, Frame(Len(dispatched) + 1, ForegroundFrom(cmd), ngroups(cmd)))
        BY <1>3
  <2>3. /\ Len(dispatched) + 1 <= MaxDispatches
        /\ dispatched' = Append(dispatched, [line |-> text, cmd |-> cmd, replay |-> FALSE])
        /\ \/ /\ ~cmd.trailing_amp /\ children' = children /\ listed' = listed
              /\ stack' = [stack EXCEPT ![Main] = Append(stack[Main], Frame(Len(dispatched) + 1, ForegroundFrom(cmd), ngroups(cmd)))]
           \/ /\ cmd.trailing_amp /\ children < MaxChildren /\ children' = children + 1
              /\ stack' = [stack EXCEPT ![Main] = Append(stack[Main], Frame(Len(dispatched) + 1, ForegroundFrom(cmd), ngroups(cmd))),
                                        ![children + 1] = <<Frame(Len(dispatched) + 1, 0, cmd.bg_until)>>]
              /\ listed' = [listed EXCEPT ![children + 1] = [d |-> Len(dispatched) + 1, groups |-> NamedBy(cmd)]]
        BY <2>1, <2>2 DEF Dispatch
  <2>4. IF FALSE THEN stack[Main] # <<>> /\ ForegroundFrom(cmd) = ReplayFrom(cmd)
        ELSE Main = Main /\ stack[Main] = <<>> /\ ForegroundFrom(cmd) = ForegroundFrom(cmd)
        BY <1>3
  <2>5. Good(dispatched', stack', children', listed', ran) /\ DOMAIN listed' = Processes
    <3>1. cmd = parse_shell_cmd(text)
          BY DEF cmd
    <3>2. Starts(dispatched, stack, children, listed, ran, Main, text, cmd, FALSE, ForegroundFrom(cmd),
                 dispatched', stack', children', listed')
          BY <3>1, <2>3, <2>4, <1>1, <1>3, <1>6, <1>8 DEF Starts
    <3>   QED BY <3>2, DispatchKeeps
  <2>6. Len(dispatched') <= MaxDispatches
    <3>1. dispatched \in Seq([line : Lines, cmd : {parse_shell_cmd(l) : l \in Lines}, replay : BOOLEAN])
          BY <1>1 DEF Good, Accepted
    <3>2. Len(dispatched') = Len(dispatched) + 1
          BY <3>1, <2>3
    <3>   QED BY <3>2, <2>3
  <2>7. Good(dispatched', stack', children', listed', ran')
        BY <2>5, <1>3
  <2>   QED BY <2>5, <2>6, <2>7, <1>3, <1>5 DEF DispatchInv
<1>   QED BY <1>7, <1>8

LEMMA GroupKeeps == ASSUME DispatchInv, NEW p \in Processes, RunGroup(p) PROVE DispatchInv'
<1>1. Good(dispatched, stack, children, listed, ran)
      BY DEF DispatchInv
<1>2. /\ Working(p) /\ ran' = Append(ran, [proc |-> p, d |-> Top(p).d, group |-> Top(p).g + 1])
      /\ stack' = [stack EXCEPT ![p] = Replaces(p)]
      /\ UNCHANGED <<line, accepted, dispatched, children, listed, broken>>
      BY DEF RunGroup, Record
<1>3. Good(dispatched, stack', children, listed, ran')
      BY <1>1, <1>2, RunKeepsGood
<1>4. Good(dispatched', stack', children', listed', ran')
      BY <1>2, <1>3
<1>   QED BY <1>2, <1>4 DEF DispatchInv

LEMMA ReturnKeeps == ASSUME DispatchInv, NEW p \in Processes, Return(p) PROVE DispatchInv'
<1>1. Good(dispatched, stack, children, listed, ran)
      BY DEF DispatchInv
<1>2. /\ stack[p] # <<>> /\ ~Working(p) /\ stack' = [stack EXCEPT ![p] = Front(@)]
      /\ UNCHANGED <<line, accepted, dispatched, children, listed, broken, ran>>
      BY DEF Return
<1>3. Good(dispatched, stack', children, listed, ran)
      BY <1>1, <1>2, EndKeepsGood
<1>4. Good(dispatched', stack', children', listed', ran')
      BY <1>2, <1>3
<1>   QED BY <1>2, <1>4 DEF DispatchInv

LEMMA ReplayKeeps == ASSUME DispatchInv, NEW p \in Processes, Replay(p) PROVE DispatchInv'
<1>1. /\ Good(dispatched, stack, children, listed, ran) /\ DOMAIN listed = Processes
      BY DEF DispatchInv
<1>2. /\ Working(p) /\ ran' = Append(ran, [proc |-> p, d |-> Top(p).d, group |-> Top(p).g + 1])
      /\ UNCHANGED <<line, accepted, broken>>
      BY DEF Replay, Record
<1>3. PICK k \in DOMAIN dispatched :
        Dispatch(p, dispatched[k].line, dispatched[k].cmd, TRUE, Replaces(p), ReplayFrom(dispatched[k].cmd))
      BY DEF Replay
<1> DEFINE text == dispatched[k].line
           cmd == dispatched[k].cmd
           S == [stack EXCEPT ![p] = Replaces(p)]
           mine == Append(S[p], Frame(Len(dispatched) + 1, ReplayFrom(cmd), ngroups(cmd)))
<1>4. text \in Lines /\ cmd.accepted /\ cmd = parse_shell_cmd(text)
  <2>1. Accepted(dispatched)
        BY <1>1 DEF Good
  <2>2. text \in Lines
        BY <2>1, LineCounts
  <2>   QED BY <2>1, <2>2 DEF Accepted
<1>5. Good(dispatched, S, children, listed, ran') /\ S[p] = Replaces(p) /\ S[p] # <<>>
      BY <1>1, <1>2, RunKeepsGood
<1> HIDE DEF text, cmd
<1>6. p \in DOMAIN stack /\ DOMAIN S = DOMAIN stack
  <2>1. stack \in [Processes -> Seq(Frames(dispatched))]
        BY <1>1 DEF Good, Stacks
  <2>   QED BY <2>1
<1>7. \A f, g : /\ [stack EXCEPT ![p] = f] = [S EXCEPT ![p] = f]
                /\ [stack EXCEPT ![p] = f, ![children + 1] = g] = [S EXCEPT ![p] = f, ![children + 1] = g]
  <2> HIDE DEF mine
  <2>   QED BY <1>6
<1>8. Dispatch(p, text, cmd, TRUE, S[p], ReplayFrom(cmd))
      BY <1>3, <1>5 DEF text, cmd
<1> HIDE DEF S
<1>9. /\ Len(dispatched) + 1 <= MaxDispatches
      /\ dispatched' = Append(dispatched, [line |-> text, cmd |-> cmd, replay |-> TRUE])
      /\ \/ /\ ~cmd.trailing_amp /\ children' = children /\ listed' = listed
            /\ stack' = [stack EXCEPT ![p] = mine]
         \/ /\ cmd.trailing_amp /\ children < MaxChildren /\ children' = children + 1
            /\ stack' = [stack EXCEPT ![p] = mine,
                                      ![children + 1] = <<Frame(Len(dispatched) + 1, 0, cmd.bg_until)>>]
            /\ listed' = [listed EXCEPT ![children + 1] = [d |-> Len(dispatched) + 1, groups |-> NamedBy(cmd)]]
      BY <1>8 DEF Dispatch
<1>10. \/ /\ ~cmd.trailing_amp /\ children' = children /\ listed' = listed
          /\ stack' = [S EXCEPT ![p] = mine]
       \/ /\ cmd.trailing_amp /\ children < MaxChildren /\ children' = children + 1
          /\ stack' = [S EXCEPT ![p] = mine,
                                ![children + 1] = <<Frame(Len(dispatched) + 1, 0, cmd.bg_until)>>]
          /\ listed' = [listed EXCEPT ![children + 1] = [d |-> Len(dispatched) + 1, groups |-> NamedBy(cmd)]]
  <2> HIDE DEF mine
  <2>   QED BY <1>7, <1>9
<1>11. IF TRUE THEN S[p] # <<>> /\ ReplayFrom(cmd) = ReplayFrom(cmd)
       ELSE p = Main /\ S[p] = <<>> /\ ReplayFrom(cmd) = ForegroundFrom(cmd)
       BY <1>5
<1>12. Good(dispatched', stack', children', listed', ran') /\ DOMAIN listed' = Processes
  <2>1. Starts(dispatched, S, children, listed, ran', p, text, cmd, TRUE, ReplayFrom(cmd),
               dispatched', stack', children', listed')
        BY <1>1, <1>4, <1>5, <1>9, <1>10, <1>11 DEF Starts
  <2>   QED BY <2>1, DispatchKeeps
<1>13. Len(dispatched') <= MaxDispatches
  <2>1. dispatched \in Seq([line : Lines, cmd : {parse_shell_cmd(l) : l \in Lines}, replay : BOOLEAN])
        BY <1>1 DEF Good, Accepted
  <2>2. Len(dispatched') = Len(dispatched) + 1
        BY <2>1, <1>9
  <2>   QED BY <2>2, <1>9
<1>   QED BY <1>2, <1>12, <1>13 DEF DispatchInv

\* What a process was doing stays as it is when it breaks.
LEMMA BreakKeeps ==
    ASSUME DispatchInv, Overrun \/ \E p \in Processes : Crash(p)
    PROVE  DispatchInv'
<1>1. Main \in Processes
      BY StackFacts DEF DispatchInv, Good
<1>2. \E p \in Processes :
        /\ broken' = broken \cup {p}
        /\ UNCHANGED <<line, accepted, dispatched, stack, children, listed, ran>>
      BY <1>1 DEF Overrun, Crash
<1>   QED BY <1>2 DEF DispatchInv

\* What is on the stacks, was run and is listed relates as DispatchInv says, whatever
\* is typed, replayed and sent to the background.
THEOREM DispatchRelated == Spec => []DispatchInv
<1>1. ASSUME DispatchInv, [Next]_vars PROVE DispatchInv'
  <2>1. CASE ReadLine
        BY <1>1, <2>1, LineKeeps
  <2>2. CASE \E p \in Processes : Step(p)
    <3>1. PICK p \in Processes : Step(p)
          BY <2>2
    <3>   QED BY <1>1, <3>1, GroupKeeps, ReplayKeeps, BreakKeeps, ReturnKeeps DEF Step
  <2>3. CASE Overrun
        BY <1>1, <2>3, BreakKeeps
  <2>4. CASE UNCHANGED vars
        BY <1>1, <2>4 DEF DispatchInv, vars
  <2>   QED BY <1>1, <2>1, <2>2, <2>3, <2>4 DEF Next
<1>   QED BY <1>1, Begins, PTL DEF Spec

-----------------------------------------------------------------------------
(* What follows from it. *)

\* The values the variables take: no process is in a line that was not dispatched, none
\* goes beyond its groups, and none that was not forked is in a line.
THEOREM TypeCorrect == Spec => []TypeOK
<1>1. ASSUME DispatchInv PROVE TypeOK
  <2>1. /\ line \in Lines \cup {<<>>} /\ accepted \in BOOLEAN /\ Len(dispatched) <= MaxDispatches
        /\ broken \subseteq Processes /\ Accepted(dispatched) /\ Stacks(dispatched, stack, children)
        BY <1>1 DEF DispatchInv, Good
  <2>2. children \in 0 .. MaxChildren /\ \A p \in Processes : p > children => stack[p] = <<>>
        BY <2>1 DEF Stacks
  <2>3. ASSUME NEW p \in Processes, NEW k \in DOMAIN stack[p]
        PROVE  stack[p][k].d \in DOMAIN dispatched /\ stack[p][k].upto <= Len(Cmd(stack[p][k]).groups)
    <3>1. stack[p][k].d \in DOMAIN dispatched
          BY <2>1, StackFacts
    <3>2. \/ stack[p][k].upto = Back(dispatched, stack[p][k].d)
          \/ stack[p][k].upto = Count(dispatched, stack[p][k].d)
          BY <2>1 DEF Stacks
    <3>3. /\ Count(dispatched, stack[p][k].d) \in Nat
          /\ Back(dispatched, stack[p][k].d) \in 0 .. Count(dispatched, stack[p][k].d)
          /\ ngroups(dispatched[stack[p][k].d].cmd) = Count(dispatched, stack[p][k].d)
          BY <2>1, <3>1, LineCounts
    <3>   QED BY <3>1, <3>2, <3>3 DEF Cmd, ngroups
  <2>   QED BY <2>1, <2>2, <2>3 DEF TypeOK
<1>   QED BY <1>1, DispatchRelated, PTL

\* Of the lines that stay within its arrays, whatever their size is, the parser (parse.c)
\* accepts those of the grammar and no others, and finds the groups that they have.
THEOREM GrammarParsed == Spec => []ParsesGrammar
<1>1. ASSUME DispatchInv PROVE ParsesGrammar
  <2>1. (accepted <=> Grammatical(line)) /\ Accepted(dispatched)
        BY <1>1 DEF DispatchInv, Good
  <2>2. ASSUME NEW d \in DOMAIN dispatched
        PROVE  SameGroups(dispatched[d].line, dispatched[d].cmd.groups)
    <3>1. Understood(dispatched[d].line, dispatched[d].cmd) /\ dispatched[d].cmd.accepted
          BY <2>1, LineCounts
    <3>   QED BY <3>1 DEF Understood
  <2>   QED BY <2>1, <2>2 DEF ParsesGrammar
<1>   QED BY <1>1, DispatchRelated, PTL

\* The shell runs the commands of the foreground in the order they were typed, across
\* lines, replays and background jobs, and is back at the prompt only when it has run
\* them all (main of shell.c).
THEOREM OrderKept == Spec => []InTheOrderTyped
<1>1. ASSUME DispatchInv PROVE InTheOrderTyped
  <2>1. Accepted(dispatched) /\ Foreground(dispatched, stack, ran)
        BY <1>1 DEF DispatchInv, Good
  <2>2. \A k : k \in ByMain <=> OfMain(dispatched, ran, k)
        BY DEF ByMain, OfMain
  <2>3. \A d, g : Due(d, g) <=> DueIn(dispatched, d, g)
        BY DEF Due, DueIn, Back, Count
  <2>4. \A d, g, k : RanByMain(d, g, k) <=> RanIn(dispatched, ran, d, g, k)
        BY <2>2 DEF RanByMain, RanIn, OfMain
  <2>5. \A d : GroupCount(dispatched[d].line) = Count(dispatched, d)
        BY DEF Count
  <2>6. ASSUME NEW k \in ByMain
        PROVE  /\ Due(ran[k].d, ran[k].group)
               /\ \A d \in DOMAIN dispatched : \A g \in 1 .. GroupCount(dispatched[d].line) :
                    Due(d, g) /\ Earlier(d, g, ran[k]) => RanByMain(d, g, k)
               /\ \A j \in ByMain : j < k => ~Earlier(ran[k].d, ran[k].group, ran[j])
    <3>1. k \in DOMAIN ran /\ OfMain(dispatched, ran, k) /\ \A j \in ByMain : j \in DOMAIN ran
          BY <2>2 DEF OfMain
    <3>   QED BY <3>1, <2>1, <2>2, <2>3, <2>4, <2>5 DEF Foreground
  <2>7. ASSUME stack[Main] = <<>>
        PROVE  \A d \in DOMAIN dispatched : \A g \in 1 .. GroupCount(dispatched[d].line) :
                 Due(d, g) => RanByMain(d, g, Len(ran) + 1)
        BY <2>7, <2>1, <2>3, <2>4, <2>5 DEF Foreground
  <2>   QED BY <2>6, <2>7 DEF InTheOrderTyped
<1>   QED BY <1>1, DispatchRelated, PTL

\* What the job entry of a child names is what the child runs, no less when it has ended
\* (do_in_bg, bg.c).
THEOREM JobsNamed == Spec => []JobNamesWhatRuns
<1>1. ASSUME DispatchInv PROVE JobNamesWhatRuns
  <2>1. Jobs(dispatched, stack, children, listed, ran)
        BY <1>1 DEF DispatchInv, Good
  <2> SUFFICES ASSUME NEW c \in 1 .. children
               PROVE  LET groups == {ran[k].group : k \in {j \in DOMAIN ran : ran[j].proc = c /\ ran[j].d = listed[c].d}}
                      IN  groups \subseteq listed[c].groups /\ (stack[c] = <<>> => groups = listed[c].groups)
      BY DEF JobNamesWhatRuns
  <2> DEFINE groups == {ran[k].group : k \in {j \in DOMAIN ran : ran[j].proc = c /\ ran[j].d = listed[c].d}}
  <2>2. groups \subseteq listed[c].groups
        BY <2>1 DEF Jobs
  <2>3. ASSUME stack[c] = <<>> PROVE listed[c].groups \subseteq groups
    <3> SUFFICES ASSUME NEW h \in listed[c].groups PROVE h \in groups
        OBVIOUS
    <3>1. PICK k \in DOMAIN ran : ran[k].proc = c /\ ran[k].d = listed[c].d /\ ran[k].group = h
          BY <2>1, <2>3 DEF Jobs
    <3>   QED BY <3>1
  <2>   QED BY <2>2, <2>3
<1>   QED BY <1>1, DispatchRelated, PTL

\* When all is done, every command of a line typed has run once, in the foreground or in
\* the background, and every command of a line replayed that has no & in it, but for
\* pipelines after a semicolon.
THEOREM OnceEach == Spec => []EachOnce
<1>1. ASSUME DispatchInv PROVE EachOnce
  <2>1. Once(dispatched, stack, ran)
        BY <1>1 DEF DispatchInv, Good
  <2> SUFFICES ASSUME Idle, NEW d \in DOMAIN dispatched,
                      dispatched[d].line # <<>>, ~Repeated(d),
                      dispatched[d].replay => BackgroundCount(dispatched[d].line) = 0,
                      NEW g \in 1 .. GroupCount(dispatched[d].line)
               PROVE  Runs(d, g) = 1
      BY DEF EachOnce
  <2>2. Single(dispatched, d) /\ g \in 1 .. Count(dispatched, d)
        BY DEF Single, Repeated, RepeatedIn, Back, Count
  <2>3. \A p \in Processes : DOMAIN stack[p] = {}
        BY DEF Idle
  <2>4. PICK j \in DOMAIN ran : ran[j].d = d /\ ran[j].group = g
        BY <2>1, <2>2, <2>3 DEF Once
  <2>5. \A i \in DOMAIN ran : ran[i].d = d /\ ran[i].group = g => i = j
        BY <2>1, <2>2, <2>4 DEF Once
  <2>6. {k \in DOMAIN ran : ran[k].d = d /\ ran[k].group = g} = {j}
        BY <2>4, <2>5
  <2>7. Cardinality({j}) = 1
        BY FS_Singleton
  <2>   QED BY <2>6, <2>7 DEF Runs
<1>   QED BY <1>1, DispatchRelated, PTL

\* A replay is run where it was asked for: a process goes on with the line that asked
\* when it has run the replayed line to the end, and does not come back to that
\* (execute_fn, log.c).
THEOREM ReplaysNested == Spec => []ReplaysEndFirst
<1>1. ASSUME DispatchInv PROVE ReplaysEndFirst
  <2>1. Recorded(dispatched, ran) /\ WentBack(dispatched, stack, ran)
        BY <1>1 DEF DispatchInv, Good, Nested
  <2> DEFINE K == [proc : Processes, d : DOMAIN dispatched, group : Nat]
  <2>2. DOMAIN ran = 1 .. Len(ran) /\ Len(ran) \in Nat /\ \A i \in DOMAIN ran : ran[i] \in K
    <3>1. ran \in Seq(K)
          BY <2>1 DEF Recorded
    <3> HIDE DEF K
    <3>   QED BY <3>1
  <2>3. \A i \in DOMAIN ran : ran[i] = [proc |-> ran[i].proc, d |-> ran[i].d, group |-> ran[i].group]
        BY <2>2
  <2>4. \A d : ReplayedIn(dispatched, d) = Replayed(d)
        BY DEF ReplayedIn, Replayed, Back, Count
  <2> HIDE DEF K
  <2> SUFFICES ASSUME NEW j \in DOMAIN ran, NEW k \in DOMAIN ran,
                      j < k, ran[j].proc = ran[k].proc, ran[k].d < ran[j].d
               PROVE  /\ \A g \in Replayed(ran[j].d) :
                           \E i \in 1 .. k - 1 : ran[i] = [proc |-> ran[k].proc, d |-> ran[j].d, group |-> g]
                      /\ \A i \in DOMAIN ran : i > k /\ ran[i].proc = ran[k].proc => ran[i].d # ran[j].d
      BY DEF ReplaysEndFirst
  <2>5. /\ WholeRun(dispatched, ran, ran[k].proc, ran[j].d, k)
        /\ \A i \in DOMAIN ran : i > k /\ ran[i].proc = ran[k].proc => ran[i].d # ran[j].d
        BY <2>1 DEF WentBack
  <2>6. ASSUME NEW g \in Replayed(ran[j].d)
        PROVE  \E i \in 1 .. k - 1 : ran[i] = [proc |-> ran[k].proc, d |-> ran[j].d, group |-> g]
    <3>1. PICK i \in DOMAIN ran : i < k /\ ran[i].proc = ran[k].proc /\ ran[i].d = ran[j].d /\ ran[i].group = g
          BY <2>4, <2>5 DEF WholeRun, RanBy
    <3>2. i \in 1 .. k - 1
          BY <2>2, <3>1
    <3>   QED BY <2>3, <3>1, <3>2
  <2>   QED BY <2>5, <2>6
<1>   QED BY <1>1, DispatchRelated, PTL
=============================================================================
