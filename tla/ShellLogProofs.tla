--------------------------- MODULE ShellLogProofs ---------------------------
(***************************************************************************)
(* Proofs about ShellLog, for every set of lines and directories and every *)
(* size of the ring.                                                       *)
(***************************************************************************)
EXTENDS ShellLog, TLAPS, WellFoundedInduction

-----------------------------------------------------------------------------
(* Numbers. *)

\* The least number of a set: an induction is a search for the least counterexample.
LEMMA LeastNumber ==
    ASSUME NEW T, T \subseteq Nat, T # {}
    PROVE  \E n \in T : \A m \in T : n <= m
<1>1. PICK n \in T : \A m \in T : <<m, n>> \notin OpToRel(<, Nat)
      BY WFMin, NatLessThanWellFounded, Zenon
<1>2. \A m \in T : ~(m < n)
      BY <1>1, Zenon DEF OpToRel
<1>   QED BY <1>2

\* The remainder add_log and update_logs find a slot with.
LEMMA Remainder ==
    \A size \in Nat \ {0} : \A a \in 0 .. 2 * size - 1 :
        a % size = IF a < size THEN a ELSE a - size
<1> SUFFICES ASSUME NEW size \in Nat \ {0}, NEW a \in 0 .. 2 * size - 1
             PROVE  a % size = IF a < size THEN a ELSE a - size
    OBVIOUS
<1>1. a = (size * (a \div size)) + (a % size) /\ a % size \in 0 .. size - 1 /\ a \div size \in Int
      OBVIOUS
<1>2. CASE a < size
  <2>1. a \div size = 0
        BY <1>1, <1>2
  <2>   QED BY <1>1, <1>2, <2>1
<1>3. CASE a >= size
  <2>1. a \div size = 1
        BY <1>1, <1>3
  <2>   QED BY <1>1, <1>3, <2>1
<1>   QED BY <1>2, <1>3

-----------------------------------------------------------------------------
(* The places of hop. *)

Names == Seq(STRING)
Places == [dir : Dirs, dir_name : Dirs \cup {Tilde}, last_dir : Dirs \cup {Tilde, NoPath},
           prev_dir_reveal : Names, left : Dirs \cup {NoPath}]

Tells(p) == Meant(p.dir_name) = p.dir /\ Meant(p.last_dir) = p.left

\* What every step of a hop keeps: a place whose names are right, and reveal's path.
Sound(p, kept) == p \in Places /\ Tells(p) /\ p.prev_dir_reveal = kept

\* A directory is neither the empty path nor ~.
LEMMA DirsAreNames == \A d \in Dirs : d \in Names /\ d # NoPath /\ d # Tilde
BY HopAssumption DEF Names, IsAbsolute, NoPath, Tilde

\* chdir leads to a directory or fails.
LEMMA LeadsToDirs == \A dir, path : Leads(dir, path) \in Dirs \cup {NoPath}
BY DEF Leads

\* One argument of hop.
LEMMA HopToSound ==
    ASSUME NEW p, NEW kept, NEW arg, Sound(p, kept)
    PROVE  Sound(HopTo(p, arg), kept)
<1> DEFINE to == Leads(p.dir, IF IsHome(arg) THEN shell_home
                              ELSE IF arg = Dash THEN p.last_dir ELSE arg)
<1>1. HopTo(p, arg) = IF to = NoPath THEN p
                      ELSE [p EXCEPT !.dir = to, !.last_dir = p.dir_name, !.left = p.dir,
                                     !.dir_name = IF to = shell_home /\ ~IsHome(arg) THEN Tilde ELSE to]
      BY DEF HopTo
<1>2. to \in Dirs \cup {NoPath}
      BY LeadsToDirs
<1> HIDE DEF to
<1>3. shell_home \in Dirs
      BY HopAssumption
<1>   QED BY <1>1, <1>2, <1>3, DirsAreNames DEF Sound, Places, Tells, Meant

\* The recursion of Hops has a solution: the loop of handle_hop runs to its end.
LEMMA HopsUnfold ==
    ASSUME NEW p, NEW args, Len(args) \in Nat
    PROVE  Hops(p, args) = [n \in 0 .. Len(args) |->
                               IF n = 0 THEN [p EXCEPT !.last_dir = Meant(@)]
                               ELSE HopTo(Hops(p, args)[n - 1], args[n])]
<1> DEFINE first == [p EXCEPT !.last_dir = Meant(@)]
           Passes(f, N) == f = [n \in 0 .. N |-> IF n = 0 THEN first ELSE HopTo(f[n - 1], args[n])]
           Bad == {N \in Nat : ~ \E f : Passes(f, N)}
<1>1. Bad = {}
  <2> SUFFICES ASSUME Bad # {} PROVE FALSE
      OBVIOUS
  <2>1. PICK N \in Nat : N \in Bad /\ \A M \in Bad : N <= M
        BY LeastNumber
  <2>2. CASE N = 0
    <3> DEFINE f == [n \in 0 .. 0 |-> first]
    <3>1. Passes(f, 0)
          OBVIOUS
    <3>   QED BY <3>1, <2>1, <2>2
  <2>3. CASE N # 0
    <3>1. PICK f : Passes(f, N - 1)
      <4> HIDE DEF Passes
      <4>1. N - 1 \in Nat
            BY <2>3
      <4> HIDE DEF Bad
      <4>2. N - 1 \notin Bad
            BY <2>1, <4>1
      <4>   QED BY <4>1, <4>2 DEF Bad
    <3> DEFINE g == [n \in 0 .. N |-> IF n = N THEN HopTo(f[N - 1], args[N]) ELSE f[n]]
    <3>2. \A n \in 0 .. N : g[n] = IF n = 0 THEN first ELSE HopTo(g[n - 1], args[n])
      <4> SUFFICES ASSUME NEW n \in 0 .. N
                   PROVE  g[n] = IF n = 0 THEN first ELSE HopTo(g[n - 1], args[n])
          OBVIOUS
      <4> HIDE DEF first
      <4>1. CASE n = N
            BY <4>1, <2>3
      <4>2. CASE n # N
            BY <4>2, <3>1, <2>1, <2>3
      <4>   QED BY <4>1, <4>2
    <3>3. Passes(g, N)
          BY <3>2
    <3>   QED BY <3>3, <2>1
  <2>   QED BY <2>2, <2>3
<1>2. \E f : Passes(f, Len(args))
      BY <1>1
<1>3. Hops(p, args) = CHOOSE f : Passes(f, Len(args))
      BY DEF Hops
<1> HIDE DEF first, Passes
<1>4. Passes(Hops(p, args), Len(args))
      BY <1>2, <1>3
<1>   QED BY <1>4 DEF Passes, first

\* A whole hop, whatever its arguments and whichever of them fail.
LEMMA HandleHopSound ==
    ASSUME NEW p, NEW kept, NEW args, Len(args) \in Nat, Sound(p, kept)
    PROVE  Sound(handle_hop(p, args), kept)
<1> DEFINE h == Hops(p, args)
           Bad == {n \in Nat : n <= Len(args) /\ ~ Sound(h[n], kept)}
<1>1. /\ h[0] = [p EXCEPT !.last_dir = Meant(@)]
      /\ \A n \in 1 .. Len(args) : h[n] = HopTo(h[n - 1], args[n])
  <2> HIDE DEF h
  <2>1. h = [n \in 0 .. Len(args) |-> IF n = 0 THEN [p EXCEPT !.last_dir = Meant(@)]
                                      ELSE HopTo(h[n - 1], args[n])]
        BY HopsUnfold DEF h
  <2>   QED BY <2>1
<1> HIDE DEF h
<1>2. Sound(h[0], kept)
  <2>1. shell_home \in Dirs /\ shell_home # Tilde
        BY HopAssumption, DirsAreNames
  <2>   QED BY <1>1, <2>1 DEF Sound, Places, Tells, Meant
<1>3. Bad = {}
  <2> SUFFICES ASSUME Bad # {} PROVE FALSE
      OBVIOUS
  <2>1. PICK n \in Bad : \A m \in Bad : n <= m
        BY LeastNumber
  <2>2. n # 0
        BY <2>1, <1>2
  <2>3. Sound(h[n - 1], kept)
        BY <2>1, <2>2
  <2>4. Sound(HopTo(h[n - 1], args[n]), kept)
        BY <2>3, HopToSound
  <2>   QED BY <2>1, <2>2, <2>4, <1>1
<1>   QED BY <1>3 DEF handle_hop, h

\* The home directory shown as ~.
LEMMA ShownSound ==
    ASSUME NEW p, NEW kept, Sound(p, kept)
    PROVE  Sound(Shown(p), kept)
<1>   QED BY DirsAreNames DEF Sound, Places, Tells, Meant, Shown

-----------------------------------------------------------------------------
(* The ring. *)

RingOK == /\ logs \in [Slots -> Lines \cup {NoLine}]
          /\ start \in Slots /\ count \in 0 .. LogSize
          /\ \A k \in 0 .. count - 1 : Entry(k) # NoLine

\* The k-th entry from the oldest is in the k-th slot from start, around the end.
Slot(k) == IF start + k < LogSize THEN start + k ELSE start + k - LogSize

SlotsFound == /\ \A k \in 0 .. LogSize : (start + k) % LogSize = Slot(k) /\ Slot(k) \in Slots
              /\ \A j, k \in 0 .. LogSize - 1 : j # k => Slot(j) # Slot(k)

\* The slots of the entries are in the ring and differ from one another.
LEMMA SlotOfEntry == start \in Slots => SlotsFound
<1> SUFFICES ASSUME start \in Slots PROVE SlotsFound
    OBVIOUS
<1> USE DEF SlotsFound
<1> USE LogAssumption DEF Slots, Slot
<1>1. ASSUME NEW k \in 0 .. LogSize PROVE (start + k) % LogSize = Slot(k)
  <2> DEFINE a == start + k
  <2>1. a \in 0 .. 2 * LogSize - 1
        OBVIOUS
  <2> HIDE DEF a
  <2>2. a % LogSize = IF a < LogSize THEN a ELSE a - LogSize
        BY <2>1, Remainder
  <2>   QED BY <2>2 DEF a
<1>   QED BY <1>1

\* Entries is a sequence of lines, entry by entry that of the ring.
EntriesAreLines == /\ Entries \in Seq(Lines) /\ Len(Entries) = count
                   /\ \A k \in 1 .. count : Entries[k] = logs[Slot(k - 1)]

\* The entries of a proper ring are lines.
LEMMA EntriesOfRing == RingOK => EntriesAreLines
<1> SUFFICES ASSUME RingOK PROVE EntriesAreLines
    OBVIOUS
<1> USE DEF EntriesAreLines
<1>1. \A k \in 0 .. count - 1 : Entry(k) = logs[Slot(k)] /\ Entry(k) \in Lines
      BY SlotOfEntry, LogAssumption DEF SlotsFound, RingOK, Entry
<1>2. count \in Nat
      BY LogAssumption DEF RingOK
<1>3. \A k \in 1 .. count : k - 1 \in 0 .. count - 1
      BY <1>2
<1>   QED BY <1>1, <1>2, <1>3 DEF Entries

\* The latest entry is the one add_log compares with.
LEMMA LatestEntry ==
    ASSUME RingOK, count > 0
    PROVE  logs[last_index] = Entries[Len(Entries)]
<1>1. count - 1 \in 0 .. LogSize /\ count \in 1 .. count
      BY LogAssumption DEF RingOK
<1>2. (start + (count - 1)) % LogSize = Slot(count - 1)
      BY <1>1, SlotOfEntry DEF SlotsFound, RingOK
<1>3. last_index = (start + (count - 1)) % LogSize
      BY LogAssumption DEF last_index, RingOK, Slots
<1>   QED BY <1>1, <1>2, <1>3, EntriesOfRing DEF EntriesAreLines

\* What a new line does to the entries: it is the latest, and on a full ring the
\* oldest one goes.
Remembers(line) ==
    Entries' = Append(IF Len(Entries) < LogSize THEN Entries ELSE Tail(Entries), line)

\* add_log puts a line into the history.
LEMMA AddLogRemembers ==
    ASSUME RingOK, NEW line \in Lines, add_log(line)
    PROVE  /\ RingOK'
           /\ \/ UNCHANGED ring
              \/ /\ ~ if_log(line)
                 /\ Entries # <<>> => Entries[Len(Entries)] # line
                 /\ Remembers(line)
<1> USE LogAssumption
<1>1. CASE if_log(line) \/ Repeated(line)
      BY <1>1 DEF add_log, ring, RingOK, Entry
<1>2. CASE ~(if_log(line) \/ Repeated(line))
  <2>1. Entries # <<>> => Entries[Len(Entries)] # line
        BY <1>2, LatestEntry, EntriesOfRing DEF Repeated, RingOK, EntriesAreLines
  <2>2. line # NoLine
        BY LinesAssumption DEF NoLine
  <2>3. CASE count < LogSize
    <3>1. /\ logs' = [logs EXCEPT ![Slot(count)] = line]
          /\ count' = count + 1 /\ start' = start
          /\ Slot(count) \in Slots
          BY <1>2, <2>3, SlotOfEntry DEF SlotsFound, add_log, RingOK
    <3>2. \A k \in 0 .. LogSize : Slot(k)' = Slot(k)
          BY <3>1 DEF Slot
    <3>3. \A k \in 0 .. count : logs'[Slot(k)] = IF k = count THEN line ELSE logs[Slot(k)]
          BY <3>1, <2>3, SlotOfEntry DEF SlotsFound, RingOK
    <3>4. \A k \in 0 .. count : Entry(k)' = logs'[Slot(k)]
          BY <3>1, <2>3, SlotOfEntry DEF SlotsFound, RingOK, Entry
    <3>5. RingOK'
          BY <3>1, <3>3, <3>4, <2>2, <2>3, SlotOfEntry DEF SlotsFound, RingOK, Entry
    <3>6. EntriesAreLines'
          BY <3>5, EntriesOfRing, PTL
    <3>7. \A k \in 1 .. count + 1 : Entries'[k] = IF k = count + 1 THEN line ELSE Entries[k]
      <4> SUFFICES ASSUME NEW k \in 1 .. count + 1
                   PROVE  Entries'[k] = IF k = count + 1 THEN line ELSE Entries[k]
          OBVIOUS
      <4>1. k - 1 \in 0 .. count /\ count \in 0 .. LogSize /\ k \in 1 .. count'
            BY <3>1 DEF RingOK
      <4>2. Entries'[k] = logs'[Slot(k - 1)]
            BY <4>1, <3>2, <3>6 DEF EntriesAreLines
      <4>   QED BY <4>1, <4>2, <3>3, EntriesOfRing DEF EntriesAreLines
    <3>8. Remembers(line)
          BY <3>1, <3>6, <3>7, <2>3, EntriesOfRing DEF Remembers, EntriesAreLines, RingOK
    <3>   QED BY <1>2, <2>1, <3>5, <3>8
  <2>4. CASE count = LogSize
    <3>1. /\ logs' = [logs EXCEPT ![Slot(0)] = line]
          /\ count' = count /\ start' = Slot(1)
          /\ Slot(0) = start
          BY <1>2, <2>4, SlotOfEntry DEF SlotsFound, add_log, AfterOldest, RingOK, Slot, Slots
    <3>2. \A k \in 0 .. LogSize - 1 : Slot(k)' = IF k = LogSize - 1 THEN Slot(0) ELSE Slot(k + 1)
          BY <3>1 DEF Slot, RingOK, Slots
    <3>3. \A k \in 0 .. LogSize - 1 : /\ Slot(k)' \in Slots
                                      /\ logs'[Slot(k)'] = IF k = LogSize - 1 THEN line ELSE logs[Slot(k + 1)]
          BY <3>1, <3>2, SlotOfEntry DEF SlotsFound, RingOK
    <3>4. start' \in Slots
          BY <3>1, SlotOfEntry DEF SlotsFound, RingOK
    <3>5. \A k \in 0 .. LogSize - 1 : Entry(k)' = logs'[Slot(k)']
      <4>0. (start \in Slots)'
            BY <3>4
      <4>1. SlotsFound'
            BY <4>0, SlotOfEntry, PTL
      <4>   QED BY <4>1 DEF Entry, SlotsFound
    <3>6. RingOK'
      <4>1. logs' \in [Slots -> Lines \cup {NoLine}] /\ count' \in 0 .. LogSize
            BY <3>1, <2>4 DEF RingOK
      <4>2. ASSUME NEW k \in 0 .. LogSize - 1 PROVE Entry(k)' # NoLine
        <5>1. Entry(k)' = IF k = LogSize - 1 THEN line ELSE logs[Slot(k + 1)]
              BY <3>5, <3>3
        <5>2. CASE k = LogSize - 1
              BY <5>1, <5>2, <2>2
        <5>3. CASE k # LogSize - 1
          <6>1. k + 1 \in 0 .. count - 1 /\ k + 1 \in 0 .. LogSize
                BY <5>3, <2>4
          <6>2. Entry(k + 1) = logs[Slot(k + 1)]
                BY <6>1, SlotOfEntry DEF SlotsFound, Entry, RingOK
          <6>   QED BY <6>1, <6>2, <5>1, <5>3 DEF RingOK
        <5>   QED BY <5>2, <5>3
      <4>   QED BY <4>1, <4>2, <3>4, <3>1, <2>4 DEF RingOK
    <3>7. EntriesAreLines'
          BY <3>6, EntriesOfRing, PTL
    <3>8. \A k \in 1 .. count : Entries'[k] = IF k = count THEN line ELSE Entries[k + 1]
      <4> SUFFICES ASSUME NEW k \in 1 .. count
                   PROVE  Entries'[k] = IF k = count THEN line ELSE Entries[k + 1]
          OBVIOUS
      <4>1. k - 1 \in 0 .. LogSize - 1 /\ (k = count <=> k - 1 = LogSize - 1) /\ k \in 1 .. count'
            BY <3>1, <2>4
      <4>2. Entries'[k] = IF k = count THEN line ELSE logs[Slot(k)]
            BY <4>1, <3>3, <3>7 DEF EntriesAreLines
      <4>3. k # count => k + 1 \in 1 .. count
            BY <2>4
      <4>   QED BY <4>2, <4>3, EntriesOfRing DEF EntriesAreLines
    <3>9. Remembers(line)
          BY <3>1, <3>7, <3>8, <2>4, EntriesOfRing DEF Remembers, EntriesAreLines, RingOK
    <3>   QED BY <1>2, <2>1, <3>6, <3>9
  <2>   QED BY <2>3, <2>4 DEF RingOK
<1>   QED BY <1>1, <1>2

-----------------------------------------------------------------------------
(* The inductive invariant. *)

\* What is left of a line, or of a save; a replayed line is inside a run.
LineOK == /\ inner \in Nat
          /\ phase # "run" => inner = 0 /\ ~fresh
          /\ phase \in {"prompt", "ended"} => todo = NoLine
          /\ phase = "run" => todo \in Seq(Commands)
          /\ phase = "save" => todo \in Seq(Lines)

\* At the prompt logs.txt is the ring, in a save it is the beginning of it, and
\* it is the ring still when a line begins that is not logged.
FileOK == /\ phase = "prompt" => file = Entries
          /\ phase = "save" => file \o todo = Entries
          /\ fresh /\ if_log(todo) => file = Entries

\* The shell is in a directory that it tells right.
PlaceOK == Sound(place, place.prev_dir_reveal)

\* The path kept for "reveal -" led to what was listed, from where it was.
SeenOK == seen # Nothing => /\ seen.of # NoPath
                            /\ Leads(seen.in, place.prev_dir_reveal) = seen.of

IInv == TypeOK /\ LineOK /\ FileOK /\ PlaceOK /\ SeenOK

-----------------------------------------------------------------------------
(* What every step keeps, part by part. *)

\* The commands of a line, and of the rest of a line.
LEMMA CommandsOfLines == \A line \in Lines : line \in Seq(Commands) /\ line # <<>> /\ Len(line) \in Nat \ {0}
BY LinesAssumption

\* What is left of a line that was cut is a line.
LEMMA BeginningsAreLines == \A line \in Lines : \A text \in Beginnings[line] : text \in Lines
BY LinesAssumption

\* The command main() has come to, and those after it.
LEMMA RestOfLine ==
    ASSUME LineOK, First
    PROVE  /\ Head(todo) \in Commands /\ Tail(todo) \in Seq(Commands)
           /\ Len(Tail(todo)) = Len(todo) - 1 /\ Len(todo) \in Nat \ {0}
BY DEF LineOK, First

\* hop and reveal are given paths.
LEMMA ArgumentsArePaths ==
    ASSUME NEW cmd \in Commands, cmd.name \in {"hop", "reveal"}
    PROVE  cmd.arg \in Seq(Names)
BY DEF Commands, Names

\* The line get_in finds is one of the file.
LEMMA FoundInFile ==
    ASSUME file \in Seq(Lines), NEW idx
    PROVE  get_in(idx) \in Lines \cup {NoLine}
BY DEF get_in

\* What reveal is to list is a path, whatever its arguments.
LEMMA PathnameIsPath ==
    ASSUME PlaceOK, NEW args \in Seq(Names)
    PROVE  assign_pathname(place, args) \in Names
<1>1. Meant(place.dir_name) \in Dirs /\ place.prev_dir_reveal \in Names /\ shell_home \in Dirs
      BY HopAssumption DEF PlaceOK, Sound, Tells, Places
<1>2. ASSUME NEW d \in Dirs PROVE Parent(d) \in Names
  <2>1. d \in Seq(STRING) /\ Len(d) - 1 \in Nat
        BY DirsAreNames DEF Names, NoPath
  <2>2. Front(d) \in Seq(STRING)
        BY <2>1 DEF Front
  <2>   QED BY <2>1, <2>2 DEF Parent, Names
<1>3. args # <<>> => args[1] \in Names
      OBVIOUS
<1>   QED BY <1>1, <1>2, <1>3, DirsAreNames DEF assign_pathname

\* Only hop, reveal and the start change the place; each argument keeps it right.
LEMMA PlaceKept == IInv /\ [Next]_vars => PlaceOK'
<1> SUFFICES ASSUME IInv, [Next]_vars PROVE PlaceOK'
    OBVIOUS
<1> USE DEF IInv, PlaceOK
<1>1. CASE ReadLine
      BY <1>1 DEF ReadLine
<1>2. CASE RunProgram
      BY <1>2 DEF RunProgram
<1>3. CASE Hop
  <2>1. Head(todo) \in Commands /\ Head(todo).name = "hop"
        BY <1>3, RestOfLine DEF Hop, Command
  <2>2. Len(Head(todo).arg) \in Nat
        BY <2>1, ArgumentsArePaths
  <2>3. Sound(handle_hop(place, Head(todo).arg), place.prev_dir_reveal)
        BY <2>2, HandleHopSound
  <2>4. Sound(place', place.prev_dir_reveal)
        BY <2>3, ShownSound, <1>3 DEF Hop
  <2>   QED BY <2>4 DEF Sound
<1>4. CASE Reveal
  <2> DEFINE here == ThereAndBack(place, Head(todo).arg)
             path == assign_pathname(place, Head(todo).arg)
  <2>1. Head(todo) \in Commands /\ Head(todo).name = "reveal"
        BY <1>4, RestOfLine DEF Reveal, Command
  <2>2. path \in Names
        BY <2>1, ArgumentsArePaths, PathnameIsPath
  <2>3. here = place
        BY DEF ThereAndBack, Sound, Tells, Places
  <2>4. place' = Keep(place, path)
        BY <1>4, <2>3 DEF Reveal
  <2>   QED BY <2>2, <2>4 DEF Keep, Sound, Places, Tells
<1>5. CASE PurgeLog
      BY <1>5 DEF PurgeLog
<1>6. CASE Replay
      BY <1>6 DEF Replay, Done, Die
<1>7. CASE Truncate
      BY <1>7 DEF Truncate
<1>8. CASE WriteEntry
      BY <1>8 DEF WriteEntry
<1>9. CASE Saved
      BY <1>9 DEF Saved
<1>10. CASE End
      BY <1>10 DEF End, Die
<1>11. CASE StartShell
  <2>1. shell_home \in Dirs /\ NoPath \in Names
        BY HopAssumption DEF NoPath, Names
  <2>   QED BY <1>11, <2>1, DirsAreNames DEF StartShell, Start, Tilde, Sound, Places, Tells, Meant, NoPath
<1>12. CASE UNCHANGED vars
      BY <1>12 DEF vars, ring
<1>13. CASE CutShort
      BY <1>13 DEF CutShort, Die
<1>   QED BY <1>1, <1>2, <1>3, <1>4, <1>5, <1>6, <1>7, <1>8, <1>9, <1>10, <1>11, <1>12, <1>13 DEF Next

\* reveal changes what was seen and its path together; hop changes neither.
LEMMA SeenKept == IInv /\ [Next]_vars => SeenOK'
<1> SUFFICES ASSUME IInv, [Next]_vars PROVE SeenOK'
    OBVIOUS
<1> USE DEF IInv, SeenOK
<1>1. CASE ReadLine
      BY <1>1 DEF ReadLine
<1>2. CASE RunProgram
      BY <1>2 DEF RunProgram
<1>3. CASE Hop
  <2>1. Head(todo) \in Commands /\ Head(todo).name = "hop"
        BY <1>3, RestOfLine DEF Hop, Command
  <2>2. Len(Head(todo).arg) \in Nat
        BY <2>1, ArgumentsArePaths
  <2>3. Sound(handle_hop(place, Head(todo).arg), place.prev_dir_reveal)
        BY <2>2, HandleHopSound DEF PlaceOK
  <2>4. Sound(place', place.prev_dir_reveal)
        BY <2>3, ShownSound, <1>3 DEF Hop
  <2>   QED BY <2>4, <1>3 DEF Sound, Hop
<1>4. CASE Reveal
  <2> DEFINE here == ThereAndBack(place, Head(todo).arg)
             path == assign_pathname(place, Head(todo).arg)
             dir == Leads(place.dir, path)
  <2>1. here = place
        BY DEF ThereAndBack, PlaceOK, Sound, Tells, Places
  <2>2. /\ place' = IF dir = NoPath THEN place ELSE [place EXCEPT !.prev_dir_reveal = path]
        /\ seen' = IF dir = NoPath THEN seen ELSE [in |-> place.dir, of |-> dir]
        BY <1>4, <2>1 DEF Reveal, Keep
  <2>3. dir # NoPath => place'.prev_dir_reveal = path
        BY <2>2 DEF PlaceOK, Sound, Places
  <2> HIDE DEF dir, path
  <2>4. CASE dir = NoPath
        BY <2>2, <2>4
  <2>5. CASE dir # NoPath
        BY <2>2, <2>3, <2>5 DEF dir
  <2>   QED BY <2>4, <2>5
<1>5. CASE PurgeLog
      BY <1>5 DEF PurgeLog
<1>6. CASE Replay
      BY <1>6 DEF Replay, Done, Die
<1>7. CASE Truncate
      BY <1>7 DEF Truncate
<1>8. CASE WriteEntry
      BY <1>8 DEF WriteEntry
<1>9. CASE Saved
      BY <1>9 DEF Saved
<1>10. CASE End
      BY <1>10 DEF End, Die
<1>11. CASE StartShell
      BY <1>11 DEF StartShell
<1>12. CASE UNCHANGED vars
      BY <1>12 DEF vars, ring
<1>13. CASE CutShort
      BY <1>13 DEF CutShort, Die
<1>   QED BY <1>1, <1>2, <1>3, <1>4, <1>5, <1>6, <1>7, <1>8, <1>9, <1>10, <1>11, <1>12, <1>13 DEF Next

\* A command is taken off the line, a replayed line put before the rest.
LEMMA LineKept == IInv /\ [Next]_vars => LineOK'
<1> SUFFICES ASSUME IInv, [Next]_vars PROVE LineOK'
    OBVIOUS
<1> USE DEF IInv, LineOK
<1>1. CASE ReadLine
      BY <1>1, CommandsOfLines DEF ReadLine
<1>2. CASE RunProgram
      BY <1>2, RestOfLine DEF RunProgram, Done, Command, First
<1>3. CASE Hop
      BY <1>3, RestOfLine DEF Hop, Done, Command, First
<1>4. CASE Reveal
      BY <1>4, RestOfLine DEF Reveal, Done, Command, First
<1>5. CASE PurgeLog
      BY <1>5, RestOfLine DEF PurgeLog, Done, Command, First
<1>6. CASE Replay
  <2>1. phase = "run" /\ First /\ Tail(todo) \in Seq(Commands)
        BY <1>6, RestOfLine DEF Replay, Command, First
  <2>2. CASE Done \/ Die
        BY <2>1, <2>2 DEF Done, Die
  <2>3. ASSUME NEW line \in Lines, todo' = line \o Tail(todo), fresh' = FALSE, inner' = Len(line), phase' = phase
        PROVE  LineOK'
        BY <2>1, <2>3, CommandsOfLines
  <2>4. get_in(ReplayIndex(Head(todo).arg)) \in Lines \cup {NoLine}
        BY FoundInFile DEF TypeOK
  <2>   QED BY <2>2, <2>3, <2>4, <1>6 DEF Replay
<1>7. CASE Truncate
      BY <1>7, EntriesOfRing DEF Truncate, EntriesAreLines, TypeOK, RingOK
<1>8. CASE WriteEntry
      BY <1>8 DEF WriteEntry
<1>9. CASE Saved
      BY <1>9 DEF Saved, NoLine
<1>10. CASE End
      BY <1>10 DEF End, Die
<1>11. CASE StartShell
      BY <1>11 DEF StartShell
<1>12. CASE UNCHANGED vars
      BY <1>12 DEF vars, ring
<1>13. CASE CutShort
      BY <1>13 DEF CutShort, Die
<1>   QED BY <1>1, <1>2, <1>3, <1>4, <1>5, <1>6, <1>7, <1>8, <1>9, <1>10, <1>11, <1>12, <1>13 DEF Next

\* The entries only change with the ring.
LEMMA EntriesUnchanged == UNCHANGED ring => Entries' = Entries
BY DEF ring, Entries, Entry

\* What main() reads of logs.txt is all of it.
LEMMA RingOfFile ==
    ASSUME TypeOK, StartShell
    PROVE  RingOK' /\ Entries' = file
<1> USE LogAssumption
<1>1. /\ count' = Len(file) /\ start' = 0 /\ Len(file) \in 0 .. LogSize /\ file \in Seq(Lines)
      /\ logs' = [k \in Slots |-> IF k + 1 \in DOMAIN file THEN file[k + 1] ELSE NoLine]
      BY DEF TypeOK, StartShell
<1>2. (start \in Slots)'
      BY <1>1 DEF Slots
<1>3. SlotsFound'
      BY <1>2, SlotOfEntry, PTL
<1>4. \A k \in 0 .. count' - 1 : Entry(k)' = file[k + 1]
  <2> SUFFICES ASSUME NEW k \in 0 .. count' - 1 PROVE Entry(k)' = file[k + 1]
      OBVIOUS
  <2>1. k \in 0 .. LogSize /\ k \in Slots /\ k + 1 \in DOMAIN file
        BY <1>1 DEF Slots
  <2>2. (start' + k) % LogSize = Slot(k)'
        BY <1>3, <2>1 DEF SlotsFound
  <2>3. Slot(k)' = k
        BY <1>1, <2>1 DEF Slot, Slots
  <2>   QED BY <1>1, <2>1, <2>2, <2>3 DEF Entry
<1>5. \A k \in 0 .. count' - 1 : file[k + 1] \in Lines
      BY <1>1
<1>6. RingOK'
      BY <1>1, <1>2, <1>4, <1>5, LinesAssumption DEF RingOK, NoLine, Slots
<1>7. EntriesAreLines'
      BY <1>6, EntriesOfRing, PTL
<1>8. \A k \in 1 .. count' : k - 1 \in 0 .. count' - 1 /\ Entries'[k] = Entry(k - 1)'
      BY <1>1 DEF Entries
<1>   QED BY <1>1, <1>4, <1>6, <1>7, <1>8 DEF EntriesAreLines

\* logs.txt follows the ring from save to save.
LEMMA FileKept == IInv /\ [Next]_vars => FileOK'
<1> SUFFICES ASSUME IInv, [Next]_vars PROVE FileOK'
    OBVIOUS
<1> USE DEF IInv, FileOK
<1>1. CASE ReadLine
  <2>1. PICK line \in Lines : add_log(line) /\ todo' = line
        BY <1>1 DEF ReadLine
  <2>2. if_log(line) => Entries' = Entries
        BY <2>1, EntriesUnchanged DEF add_log
  <2>   QED BY <1>1, <2>1, <2>2 DEF ReadLine
<1>2. CASE RunProgram
      BY <1>2 DEF RunProgram, Done, Command, First
<1>3. CASE Hop
      BY <1>3 DEF Hop, Done, Command, First
<1>4. CASE Reveal
      BY <1>4 DEF Reveal, Done, Command, First
<1>5. CASE PurgeLog
      BY <1>5 DEF PurgeLog, Done, Command, First
<1>6. CASE Replay
      BY <1>6 DEF Replay, Done, Command, First, Die
<1>7. CASE Truncate
  <2>1. Entries' = Entries /\ Entries \in Seq(Lines)
        BY <1>7, EntriesUnchanged, EntriesOfRing DEF Truncate, EntriesAreLines, TypeOK, RingOK
  <2>   QED BY <1>7, <2>1 DEF Truncate
<1>8. CASE WriteEntry
  <2>1. Entries' = Entries
        BY <1>8, EntriesUnchanged DEF WriteEntry
  <2>2. file \in Seq(Lines) /\ todo \in Seq(Lines) /\ todo # <<>>
        BY <1>8 DEF WriteEntry, TypeOK, LineOK
  <2>3. Append(file, Head(todo)) \o Tail(todo) = file \o todo
        BY <2>2
  <2>   QED BY <1>8, <2>1, <2>3 DEF WriteEntry, LineOK
<1>9. CASE Saved
  <2>1. Entries' = Entries
        BY <1>9, EntriesUnchanged DEF Saved
  <2>2. file \o <<>> = file
        BY DEF TypeOK
  <2>   QED BY <1>9, <2>1, <2>2 DEF Saved, LineOK
<1>10. CASE End
      BY <1>10 DEF End, Die
<1>11. CASE StartShell
      BY <1>11, RingOfFile DEF StartShell, LineOK
<1>12. CASE UNCHANGED vars
      BY <1>12, EntriesUnchanged DEF vars
<1>13. CASE CutShort
      BY <1>13 DEF CutShort, Die
<1>   QED BY <1>1, <1>2, <1>3, <1>4, <1>5, <1>6, <1>7, <1>8, <1>9, <1>10, <1>11, <1>12, <1>13 DEF Next

\* The two parts of TypeOK: the ring, and the rest.
RestOK == /\ file \in Seq(Lines) /\ Len(file) <= LogSize
          /\ place.dir \in Dirs /\ fresh \in BOOLEAN /\ inner <= Len(todo)
          /\ phase \in {"prompt", "run", "save", "ended"}
          /\ deaths \in 0 .. MaxDeaths

\* They make it up.
LEMMA TypeParts == TypeOK <=> RingOK /\ RestOK
BY DEF TypeOK, RingOK, RestOK

\* A step that leaves the ring alone.
LEMMA SameRing == RingOK /\ UNCHANGED ring => RingOK'
BY DEF ring, RingOK, Entry

\* The end of a command.
LEMMA DoneKeeps ==
    ASSUME LineOK, First, Done, inner <= Len(todo)
    PROVE  inner' <= Len(todo') /\ fresh' = FALSE /\ phase' = phase /\ deaths' = deaths
BY RestOfLine DEF Done, LineOK

\* The ring: only add_log, purge and the start change it.
LEMMA RingKept == IInv /\ [Next]_vars => RingOK'
<1> SUFFICES ASSUME IInv, [Next]_vars PROVE RingOK'
    OBVIOUS
<1> USE DEF IInv
<1>1. RingOK
      BY TypeParts
<1>2. CASE ReadLine
      BY <1>2, <1>1, AddLogRemembers DEF ReadLine
<1>3. CASE RunProgram
      BY <1>3, <1>1, SameRing DEF RunProgram
<1>4. CASE Hop
      BY <1>4, <1>1, SameRing DEF Hop
<1>5. CASE Reveal
      BY <1>5, <1>1, SameRing DEF Reveal
<1>6. CASE PurgeLog
      BY <1>6, <1>1, LogAssumption DEF PurgeLog, RingOK, Slots
<1>7. CASE Replay
      BY <1>7, <1>1, SameRing DEF Replay, Done, Die
<1>8. CASE Truncate
      BY <1>8, <1>1, SameRing DEF Truncate
<1>9. CASE WriteEntry
      BY <1>9, <1>1, SameRing DEF WriteEntry
<1>10. CASE Saved
      BY <1>10, <1>1, SameRing DEF Saved
<1>11. CASE End
      BY <1>11, <1>1, SameRing DEF End, Die
<1>12. CASE StartShell
      BY <1>12, RingOfFile
<1>13. CASE UNCHANGED vars
      BY <1>1, <1>13, SameRing DEF vars
<1>14. CASE CutShort
      BY <1>14, <1>1, SameRing DEF CutShort, Die
<1>   QED BY <1>2, <1>3, <1>4, <1>5, <1>6, <1>7, <1>8, <1>9, <1>10, <1>11, <1>12, <1>13, <1>14 DEF Next

\* Everything else, the file in particular: never longer than the ring.
LEMMA RestKept == IInv /\ PlaceOK' /\ [Next]_vars => RestOK'
<1> SUFFICES ASSUME IInv /\ PlaceOK', [Next]_vars PROVE RestOK'
    OBVIOUS
<1> USE LogAssumption DEF IInv, RestOK
<1>1. RestOK /\ place'.dir \in Dirs
      BY TypeParts DEF PlaceOK, Sound, Places
<1>2. CASE ReadLine
      BY <1>2, <1>1, CommandsOfLines DEF ReadLine, LineOK
<1>3. CASE RunProgram
  <2>1. inner' <= Len(todo') /\ fresh' = FALSE /\ phase' = phase /\ deaths' = deaths
        BY <1>3, <1>1, DoneKeeps DEF RunProgram, Command
  <2>2. file' = file
        BY <1>3 DEF RunProgram
  <2>   QED BY <1>1, <2>1, <2>2
<1>4. CASE Hop
  <2>1. inner' <= Len(todo') /\ fresh' = FALSE /\ phase' = phase /\ deaths' = deaths
        BY <1>4, <1>1, DoneKeeps DEF Hop, Command
  <2>2. file' = file
        BY <1>4 DEF Hop
  <2>   QED BY <1>1, <2>1, <2>2
<1>5. CASE Reveal
  <2>1. inner' <= Len(todo') /\ fresh' = FALSE /\ phase' = phase /\ deaths' = deaths
        BY <1>5, <1>1, DoneKeeps DEF Reveal, Command
  <2>2. file' = file
        BY <1>5 DEF Reveal
  <2>   QED BY <1>1, <2>1, <2>2
<1>6. CASE PurgeLog
  <2>1. inner' <= Len(todo') /\ fresh' = FALSE /\ phase' = phase /\ deaths' = deaths
        BY <1>6, <1>1, DoneKeeps DEF PurgeLog, Command
  <2>2. file' = file
        BY <1>6 DEF PurgeLog
  <2>   QED BY <1>1, <2>1, <2>2
<1>7. CASE Replay
  <2>1. phase = "run" /\ First /\ Tail(todo) \in Seq(Commands)
        BY <1>7, RestOfLine DEF Replay, Command, First
  <2>2. inner' <= Len(todo')
    <3>1. CASE Done \/ Die
          BY <3>1, <2>1, <1>1, RestOfLine DEF Done, Die, LineOK, NoLine
    <3>2. ASSUME NEW line \in Lines, todo' = line \o Tail(todo), inner' = Len(line)
          PROVE  inner' <= Len(todo')
          BY <2>1, <3>2, CommandsOfLines
    <3>3. get_in(ReplayIndex(Head(todo).arg)) \in Lines \cup {NoLine}
          BY <1>1, FoundInFile
    <3>   QED BY <3>1, <3>2, <3>3, <1>7 DEF Replay
  <2>3. deaths' \in 0 .. MaxDeaths
    <3>1. deaths' = deaths \/ (deaths < MaxDeaths /\ deaths' = deaths + 1)
          BY <1>7 DEF Replay, Done, Die
    <3>   QED BY <3>1, <1>1
  <2>4. file' = file /\ fresh' = FALSE /\ phase' \in {"run", "ended"}
        BY <1>7, <2>1 DEF Replay, Done, Die
  <2>   QED BY <1>1, <2>2, <2>3, <2>4
<1>8. CASE Truncate
  <2>1. Entries \in Seq(Lines)
        BY EntriesOfRing, TypeParts DEF EntriesAreLines
  <2>2. file' \in Seq(Lines) /\ Len(file') <= LogSize
        BY <1>8 DEF Truncate
  <2>3. inner' <= Len(todo') /\ fresh' = FALSE /\ phase' = "save" /\ deaths' = deaths
        BY <1>8, <1>1, <2>1 DEF Truncate, LineOK
  <2>   QED BY <1>1, <2>2, <2>3
<1>9. CASE WriteEntry
  <2>1. file \in Seq(Lines) /\ todo \in Seq(Lines) /\ todo # <<>> /\ inner = 0
        BY <1>9, <1>1 DEF WriteEntry, LineOK
  <2>2. file \o todo = Entries /\ Len(Entries) <= LogSize
        BY <1>9, EntriesOfRing, TypeParts DEF WriteEntry, FileOK, EntriesAreLines, RingOK
  <2>3. Len(file) + 1 <= LogSize
        BY <2>1, <2>2
  <2>   QED BY <1>9, <1>1, <2>1, <2>3 DEF WriteEntry
<1>10. CASE Saved
      BY <1>10, <1>1 DEF Saved
<1>11. CASE End
  <2>1. inner' <= Len(todo')
        BY <1>11 DEF End, Die, NoLine
  <2>2. deaths' \in 0 .. MaxDeaths
        BY <1>11, <1>1 DEF End, Die
  <2>3. file' = file /\ fresh' = FALSE /\ phase' = "ended"
        BY <1>11 DEF End, Die
  <2>   QED BY <1>1, <2>1, <2>2, <2>3
<1>12. CASE StartShell
      BY <1>12, <1>1 DEF StartShell
<1>13. CASE UNCHANGED vars
      BY <1>13, <1>1 DEF vars
<1>14. CASE CutShort
  <2>1. file \in Seq(Lines) /\ todo \in Seq(Lines) /\ todo # <<>> /\ inner = 0
        BY <1>14, <1>1 DEF CutShort, LineOK
  <2>2. file \o todo = Entries /\ Len(Entries) <= LogSize
        BY <1>14, EntriesOfRing, TypeParts DEF CutShort, FileOK, EntriesAreLines, RingOK
  <2>3. Len(file) + 1 <= LogSize
        BY <2>1, <2>2
  <2>4. PICK text \in Beginnings[Head(todo)] : file' = Append(file, text)
        BY <1>14 DEF CutShort
  <2>5. text \in Lines
        BY <2>1, <2>4, BeginningsAreLines
  <2>6. file' \in Seq(Lines) /\ Len(file') <= LogSize
        BY <2>1, <2>3, <2>4, <2>5
  <2>7. inner' <= Len(todo') /\ fresh' = FALSE /\ phase' = "ended"
        BY <1>14 DEF CutShort, Die, NoLine
  <2>8. deaths' \in 0 .. MaxDeaths
        BY <1>14, <1>1 DEF CutShort, Die
  <2>   QED BY <1>1, <2>6, <2>7, <2>8
<1>   QED BY <1>2, <1>3, <1>4, <1>5, <1>6, <1>7, <1>8, <1>9, <1>10, <1>11, <1>12, <1>13, <1>14 DEF Next

\* main() starts with an empty ring and no file.
LEMMA Initially == Init => IInv
<1> SUFFICES ASSUME Init PROVE IInv
    OBVIOUS
<1> USE LogAssumption DEF Init
<1>1. Entries = <<>>
      BY DEF Entries
<1>2. TypeOK
  <2>1. RingOK
        BY DEF RingOK, Slots
  <2>2. RestOK
    <3>1. file \in Seq(Lines) /\ Len(file) <= LogSize
          OBVIOUS
    <3>2. place.dir \in Dirs
          BY HopAssumption DEF Start
    <3>3. inner <= Len(todo)
          BY DEF NoLine
    <3>4. fresh \in BOOLEAN
          BY Zenon
    <3>   QED BY <3>1, <3>2, <3>3, <3>4 DEF RestOK
  <2>   QED BY <2>1, <2>2, TypeParts
<1>3. LineOK /\ FileOK /\ SeenOK
      BY <1>1 DEF LineOK, FileOK, SeenOK
<1>4. PlaceOK
  <2>1. shell_home \in Dirs /\ NoPath \in Names
        BY HopAssumption DEF NoPath, Names
  <2>   QED BY <2>1, DirsAreNames DEF Start, Tilde, PlaceOK, Sound, Places, Tells, Meant, NoPath
<1>   QED BY <1>2, <1>3, <1>4 DEF IInv

\* The parts together are kept by every step,
LEMMA Inductive == IInv /\ [Next]_vars => IInv'
<1> SUFFICES ASSUME IInv, [Next]_vars PROVE IInv'
    OBVIOUS
<1>1. PlaceOK' /\ SeenOK' /\ LineOK' /\ FileOK' /\ RingOK'
      BY PlaceKept, SeenKept, LineKept, FileKept, RingKept
<1>2. RestOK'
      BY <1>1, RestKept
<1>3. TypeOK'
      BY <1>1, <1>2, TypeParts, PTL
<1>   QED BY <1>1, <1>3 DEF IInv

\* so they always hold.
LEMMA Invariance == Spec => []IInv
BY Initially, Inductive, PTL DEF Spec

-----------------------------------------------------------------------------
(* The theorems. *)

\* The values of the variables, for every ring size and every set of lines:
\* add_log and the restart of main() never leave a slot in use without a line,
\* and logs.txt never grows beyond the ring.
THEOREM TypeCorrect == Spec => []TypeOK
<1>1. IInv => TypeOK
      BY DEF IInv
<1>   QED BY <1>1, Invariance, PTL

\* The line number that "log execute" computes from the ring is looked up in a
\* file that holds the same entries, if it is the first command of its line:
\* add_log keeps such lines out, and update_logs ran before the prompt.
THEOREM FileIsTheRing == Spec => []FileMatchesRing
<1>1. IInv => FileMatchesRing
  <2> SUFFICES ASSUME IInv, fresh, Command("execute") PROVE file = Entries
      BY DEF FileMatchesRing
  <2>1. phase = "run" /\ todo \in Seq(Commands) /\ todo # <<>> /\ todo[1].name = "execute"
        BY DEF Command, First, IInv, LineOK
  <2>2. if_log(todo)
        BY <2>1 DEF if_log
  <2>   QED BY <2>2 DEF IInv, FileOK
<1>   QED BY <1>1, Invariance, PTL

\* Whatever handle_hop is given, in whichever order its arguments fail, in typed
\* and in replayed lines, dir_name is the directory of the process and last_dir
\* the one before.
THEOREM PromptIsRight == Spec => []PromptTellsDirectory
<1>1. IInv => PromptTellsDirectory
      BY DEF IInv, PlaceOK, Sound, Tells, PromptTellsDirectory
<1>   QED BY <1>1, Invariance, PTL

\* prev_dir_reveal is only changed with what is listed, and hop leaves it alone.
THEOREM RevealIsRepeatable == Spec => []RevealsAgain
<1>1. IInv => RevealsAgain
  <2> SUFFICES ASSUME IInv, seen # Nothing,
                      place.dir = seen.in \/ IsAbsolute(place.prev_dir_reveal)
               PROVE  Leads(place.dir, assign_pathname(place, <<Dash>>)) = seen.of
      BY DEF RevealsAgain
  <2>1. seen.of # NoPath /\ Leads(seen.in, place.prev_dir_reveal) = seen.of
        BY DEF IInv, SeenOK
  <2>2. place.prev_dir_reveal # NoPath
        BY <2>1, DirsAreNames DEF Leads
  <2>3. assign_pathname(place, <<Dash>>) = place.prev_dir_reveal
        BY <2>2 DEF assign_pathname, Dash, Here
  <2>4. Leads(place.dir, place.prev_dir_reveal) = Leads(seen.in, place.prev_dir_reveal)
        BY DEF Leads
  <2>   QED BY <2>1, <2>3, <2>4
<1>   QED BY <1>1, Invariance, PTL

\* Until the ring wraps, the index (count - start) - num finds the num-th line
\* from the latest: what execute_fn runs is what was asked for.
THEOREM ReplayIsRight == Spec => ReplaysTheOneAsked
<1> DEFINE Asked == Replay /\ fresh /\ start = 0 /\ place.dir = shell_home /\ Head(todo).arg \in 1 .. count
                      => ran'.line = Entries[count + 1 - Head(todo).arg]
<1>1. ASSUME IInv, FileMatchesRing, [Next]_vars PROVE [Asked]_vars
  <2> SUFFICES ASSUME Replay, fresh, start = 0, place.dir = shell_home, Head(todo).arg \in 1 .. count
               PROVE  ran'.line = Entries[count + 1 - Head(todo).arg]
      OBVIOUS
  <2> DEFINE num == Head(todo).arg
  <2>1. file = Entries /\ Entries \in Seq(Lines) /\ Len(Entries) = count /\ count \in 0 .. LogSize
        BY <1>1, EntriesOfRing, TypeParts DEF FileMatchesRing, Replay, IInv, EntriesAreLines, RingOK
  <2>2. ReplayIndex(num) + 1 = count + 1 - num /\ count + 1 - num \in DOMAIN file /\ ~ num > LogSize
        BY <2>1, LogAssumption DEF ReplayIndex
  <2>3. get_in(ReplayIndex(num)) = Entries[count + 1 - num] /\ Entries[count + 1 - num] \in Lines
        BY <2>1, <2>2 DEF get_in
  <2>4. get_in(ReplayIndex(num)) # NoLine
        BY <2>3, LinesAssumption DEF NoLine
  <2>5. ran' = [num |-> num, line |-> get_in(ReplayIndex(num))]
        BY <2>2, <2>4 DEF Replay
  <2>   QED BY <2>3, <2>5
<1>2. Spec => []FileMatchesRing
      BY FileIsTheRing
<1>   QED BY <1>1, <1>2, Invariance, PTL DEF Spec, ReplaysTheOneAsked

-----------------------------------------------------------------------------
(* The refinement. *)

\* The history that the refinement maps to.
Kept == IF phase = "ended" THEN file ELSE Entries

\* A step of the shell is one of BoundedHistory, or changes neither the history
\* nor the file.
LEMMA StepOfHistory ==
    ASSUME IInv, [Next]_vars
    PROVE  [History!Next]_(History!vars)
<1> DEFINE Stutters == Kept' = Kept /\ file' = file
<1>1. RingOK /\ Entries \in Seq(Lines) /\ file \in Seq(Lines) /\ Len(Entries) \in 0 .. LogSize
      BY EntriesOfRing, TypeParts DEF IInv, EntriesAreLines, RestOK, RingOK
<1>2. Stutters => [History!Next]_(History!vars)
      BY DEF History!vars, Kept
<1>3. ASSUME UNCHANGED <<ring, file>>, phase # "ended" <=> phase' # "ended" PROVE Stutters
      BY <1>3, EntriesUnchanged DEF Kept
<1>4. CASE ReadLine
  <2>1. PICK line \in Lines : add_log(line) /\ todo' = line
        BY <1>4 DEF ReadLine
  <2>2. phase # "ended" /\ phase' # "ended" /\ file' = file
        BY <1>4 DEF ReadLine
  <2>3. CASE UNCHANGED ring
        BY <2>2, <2>3, <1>2, <1>3
  <2>4. CASE (Entries # <<>> => Entries[Len(Entries)] # line) /\ Remembers(line)
        BY <2>2, <2>4 DEF Remembers, History!Next, History!Add
  <2>   QED BY <2>1, <2>3, <2>4, <1>1, AddLogRemembers
<1>5. CASE RunProgram \/ Hop \/ Reveal
  <2>1. UNCHANGED <<ring, file, phase>>
        BY <1>5 DEF RunProgram, Hop, Reveal, Done
  <2>   QED BY <2>1, <1>2, <1>3
<1>6. CASE PurgeLog
  <2>1. phase # "ended" /\ phase' # "ended" /\ file' = file /\ count' = 0
        BY <1>6 DEF PurgeLog, Done, Command, First
  <2>2. Entries' = <<>>
        BY <2>1 DEF Entries
  <2>   QED BY <2>1, <2>2 DEF History!Next, History!Purge
<1>7. CASE Die /\ UNCHANGED file /\ phase # "ended"
  <2>1. phase' = "ended"
        BY <1>7 DEF Die
  <2>   QED BY <1>7, <2>1 DEF History!Next, History!NewSession
<1>8. CASE Replay
  <2>1. phase = "run"
        BY <1>8 DEF Replay, Command, First
  <2>2. (Die /\ UNCHANGED file) \/ UNCHANGED <<ring, file, phase>>
        BY <1>8 DEF Replay, Done
  <2>   QED BY <2>1, <2>2, <1>7, <1>2, <1>3
<1>9. CASE Truncate
  <2>1. phase # "ended" /\ phase' # "ended" /\ file' = <<>> /\ Entries' = Entries
        BY <1>9, EntriesUnchanged DEF Truncate
  <2>2. SubSeq(Entries, 1, 0) = <<>> /\ 0 \in 0 .. Len(Entries)
        BY <1>1
  <2>   QED BY <2>1, <2>2 DEF History!Next, History!Save
<1>10. CASE WriteEntry
  <2>1. /\ phase # "ended" /\ phase' # "ended" /\ Entries' = Entries
        /\ file' = Append(file, Head(todo)) /\ todo # <<>> /\ todo \in Seq(Lines)
        /\ file \o todo = Entries
        BY <1>10, EntriesUnchanged DEF WriteEntry, IInv, LineOK, FileOK
  <2>2. Len(file) + 1 \in 0 .. Len(Entries) /\ file' = SubSeq(Entries, 1, Len(file) + 1)
        BY <2>1, <1>1
  <2>   QED BY <2>1, <2>2 DEF History!Next, History!Save
<1>11. CASE Saved
  <2>1. UNCHANGED <<ring, file>> /\ phase # "ended" /\ phase' # "ended"
        BY <1>11 DEF Saved
  <2>   QED BY <2>1, <1>2, <1>3
<1>12. CASE StartShell
  <2>1. Entries' = file /\ phase = "ended" /\ phase' # "ended" /\ file' = file
        BY <1>12, RingOfFile DEF StartShell, IInv
  <2>   QED BY <2>1, <1>2 DEF Kept
<1>13. CASE UNCHANGED vars
  <2>1. UNCHANGED <<ring, file, phase>>
        BY <1>13 DEF vars
  <2>   QED BY <2>1, <1>2, <1>3
<1>14. CASE CutShort
  <2>1. /\ phase # "ended" /\ todo # <<>> /\ todo \in Seq(Lines) /\ file \o todo = Entries
        /\ phase' = "ended"
        BY <1>14 DEF CutShort, Die, IInv, LineOK, FileOK
  <2>2. PICK text \in Beginnings[Head(todo)] : file' = Append(file, text)
        BY <1>14 DEF CutShort
  <2> DEFINE n == Len(file) + 1
  <2>3. n \in 1 .. Len(Entries) /\ Entries[n] = Head(todo) /\ SubSeq(Entries, 1, n - 1) = file
        BY <2>1, <1>1
  <2>4. Kept = Entries /\ Kept' = file'
        BY <2>1 DEF Kept
  <2>   QED BY <2>2, <2>3, <2>4 DEF History!Next, History!Cut, Kept
<1>   QED BY <1>4, <1>5, <1>6, <1>7, <1>8, <1>9, <1>10, <1>11, <1>12, <1>13, <1>14 DEF Next, End

\* The ring and logs.txt are a bounded history, wherever the shell is killed:
\* what a full ring drops is the oldest line, what a save has written is the
\* beginning of the history, cut in the middle of a line at worst, and that is
\* what the next session starts from.
THEOREM RefinesHistory == Spec => ImplementsHistory
<1>1. Init => History!Init
  <2>1. Init => Entries = <<>> /\ phase # "ended" /\ file = <<>>
        BY DEF Init, Entries
  <2>   QED BY <2>1 DEF History!Init
<1>2. IInv /\ [Next]_vars => [History!Next]_(History!vars)
      BY StepOfHistory
<1>   QED BY <1>1, <1>2, Invariance, PTL DEF Spec, ImplementsHistory, History!Spec
=============================================================================
