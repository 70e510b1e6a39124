---------------------------- MODULE CliRunProofs ----------------------------
(***************************************************************************)
(* That the files of an invocation that ended with 0 are complete and its  *)
(* own, that a file name is what SanitizeForFilename promises, that every  *)
(* variable has its type, that billing is asked for the days of the        *)
(* calendar, and that the files of a report agree, for any number of       *)
(* invocations, files, team names and days and for any catalog and usage.  *)
(***************************************************************************)
EXTENDS CliRun, FoldTheorems

Before == {"flags", "debug", "debugging", "scan", "window", "billing", "team", "mkdir"}

Mine(p) == [by |-> p, whole |-> TRUE]

FilesOfOthers == [DOMAIN Files -> [by: Procs \cup {Nil}, whole: BOOLEAN]]

Types ==
  /\ pc \in [Procs -> Before \cup {"write", "exited"}]
  /\ exit \in [Procs -> {Running, Killed, 0, 1, 2}]
  /\ next \in [Procs -> 1..(Len(Files) + 1)]
  /\ prefix \in [Procs -> TeamPrefixes \cup {Nil}]
  /\ disk \in [TeamPrefixes -> FilesOfOthers]
  /\ disturbed \in [Procs -> BOOLEAN]

\* Where the invocation is.
Place(p) ==
  /\ exit[p] # Running => pc[p] = "exited"
  /\ pc[p] \in Before => next[p] = 1
  /\ pc[p] \in {"debug", "debugging"} => flags[p].debug
  /\ pc[p] \in {"mkdir", "write"} => prefix[p] \in TeamPrefixes
  /\ exit[p] = 0 /\ ~flags[p].debug => next[p] = Len(Files) + 1 /\ prefix[p] \in TeamPrefixes

\* What it has written is there, unless it was disturbed.
Stands(p) ==
  (pc[p] = "write" \/ (exit[p] = 0 /\ ~flags[p].debug)) /\ ~disturbed[p] =>
    \A i \in 1..(next[p] - 1) : disk[prefix[p]][i] = Mine(p)

DiskInv == Types /\ \A p \in Procs : Place(p) /\ Stands(p)

LEMMA FilesDomain == DOMAIN Files = 1..Len(Files) /\ Len(Files) \in Nat
  BY FilesAssumption

LEMMA InitInv == Init => DiskInv
  <1> SUFFICES ASSUME Init PROVE DiskInv
    OBVIOUS
  <1>1. Types
    <2>1. [i \in DOMAIN Files |-> Absent] \in FilesOfOthers
      BY DEF FilesOfOthers, Absent
    <2>2. disk \in [TeamPrefixes -> FilesOfOthers]
      BY <2>1 DEF Init
    <2>3. 1 \in 1..(Len(Files) + 1)
      BY FilesDomain
    <2>4. next \in [Procs -> 1..(Len(Files) + 1)]
      BY <2>3 DEF Init
    <2>5. /\ pc \in [Procs -> Before \cup {"write", "exited"}]
          /\ exit \in [Procs -> {Running, Killed, 0, 1, 2}]
          /\ prefix \in [Procs -> TeamPrefixes \cup {Nil}]
      BY DEF Init, Before
    <2>6. disturbed \in [Procs -> BOOLEAN]
      BY DEF Init
    <2> QED
      BY <2>2, <2>4, <2>5, <2>6 DEF Types
  <1>2. ASSUME NEW p \in Procs PROVE Place(p) /\ Stands(p)
    BY DEF Init, Place, Stands, Before, Running
  <1> QED
    BY <1>1, <1>2 DEF DiskInv

\* A step that only returns, before anything is written.
LEMMA ReturnStep ==
  ASSUME DiskInv, NEW p \in Procs, NEW status \in {Killed, 0, 1, 2}, Return(p, status),
         status = 0 => flags[p].debug \/ (pc[p] = "write" /\ next[p] = Len(Files) + 1),
         UNCHANGED <<flags, prefix, next, disk, disturbed>>
  PROVE  DiskInv'
  <1>1. Types'
    BY DEF DiskInv, Types, Return, Running, Killed
  <1>2. ASSUME NEW q \in Procs PROVE Place(q)' /\ Stands(q)'
    <2>1. CASE q = p
      BY <2>1, FilesDomain
         DEF DiskInv, Types, Place, Stands, Return, Running, Killed, Before, Mine
    <2>2. CASE q # p
      BY <2>2 DEF DiskInv, Types, Place, Stands, Return, Mine
    <2> QED
      BY <2>1, <2>2
  <1> QED
    BY <1>1, <1>2 DEF DiskInv

\* A step to another place before the files.
LEMMA WalkStep ==
  ASSUME DiskInv, NEW p \in Procs, NEW from \in Before, NEW to \in Before,
         Goto(p, from, to),
         to \in {"debug", "debugging"} => flags[p].debug,
         to # "mkdir",
         UNCHANGED <<flags, exit, prefix, next, disk, disturbed>>
  PROVE  DiskInv'
  <1>1. Types'
    BY DEF DiskInv, Types, Goto
  <1>2. ASSUME NEW q \in Procs PROVE Place(q)' /\ Stands(q)'
    <2>1. CASE q = p
      BY <2>1 DEF DiskInv, Types, Place, Stands, Goto, Running, Before, Mine
    <2>2. CASE q # p
      BY <2>2 DEF DiskInv, Types, Place, Stands, Goto, Mine
    <2> QED
      BY <2>1, <2>2
  <1> QED
    BY <1>1, <1>2 DEF DiskInv

\* A file is written: it is p's, and the others with the prefix are disturbed.
LEMMA PutFacts ==
  ASSUME Types, NEW p \in Procs, NEW whole \in BOOLEAN, prefix[p] \in TeamPrefixes,
         next[p] \in DOMAIN Files, Put(p, whole)
  PROVE  /\ disk' \in [TeamPrefixes -> FilesOfOthers]
         /\ disturbed' \in [Procs -> BOOLEAN]
         /\ disturbed'[p] = disturbed[p]
         /\ \A i \in DOMAIN Files : disk'[prefix[p]][i] =
              IF i = next[p] THEN [by |-> p, whole |-> whole] ELSE disk[prefix[p]][i]
         /\ \A q \in Procs : q # p /\ ~disturbed'[q] =>
              ~disturbed[q] /\ prefix[q] # prefix[p]
         /\ \A x \in TeamPrefixes : x # prefix[p] => disk'[x] = disk[x]
  <1> DEFINE file == [by |-> p, whole |-> whole]
  <1>1. file \in [by: Procs \cup {Nil}, whole: BOOLEAN]
    OBVIOUS
  <1>2. disk' = [disk EXCEPT ![prefix[p]] = [disk[prefix[p]] EXCEPT ![next[p]] = file]]
    BY DEF Put
  <1> HIDE DEF file
  <1>3. disk[prefix[p]] \in FilesOfOthers
    BY DEF Types
  <1>4. [disk[prefix[p]] EXCEPT ![next[p]] = file] \in FilesOfOthers
    BY <1>1, <1>3 DEF FilesOfOthers
  <1>5. disk' \in [TeamPrefixes -> FilesOfOthers]
    BY <1>2, <1>4 DEF Types
  <1>6. \A i \in DOMAIN Files : disk'[prefix[p]][i] =
          IF i = next[p] THEN file ELSE disk[prefix[p]][i]
    BY <1>2, <1>3 DEF Types, FilesOfOthers
  <1>7. \A x \in TeamPrefixes : x # prefix[p] => disk'[x] = disk[x]
    BY <1>2 DEF Types
  <1>8. disturbed' = [q \in Procs |-> disturbed[q] \/ (q # p /\ prefix[q] = prefix[p])]
    BY DEF Put
  <1>9. disturbed' \in [Procs -> BOOLEAN] /\ disturbed'[p] = disturbed[p]
    BY <1>8, Zenon DEF Types
  <1>10. \A q \in Procs : q # p /\ ~disturbed'[q] => ~disturbed[q] /\ prefix[q] # prefix[p]
    BY <1>8, Zenon DEF Types
  <1> QED
    BY <1>5, <1>6, <1>7, <1>9, <1>10 DEF file

\* One that fails, or is cut off by a signal, ends p.
LEMMA TornStep ==
  ASSUME DiskInv, NEW p \in Procs, NEW status \in {Killed, 1}, Return(p, status),
         pc[p] = "write", next[p] \in DOMAIN Files, Put(p, FALSE),
         UNCHANGED <<flags, prefix, next>>
  PROVE  DiskInv'
  <1>1. Types /\ prefix[p] \in TeamPrefixes
    BY DEF DiskInv, Place
  <1>2. Types'
    BY <1>1, PutFacts DEF Types, Return, Running, Killed
  <1>3. ASSUME NEW q \in Procs PROVE Place(q)' /\ Stands(q)'
    <2>1. CASE q = p
      BY <2>1, <1>1 DEF DiskInv, Types, Place, Stands, Return, Running, Killed, Before
    <2>2. CASE q # p
      <3>1. Place(q)'
        BY <2>2, <1>1 DEF DiskInv, Types, Place, Return
      <3>2. pc'[q] = pc[q] /\ exit'[q] = exit[q]
        BY <2>2, <1>1 DEF Types, Return
      <3>3. Stands(q)'
        <4> SUFFICES ASSUME ~disturbed'[q],
                            pc[q] = "write" \/ (exit[q] = 0 /\ ~flags[q].debug),
                            NEW i \in 1..(next[q] - 1)
                     PROVE  disk'[prefix[q]][i] = Mine(q)
          BY <3>2 DEF Stands, Mine
        <4>1. ~disturbed[q] /\ prefix[q] # prefix[p]
          BY <2>2, <1>1, PutFacts
        <4>2. prefix[q] \in TeamPrefixes
          BY DEF DiskInv, Place
        <4>3. disk'[prefix[q]] = disk[prefix[q]]
          BY <4>1, <4>2, <1>1, PutFacts
        <4> QED
          BY <4>1, <4>3 DEF DiskInv, Stands
      <3> QED
        BY <3>1, <3>3
    <2> QED
      BY <2>1, <2>2
  <1> QED
    BY <1>2, <1>3 DEF DiskInv

LEMMA WriteStep ==
  ASSUME DiskInv, NEW p \in Procs, ~CloseLies, WriteFile(p)
  PROVE  DiskInv'
  <1>1. Types /\ prefix[p] \in TeamPrefixes /\ pc[p] = "write"
    BY DEF DiskInv, Place, WriteFile
  <1>2. next[p] \in DOMAIN Files
    BY <1>1, FilesDomain DEF Types, WriteFile
  <1>3. Put(p, TRUE)
    BY DEF WriteFile
  <1>4. UNCHANGED <<pc, flags, exit, prefix>> /\ next' = [next EXCEPT ![p] = @ + 1]
    BY DEF WriteFile
  <1>5. Types'
    <2>1. next' \in [Procs -> 1..(Len(Files) + 1)]
      BY <1>1, <1>2, <1>4, FilesDomain DEF Types
    <2>2. disk' \in [TeamPrefixes -> FilesOfOthers] /\ disturbed' \in [Procs -> BOOLEAN]
      BY <1>1, <1>2, <1>3, PutFacts
    <2> QED
      BY <1>1, <1>4, <2>1, <2>2 DEF Types
  <1>6. ASSUME NEW q \in Procs PROVE Place(q)' /\ Stands(q)'
    <2>1. CASE q = p
      <3>1. Place(p)'
        BY <1>1, <1>4 DEF DiskInv, Types, Place, Before, Running
      <3>2. ASSUME ~disturbed'[p], NEW i \in 1..(next'[p] - 1)
            PROVE  disk'[prefix[p]][i] = Mine(p)
        <4>1. i \in DOMAIN Files /\ i <= next[p]
          BY <1>1, <1>2, <1>4, FilesDomain DEF Types
        <4>2. ~disturbed[p]
          BY <3>2, <1>1, <1>2, <1>3, PutFacts
        <4>3. i # next[p] => disk[prefix[p]][i] = Mine(p)
          BY <4>1, <4>2, <1>1, <1>2, FilesDomain DEF DiskInv, Types, Stands
        <4>4. \A j \in DOMAIN Files : disk'[prefix[p]][j] =
                IF j = next[p] THEN [by |-> p, whole |-> TRUE] ELSE disk[prefix[p]][j]
          BY <1>1, <1>2, <1>3, PutFacts
        <4> QED
          BY <4>1, <4>3, <4>4 DEF Mine
      <3> QED
        BY <2>1, <3>1, <3>2, <1>4 DEF Stands
    <2>2. CASE q # p
      <3>1. next'[q] = next[q]
        BY <2>2, <1>1, <1>4 DEF Types
      <3>2. Place(q)'
        BY <3>1, <1>4 DEF DiskInv, Place
      <3>3. Stands(q)'
        <4> SUFFICES ASSUME ~disturbed'[q],
                            pc[q] = "write" \/ (exit[q] = 0 /\ ~flags[q].debug),
                            NEW i \in 1..(next[q] - 1)
                     PROVE  disk'[prefix[q]][i] = Mine(q)
          BY <3>1, <1>4 DEF Stands
        <4>1. ~disturbed[q] /\ prefix[q] # prefix[p]
          BY <2>2, <1>1, <1>2, <1>3, PutFacts
        <4>2. prefix[q] \in TeamPrefixes
          BY DEF DiskInv, Place
        <4>3. disk'[prefix[q]] = disk[prefix[q]]
          BY <4>1, <4>2, <1>1, <1>2, <1>3, PutFacts
        <4> QED
          BY <4>1, <4>3 DEF DiskInv, Stands
      <3> QED
        BY <3>2, <3>3
    <2> QED
      BY <2>1, <2>2
  <1> QED
    BY <1>5, <1>6 DEF DiskInv

LEMMA NextInv == ASSUME ~CloseLies, DiskInv, [Next]_vars PROVE DiskInv'
  <1>1. CASE UNCHANGED vars
    BY <1>1 DEF DiskInv, Types, Place, Stands, vars
  <1>2. CASE Tick
    BY <1>2 DEF DiskInv, Types, Place, Stands, Tick
  <1>3. ASSUME NEW p \in Procs, Run(p) PROVE DiskInv'
    <2>1. CASE UsageError(p)
      BY <2>1, ReturnStep DEF UsageError
    <2>2. CASE FlagsParsed(p)
      <3>1. PICK to \in {"debug", "scan"} : to = IF flags[p].debug THEN "debug" ELSE "scan"
        OBVIOUS
      <3>2. to = "debug" => flags[p].debug
        BY <3>1
      <3> QED
        BY <2>2, <3>1, <3>2, WalkStep DEF FlagsParsed, Before
    <2>3. CASE ClientFails(p)
      BY <2>3, ReturnStep DEF ClientFails
    <2>4. CASE DebugBilling(p)
      BY <2>4, WalkStep DEF DebugBilling, Before, DiskInv, Place, Goto
    <2>5. CASE DebugEnds(p)
      <3>1. flags[p].debug
        BY <2>5 DEF DebugEnds, DiskInv, Place
      <3> QED
        BY <2>5, <3>1, ReturnStep DEF DebugEnds
    <2>6. CASE ScanFails(p)
      BY <2>6, ReturnStep DEF ScanFails
    <2>7. CASE Correlated(p)
      <3>1. PICK to \in {"window", "team"} : to = IF HasBilling(flags[p]) THEN "window" ELSE "team"
        OBVIOUS
      <3> QED
        BY <2>7, <3>1, WalkStep DEF Correlated, Before
    <2>8. CASE AskBilling(p)
      <3> DEFINE w == BillingWindowUTC(today, flags[p].days, flags[p].months)
      <3>1. PICK to \in {"team", "billing"} : to = IF w = Invalid THEN "team" ELSE "billing"
        OBVIOUS
      <3> QED
        BY <2>8, <3>1, WalkStep DEF AskBilling, Before
    <2>9. CASE BillingReturns(p)
      BY <2>9, WalkStep DEF BillingReturns, Before
    <2>10. CASE ResolveTeamFilenamePrefix(p)
      BY <2>10 DEF ResolveTeamFilenamePrefix, DiskInv, Types, Place, Stands, Goto, Before,
                   Running, Mine
    <2>11. CASE MkdirAll(p)
      BY <2>11 DEF MkdirAll, DiskInv, Types, Place, Stands, Goto, Before, Running, Mine
    <2>12. CASE MkdirFails(p)
      BY <2>12, ReturnStep DEF MkdirFails
    <2>13. CASE WriteFile(p)
      BY <2>13, WriteStep
    <2>14. CASE WriteFails(p)
      <3>1. next[p] \in DOMAIN Files
        BY <2>14, FilesDomain DEF WriteFails, DiskInv, Types
      <3>2. CASE Put(p, FALSE)
        BY <2>14, <3>1, <3>2, TornStep DEF WriteFails
      <3>3. CASE UNCHANGED <<disk, disturbed>>
        BY <2>14, <3>3, ReturnStep DEF WriteFails
      <3> QED
        BY <2>14, <3>2, <3>3 DEF WriteFails
    <2>15. CASE Finish(p)
      <3>1. next[p] = Len(Files) + 1
        BY <2>15, FilesDomain DEF Finish, DiskInv, Types
      <3> QED
        BY <2>15, <3>1, ReturnStep DEF Finish
    <2>16. CASE Kill(p)
      <3>1. CASE pc[p] = "write" /\ next[p] <= Len(Files) /\ Put(p, FALSE)
        <4>1. next[p] \in DOMAIN Files
          BY <3>1, FilesDomain DEF DiskInv, Types
        <4> QED
          BY <2>16, <3>1, <4>1, TornStep DEF Kill
      <3>2. CASE UNCHANGED <<disk, disturbed>>
        BY <2>16, <3>2, ReturnStep DEF Kill, Killed
      <3> QED
        BY <2>16, <3>1, <3>2 DEF Kill
    <2> QED
      BY <1>3, <2>1, <2>2, <2>3, <2>4, <2>5, <2>6, <2>7, <2>8, <2>9, <2>10, <2>11, <2>12,
         <2>13, <2>14, <2>15, <2>16 DEF Run
  <1> QED
    BY <1>1, <1>2, <1>3 DEF Next

LEMMA InvStands == DiskInv => LastSuccessStands
  BY FilesDomain DEF DiskInv, Types, Place, Stands, LastSuccessStands, Mine

\* If every write error is reported when it is made, an invocation that ended
\* with 0 has left all its files, complete, for any files and prefixes.
THEOREM SuccessStands == ASSUME ~CloseLies PROVE Spec => []LastSuccessStands
  <1>1. DiskInv /\ [Next]_vars => DiskInv'
    BY NextInv
  <1> QED
    BY <1>1, InitInv, InvStands, PTL DEF Spec

-----------------------------------------------------------------------------
(* The prefixes are tidy.                                                  *)

LEMMA MaxIsMax ==
  ASSUME NEW S, S \subseteq Int, IsFiniteSet(S), S # {}
  PROVE  Max(S) \in S /\ \A y \in S : Max(S) >= y
  <1> DEFINE Up(x) == {y \in S : y >= x}
             B     == {Up(x) : x \in S}
  <1>1. B \subseteq SUBSET S /\ B # {} /\ IsFiniteSet(S)
    OBVIOUS
  <1>2. PICK t \in B : \A u \in B : u \subseteq t => u = t
    <2> HIDE DEF B
    <2> QED BY ONLY <1>1, Smallest
  <1>3. PICK x \in S : t = Up(x)
    BY <1>2
  <1>4. ASSUME NEW y \in S, ~(x >= y)
        PROVE  FALSE
    <2>1. Up(y) \in B /\ Up(y) \subseteq Up(x)
      <3>1. Up(y) \in B
        OBVIOUS
      <3>2. \A z \in S : z >= y => z >= x
        <4>1. \A z \in S : z \in Int
          OBVIOUS
        <4>2. x \in Int /\ y \in Int
          OBVIOUS
        <4> QED BY ONLY <4>1, <4>2, <1>4
      <3> QED BY <3>1, <3>2
    <2>2. x \in Up(x) /\ x \notin Up(y)
      BY <1>4
    <2> HIDE DEF Up, B
    <2> QED BY <1>2, <1>3, <2>1, <2>2
  <1> QED
    BY <1>4 DEF Max

LEMMA MinIsMin ==
  ASSUME NEW S, S \subseteq Int, IsFiniteSet(S), S # {}
  PROVE  Min(S) \in S /\ \A y \in S : Min(S) =< y
  <1> DEFINE Down(x) == {y \in S : y =< x}
             B       == {Down(x) : x \in S}
  <1>1. B \subseteq SUBSET S /\ B # {} /\ IsFiniteSet(S)
    OBVIOUS
  <1>2. PICK t \in B : \A u \in B : u \subseteq t => u = t
    <2> HIDE DEF B
    <2> QED BY ONLY <1>1, Smallest
  <1>3. PICK x \in S : t = Down(x)
    BY <1>2
  <1>4. ASSUME NEW y \in S, ~(x =< y)
        PROVE  FALSE
    <2>1. Down(y) \in B /\ Down(y) \subseteq Down(x)
      <3>1. Down(y) \in B
        OBVIOUS
      <3>2. \A z \in S : z =< y => z =< x
        <4>1. \A z \in S : z \in Int
          OBVIOUS
        <4>2. x \in Int /\ y \in Int
          OBVIOUS
        <4> QED BY ONLY <4>1, <4>2, <1>4
      <3> QED BY <3>1, <3>2
    <2>2. x \in Down(x) /\ x \notin Down(y)
      BY <1>4
    <2> HIDE DEF Down, B
    <2> QED BY <1>2, <1>3, <2>1, <2>2
  <1> QED
    BY <1>4 DEF Min

Chars == STRING \cup {Underscore}

\* What Squeeze has made of the characters up to some place.
Squeezed ==
  {x \in Seq(Chars) : \A i \in 1..Len(x) :
     x[i] \notin Unsafe /\ (i < Len(x) /\ x[i] = Underscore => x[i + 1] # Underscore)}

Squeeze1(x, c) ==
  LET d == IF c \in Unsafe THEN Underscore ELSE c
  IN  IF d = Underscore /\ x # <<>> /\ Last(x) = Underscore THEN x ELSE Append(x, d)

\* The function by which Squeeze is defined.
IsSqueeze(name, g) ==
  g = [s \in SUBSET (DOMAIN name) |->
         IF s = {} THEN <<>> ELSE Squeeze1(g[s \ {Max(s)}], name[Max(s)])]

LEMMA Squeeze1Type ==
  ASSUME NEW x \in Squeezed, NEW c \in Chars
  PROVE  Squeeze1(x, c) \in Squeezed
  <1> DEFINE d == IF c \in Unsafe THEN Underscore ELSE c
  <1>1. d \in Chars /\ d \notin Unsafe
    BY UnsafeAssumption DEF Chars
  <1>2. CASE d = Underscore /\ x # <<>> /\ Last(x) = Underscore
    BY <1>2 DEF Squeeze1
  <1>3. CASE ~(d = Underscore /\ x # <<>> /\ Last(x) = Underscore)
    <2> DEFINE y == Append(x, d)
    <2>1. Squeeze1(x, c) = y
      BY <1>3 DEF Squeeze1
    <2>2. x \in Seq(Chars) /\ Len(x) \in Nat
      BY DEF Squeezed
    <2>3. y \in Seq(Chars) /\ Len(y) = Len(x) + 1 /\ y[Len(x) + 1] = d
          /\ \A i \in 1..Len(x) : y[i] = x[i]
      BY <1>1, <2>2
    <2>4. Len(x) # 0 /\ x[Len(x)] = Underscore => d # Underscore
      BY <1>3, <2>2 DEF Last
    <2> HIDE DEF d, y
    <2>5. ASSUME NEW i \in 1..Len(y)
          PROVE  /\ y[i] \notin Unsafe
                 /\ i < Len(y) /\ y[i] = Underscore => y[i + 1] # Underscore
      <3>1. CASE i = Len(x) + 1
        BY <1>1, <2>2, <2>3, <3>1
      <3>2. CASE i = Len(x)
        BY <2>2, <2>3, <2>4, <3>2 DEF Squeezed
      <3>3. CASE i < Len(x)
        <4>1. i \in 1..Len(x) /\ i + 1 \in 1..Len(x)
          BY <2>2, <3>3
        <4> QED
          BY <2>2, <2>3, <3>3, <4>1 DEF Squeezed
      <3> QED
        BY <2>2, <2>3, <3>1, <3>2, <3>3
    <2> QED
      BY <2>1, <2>3, <2>5 DEF Squeezed
  <1> QED
    BY <1>2, <1>3

LEMMA SqueezeType ==
  ASSUME NEW name \in Seq(Chars)
  PROVE  Squeeze(name) \in Squeezed
  <1> DEFINE D  == DOMAIN name
             ch == [s \in SUBSET D |-> Max(s)]
             at == [s \in SUBSET D |-> IF s = {} THEN Underscore ELSE name[Max(s)]]
             st == [a \in (SUBSET D) \X Squeezed |-> Squeeze1(a[2], at[a[1]])]
             g  == CHOOSE h : IsSqueeze(name, h)
  <1>1. D = 1..Len(name) /\ Len(name) \in Nat /\ \A i \in D : name[i] \in Chars
    OBVIOUS
  <1>2. IsFiniteSet(D)
    BY <1>1, FS_Interval
  <1>3. ASSUME NEW s \in SUBSET D, s # {}
        PROVE  Max(s) \in s
    <2>1. IsFiniteSet(s) /\ s \subseteq Int
      BY <1>1, <1>2, FS_Subset
    <2> QED BY <1>3, <2>1, MaxIsMax
  <1>4. at \in [SUBSET D -> Chars]
    <2>1. ASSUME NEW s \in SUBSET D
          PROVE  (IF s = {} THEN Underscore ELSE name[Max(s)]) \in Chars
      <3>1. s # {} => Max(s) \in D
        BY <1>3
      <3> HIDE DEF D
      <3> QED BY <1>1, <3>1 DEF Chars
    <2> HIDE DEF D
    <2> QED BY ONLY <2>1
  <1>5. st \in [(SUBSET D) \X Squeezed -> Squeezed]
    <2> HIDE DEF at, D
    <2>1. \A a \in (SUBSET D) \X Squeezed : Squeeze1(a[2], at[a[1]]) \in Squeezed
      BY <1>4, Squeeze1Type
    <2> QED BY <2>1
  <1>6. <<>> \in Squeezed
    BY DEF Squeezed
  <1>7. PICK h \in [SUBSET D -> Squeezed] : IsFold(st, ch, <<>>, D, h)
    <2>1. \A s \in SUBSET D : s # {} => ch[s] \in s
      BY <1>3
    <2> HIDE DEF st, ch, D
    <2> QED BY <1>2, <1>5, <1>6, <2>1, FoldExists
  <1>8. IsSqueeze(name, h)
    <2>1. ASSUME NEW s \in SUBSET D
          PROVE  h[s] = IF s = {} THEN <<>> ELSE Squeeze1(h[s \ {Max(s)}], name[Max(s)])
      <3>1. h[s] = IF s = {} THEN <<>> ELSE st[s, h[s \ {ch[s]}]]
        <4> HIDE DEF st, ch, D
        <4> QED BY <1>7 DEF IsFold
      <3>2. ch[s] = Max(s) /\ s \ {Max(s)} \in SUBSET D
        OBVIOUS
      <3>3. h[s \ {Max(s)}] \in Squeezed
        BY <1>7, <3>2
      <3>4. s # {} => st[s, h[s \ {Max(s)}]] = Squeeze1(h[s \ {Max(s)}], name[Max(s)])
        <4> DEFINE v == h[s \ {Max(s)}]
        <4>1. v \in Squeezed
          BY <3>3
        <4>2. s # {} => at[s] = name[Max(s)]
          OBVIOUS
        <4> HIDE DEF v, at, D
        <4> QED BY <4>1, <4>2
      <3> HIDE DEF st, ch
      <3> QED BY <3>1, <3>2, <3>4
    <2>2. h = [s \in SUBSET D |-> h[s]]
      BY ONLY <1>7
    <2> HIDE DEF D, st, ch
    <2>3. h = [s \in SUBSET D |-> IF s = {} THEN <<>>
                                 ELSE Squeeze1(h[s \ {Max(s)}], name[Max(s)])]
      BY ONLY <2>1, <2>2
    <2> QED BY ONLY <2>3 DEF IsSqueeze, D
  <1>9. IsSqueeze(name, g)
    BY <1>8
  <1> HIDE DEF g
  <1>10. ASSUME NEW s \in SUBSET D
         PROVE  g[s] = IF s = {} THEN <<>> ELSE Squeeze1(g[s \ {Max(s)}], name[Max(s)])
    BY <1>9 DEF IsSqueeze
  <1> DEFINE B == {s \in SUBSET D : g[s] \notin Squeezed}
  <1>11. B = {}
    <2> SUFFICES ASSUME B # {} PROVE FALSE
      OBVIOUS
    <2>1. PICK s \in B : \A u \in B : u \subseteq s => u = s
      <3>1. B \subseteq SUBSET D
        OBVIOUS
      <3> HIDE DEF B, D
      <3> QED BY <1>2, <3>1, Smallest
    <2>2. s \in SUBSET D /\ g[s] \notin Squeezed
      BY <2>1
    <2>3. s # {}
      BY <1>6, <1>10, <2>2
    <2>4. Max(s) \in s
      BY <1>3, <2>2, <2>3
    <2>5. g[s \ {Max(s)}] \in Squeezed
      BY <2>1, <2>2, <2>4
    <2>6. name[Max(s)] \in Chars
      BY <1>1, <2>2, <2>4
    <2>7. g[s] = Squeeze1(g[s \ {Max(s)}], name[Max(s)])
      BY <1>10, <2>2, <2>3
    <2> QED BY <2>2, <2>5, <2>6, <2>7, Squeeze1Type
  <1>12. g[D] \in Squeezed
    BY <1>11
  <1>13. Squeeze(name) = g[D]
    BY DEF Squeeze, FoldLeft, MapThenFoldSet, IsSqueeze, Squeeze1, g
  <1> QED
    BY <1>12, <1>13

LEMMA SanitizeType ==
  ASSUME NEW name \in Seq(Chars)
  PROVE  IsTidy(SanitizeForFilename(name))
  <1> DEFINE s == Squeeze(name)
             i == IF s # <<>> /\ Head(s) = Underscore THEN 2 ELSE 1
             j == IF s # <<>> /\ Last(s) = Underscore THEN Len(s) - 1 ELSE Len(s)
             x == SubSeq(s, i, j)
  <1>1. SanitizeForFilename(name) = x
    BY DEF SanitizeForFilename
  <1>2. s \in Squeezed
    BY SqueezeType
  <1> HIDE DEF s
  <1>3. s \in Seq(Chars) /\ Len(s) \in Nat
    BY <1>2 DEF Squeezed
  <1>4. \A k \in 1..Len(s) : /\ s[k] \notin Unsafe
                             /\ k < Len(s) /\ s[k] = Underscore => s[k + 1] # Underscore
    BY <1>2 DEF Squeezed
  <1>5. /\ i \in 1..2 /\ j \in Int /\ j <= Len(s)
        /\ Len(s) > 0 => j >= 0
        /\ Len(s) = 0 => j = 0
    BY <1>3
  <1>6. i = 1 => Len(s) = 0 \/ s[1] # Underscore
    BY <1>3
  <1>7. i = 2 => Len(s) > 0 /\ s[1] = Underscore
    BY <1>3
  <1>8. j = Len(s) => Len(s) = 0 \/ s[Len(s)] # Underscore
    BY <1>3 DEF Last
  <1>9. j # Len(s) => Len(s) > 0 /\ s[Len(s)] = Underscore /\ j = Len(s) - 1
    BY <1>3 DEF Last
  <1> HIDE DEF i, j
  <1>10. Len(x) = (IF i <= j THEN j - i + 1 ELSE 0) /\ DOMAIN x = 1..Len(x)
         /\ \A k \in 1..Len(x) : x[k] = s[i + k - 1]
    BY <1>3, <1>5
  <1> HIDE DEF x
  <1>11. ASSUME NEW k \in 1..Len(x)
         PROVE  /\ x[k] \notin Unsafe
                /\ x[k] = Underscore => k # 1 /\ k # Len(x) /\ x[k + 1] # Underscore
    <2> DEFINE m == i + k - 1
    <2>1. /\ m \in 1..Len(s) /\ i <= m /\ m <= j /\ x[k] = s[m]
          /\ k = Len(x) => m = j
          /\ k = 1 => m = i
      BY <1>3, <1>5, <1>10
    <2>2. k # Len(x) => x[k + 1] = s[m + 1] /\ m < j
      BY <1>3, <1>5, <1>10
    <2> HIDE DEF m
    <2>3. k = 1 => s[m] # Underscore
      <3>1. CASE i = 1
        BY <1>3, <1>6, <2>1, <3>1
      <3>2. CASE i = 2
        <4>1. 1 \in 1..Len(s) /\ 1 < Len(s)
          BY <1>3, <1>5, <2>1, <3>2
        <4> QED BY <1>4, <1>7, <2>1, <3>2, <4>1
      <3> QED BY <1>5, <3>1, <3>2
    <2>4. k = Len(x) => s[m] # Underscore
      <3>1. CASE j = Len(s)
        BY <1>3, <1>8, <2>1, <3>1
      <3>2. CASE j # Len(s)
        BY <1>3, <1>4, <1>9, <2>1, <3>2
      <3> QED BY <3>1, <3>2
    <2>5. k # Len(x) => (s[m] = Underscore => s[m + 1] # Underscore)
      BY <1>3, <1>4, <1>5, <2>1, <2>2
    <2> QED
      BY <1>4, <2>1, <2>2, <2>3, <2>4, <2>5
  <1> QED
    BY <1>1, <1>10, <1>11 DEF IsTidy

LEMMA FetchType ==
  ASSUME NEW r \in Replies
  PROVE  FetchTeamName(r) \in Seq(STRING)
  <1> DEFINE names == <<r.default>> \o r.teams
             named == {i \in DOMAIN names : names[i] # <<>>}
  <1>1. r.default \in Seq(STRING) /\ r.teams \in Seq(Seq(STRING))
    BY RepliesAssumption
  <1>2. <<r.default>> \in Seq(Seq(STRING))
    BY <1>1
  <1>3. names \in Seq(Seq(STRING))
    <2> HIDE DEF names
    <2> QED BY <1>1, <1>2 DEF names
  <1>4. FetchTeamName(r) = IF named = {} THEN <<>> ELSE names[Min(named)]
    BY DEF FetchTeamName
  <1> HIDE DEF names
  <1>5. DOMAIN names = 1..Len(names) /\ Len(names) \in Nat
    BY <1>3
  <1>6. named # {} => Min(named) \in named
    <2>1. named \subseteq 1..Len(names)
      BY <1>5
    <2> HIDE DEF named
    <2>2. IsFiniteSet(named)
      <3>1. IsFiniteSet(1..Len(names))
        BY <1>5, FS_Interval
      <3> QED BY <2>1, <3>1, FS_Subset, Zenon
    <2>3. named \subseteq Int
      BY <1>5, <2>1
    <2> QED BY <2>2, <2>3, MinIsMin
  <1>7. CASE named = {}
    BY <1>4, <1>7
  <1>8. CASE named # {}
    <2>1. Min(named) \in 1..Len(names)
      BY <1>5, <1>6, <1>8
    <2> HIDE DEF named
    <2> QED BY <1>3, <1>4, <1>5, <1>8, <2>1
  <1> QED BY <1>7, <1>8

LEMMA Tidy == \A x \in TeamPrefixes : IsTidy(x)
  <1>1. IsTidy(<<>>)
    BY DEF IsTidy
  <1>2. ASSUME NEW r \in Replies PROVE IsTidy(SanitizeForFilename(FetchTeamName(r)))
    <2> DEFINE n == FetchTeamName(r)
    <2>1. n \in Seq(STRING)
      BY FetchType
    <2> HIDE DEF n
    <2>2. n \in Seq(Chars)
      BY <2>1 DEF Chars
    <2> QED BY <2>2, SanitizeType DEF n
  <1> QED
    BY <1>1, <1>2 DEF TeamPrefixes

-----------------------------------------------------------------------------
(* Every variable has its type, the reports and requests included.         *)

SeriesIn(ss) == {s.series : s \in ss}

IsReport(p, r) ==
  /\ DOMAIN r = {"used", "unused", "split", "meta"}
  /\ r.used \subseteq ReportSeries
  /\ r.unused \subseteq ReportSeries
  /\ SeriesIn(r.used \cup r.unused) = SeriesIn(Catalog[p])

\* A report is of all of its catalog, and until the answer about billing it
\* is the catalog.
Shape(p) ==
  /\ flags[p] \in Invocations[p]
  /\ exit[p] = Running <=> pc[p] # "exited"
  /\ pc[p] \in {"mkdir", "write"} => prefix[p] \in TeamPrefixes
  /\ pc[p] \in {"window", "billing"} =>
       IsReport(p, rep[p]) /\ rep[p].used \cup rep[p].unused = Catalog[p]
  /\ rep[p] = Nil \/ IsReport(p, rep[p])
  /\ asked[p] = Nil \/ (asked[p].on \in Int /\ asked[p].on <= today)

TypeInv ==
  /\ Types
  /\ today \in Midnights \cup {d + 1 : d \in Midnights}
  /\ DOMAIN rep = Procs /\ DOMAIN asked = Procs
  /\ \A p \in Procs : Shape(p)

LEMMA TodayIsInt == TypeInv => today \in Int
  BY MidnightsAssumption DEF TypeInv

LEMMA TypeInit == Init => TypeInv
  <1> SUFFICES ASSUME Init PROVE TypeInv
    OBVIOUS
  <1>1. Types
    BY InitInv DEF DiskInv
  <1>2. ASSUME NEW p \in Procs PROVE Shape(p)
    BY DEF Init, Shape, Running
  <1> QED
    BY <1>1, <1>2 DEF Init, TypeInv

\* A step of p leaves the others as they are.
LEMMA TypeStep ==
  ASSUME TypeInv, NEW p \in Procs, Types', today' = today, flags' = flags,
         DOMAIN rep' = Procs, DOMAIN asked' = Procs, Shape(p)',
         \A q \in Procs \ {p} :
           /\ pc'[q] = pc[q] /\ exit'[q] = exit[q] /\ prefix'[q] = prefix[q]
           /\ rep'[q] = rep[q] /\ asked'[q] = asked[q]
  PROVE  TypeInv'
  <1>1. ASSUME NEW q \in Procs, q # p
        PROVE  Shape(q)'
    <2>1. Shape(q)
      BY DEF TypeInv
    <2> QED BY <1>1, <2>1 DEF Shape, IsReport
  <1> QED
    BY <1>1 DEF TypeInv

\* The end of an invocation.
LEMMA TypeReturn ==
  ASSUME TypeInv, NEW p \in Procs, NEW status \in {Killed, 0, 1, 2}, Return(p, status),
         UNCHANGED <<today, flags, prefix, next>>,
         disk' \in [TeamPrefixes -> FilesOfOthers], disturbed' \in [Procs -> BOOLEAN]
  PROVE  TypeInv'
  <1>1. Types'
    BY DEF TypeInv, Types, Return, Running, Killed
  <1>2. pc'[p] = "exited" /\ exit'[p] = status /\ rep'[p] = Nil /\ asked'[p] = Nil
    BY DEF TypeInv, Types, Return
  <1>3. Shape(p)'
    BY <1>2 DEF TypeInv, Shape, Running, Killed
  <1>4. DOMAIN rep' = Procs /\ DOMAIN asked' = Procs
    BY DEF TypeInv, Return
  <1>5. \A q \in Procs \ {p} :
           /\ pc'[q] = pc[q] /\ exit'[q] = exit[q] /\ prefix'[q] = prefix[q]
           /\ rep'[q] = rep[q] /\ asked'[q] = asked[q]
    BY DEF TypeInv, Types, Return
  <1> QED
    BY <1>1, <1>3, <1>4, <1>5, TypeStep

LEMMA TypePlainReturn ==
  ASSUME TypeInv, NEW p \in Procs, NEW status \in {Killed, 0, 1, 2}, Return(p, status),
         UNCHANGED <<today, flags, prefix, next, disk, disturbed>>
  PROVE  TypeInv'
  BY TypeReturn DEF TypeInv, Types

LEMMA TypeTorn ==
  ASSUME TypeInv, NEW p \in Procs, NEW status \in {Killed, 1}, Return(p, status),
         UNCHANGED <<today, flags, prefix, next>>,
         pc[p] = "write", next[p] <= Len(Files), Put(p, FALSE)
  PROVE  TypeInv'
  <1>1. next[p] \in DOMAIN Files /\ prefix[p] \in TeamPrefixes /\ Types
    BY FilesDomain DEF TypeInv, Types, Shape
  <1>2. disk' \in [TeamPrefixes -> FilesOfOthers] /\ disturbed' \in [Procs -> BOOLEAN]
    BY <1>1, PutFacts
  <1> QED
    BY <1>2, TypeReturn

\* A step to another place, at which the report and the request are as they
\* should be.
LEMMA TypeWalk ==
  ASSUME TypeInv, NEW p \in Procs,
         NEW from \in Before, NEW to \in Before \cup {"write"}, Goto(p, from, to),
         UNCHANGED <<today, flags, exit, next>>,
         DOMAIN rep' = Procs, DOMAIN asked' = Procs,
         disk' \in [TeamPrefixes -> FilesOfOthers], disturbed' \in [Procs -> BOOLEAN],
         prefix' \in [Procs -> TeamPrefixes \cup {Nil}],
         \A q \in Procs \ {p} :
           prefix'[q] = prefix[q] /\ rep'[q] = rep[q] /\ asked'[q] = asked[q],
         to \in {"mkdir", "write"} => prefix'[p] \in TeamPrefixes,
         to \in {"window", "billing"} =>
           IsReport(p, rep'[p]) /\ rep'[p].used \cup rep'[p].unused = Catalog[p],
         rep'[p] = Nil \/ IsReport(p, rep'[p]),
         asked'[p] = Nil \/ (asked'[p].on \in Int /\ asked'[p].on <= today)
  PROVE  TypeInv'
  <1>1. Types'
    BY DEF TypeInv, Types, Goto
  <1>2. pc'[p] = to /\ pc[p] = from /\ \A q \in Procs \ {p} : pc'[q] = pc[q]
    BY DEF TypeInv, Types, Goto
  <1>3. Shape(p)
    BY DEF TypeInv
  <1>4. exit'[p] = Running <=> pc'[p] # "exited"
    BY <1>2, <1>3 DEF Shape, Before
  <1>5. Shape(p)'
    BY <1>2, <1>3, <1>4 DEF Shape, IsReport
  <1> QED
    BY <1>1, <1>2, <1>5, TypeStep

\* One that leaves the report alone.
LEMMA TypePlainWalk ==
  ASSUME TypeInv, NEW p \in Procs,
         NEW from \in Before, NEW to \in Before, Goto(p, from, to),
         to \in {"mkdir", "window", "billing"} => FALSE,
         UNCHANGED <<today, flags, exit, rep, prefix, next, disk, disturbed>>,
         DOMAIN asked' = Procs,
         \A q \in Procs \ {p} : asked'[q] = asked[q],
         asked'[p] = Nil \/ (asked'[p].on \in Int /\ asked'[p].on <= today)
  PROVE  TypeInv'
  <1>1. /\ DOMAIN rep' = Procs
        /\ disk' \in [TeamPrefixes -> FilesOfOthers] /\ disturbed' \in [Procs -> BOOLEAN]
        /\ prefix' \in [Procs -> TeamPrefixes \cup {Nil}]
        /\ rep'[p] = Nil \/ IsReport(p, rep'[p])
    BY DEF TypeInv, Types, Shape
  <1> QED
    BY <1>1, TypeWalk DEF Before

LEMMA AskFacts ==
  ASSUME TypeInv, NEW p \in Procs, NEW w, Ask(p, w)
  PROVE  /\ DOMAIN asked' = Procs
         /\ \A q \in Procs \ {p} : asked'[q] = asked[q]
         /\ asked'[p].on \in Int /\ asked'[p].on <= today
  BY TodayIsInt DEF TypeInv, Ask

Sharings(p) == [{GroupOf(s) : s \in Catalog[p]} -> Shares \cup {Nil}]

LEMMA BilledFacts ==
  ASSUME NEW p \in Procs, NEW share \in Sharings(p),
         NEW ss, ss \subseteq Catalog[p]
  PROVE  /\ Billed(ss, share) \subseteq ReportSeries
         /\ SeriesIn(Billed(ss, share)) = SeriesIn(ss)
  <1> DEFINE B(s) == [s EXCEPT !.billing = share[GroupOf(s)]]
  <1>1. ASSUME NEW s \in ss
        PROVE  B(s) \in ReportSeries /\ B(s).series = s.series
    <2>1. s \in ReportSeries
      BY CatalogAssumption
    <2>2. GroupOf(s) \in {GroupOf(t) : t \in Catalog[p]}
      OBVIOUS
    <2>3. PICK b \in SeriesBilling \cup {Nil} : b = share[GroupOf(s)]
      BY <2>2, SharesAssumption DEF Sharings
    <2> QED
      BY <2>1, <2>3 DEF ReportSeries
  <1>2. Billed(ss, share) = {B(s) : s \in ss}
    BY DEF Billed
  <1> HIDE DEF B
  <1>3. Billed(ss, share) \subseteq ReportSeries
    BY <1>1, <1>2
  <1>4. SeriesIn(Billed(ss, share)) = SeriesIn(ss)
    <2>1. SeriesIn(Billed(ss, share)) = {B(s).series : s \in ss}
      BY <1>2, Zenon DEF SeriesIn
    <2>2. {B(s).series : s \in ss} = SeriesIn(ss)
      BY <1>1 DEF SeriesIn
    <2> QED BY <2>1, <2>2
  <1> QED
    BY <1>3, <1>4

LEMMA TypeCorrelated ==
  ASSUME TypeInv, NEW p \in Procs, Correlated(p)
  PROVE  TypeInv'
  <1>1. PICK hit \in SUBSET Catalog[p] :
          rep' = [rep EXCEPT ![p] =
            [used   |-> hit,
             unused |-> Catalog[p] \ hit,
             split  |-> [k \in {} |-> 0],
             meta   |-> [days |-> flags[p].days, months |-> flags[p].months,
                         start |-> 0, end |-> 0, withBilling |-> 0, unusedWithBilling |-> 0]]]
    BY Zenon DEF Correlated
  <1>2. /\ DOMAIN rep' = Procs /\ \A q \in Procs \ {p} : rep'[q] = rep[q]
        /\ DOMAIN rep'[p] = {"used", "unused", "split", "meta"}
        /\ rep'[p].used = hit /\ rep'[p].unused = Catalog[p] \ hit
    BY <1>1 DEF TypeInv
  <1>3. rep'[p].used \cup rep'[p].unused = Catalog[p]
    BY <1>2
  <1>4. IsReport(p, rep'[p])
    BY <1>2, <1>3, CatalogAssumption DEF IsReport
  <1>5. PICK to \in {"window", "team"} : to = IF HasBilling(flags[p]) THEN "window" ELSE "team"
    OBVIOUS
  <1>6. Goto(p, "scan", to)
    BY <1>5 DEF Correlated
  <1>7. UNCHANGED <<today, flags, exit, asked, prefix, next, disk, disturbed>>
    BY DEF Correlated
  <1>8. /\ DOMAIN asked' = Procs
        /\ disk' \in [TeamPrefixes -> FilesOfOthers] /\ disturbed' \in [Procs -> BOOLEAN]
        /\ prefix' \in [Procs -> TeamPrefixes \cup {Nil}]
        /\ asked'[p] = Nil \/ (asked'[p].on \in Int /\ asked'[p].on <= today)
    BY <1>7 DEF TypeInv, Types, Shape
  <1> QED
    BY <1>2, <1>3, <1>4, <1>6, <1>7, <1>8, TypeWalk DEF Before

LEMMA TypeAskBilling ==
  ASSUME TypeInv, NEW p \in Procs, AskBilling(p)
  PROVE  TypeInv'
  <1> DEFINE w == BillingWindowUTC(today, flags[p].days, flags[p].months)
  <1>1. UNCHANGED <<today, flags, exit, prefix, next, disk, disturbed>>
    BY DEF AskBilling
  <1>2. /\ disk' \in [TeamPrefixes -> FilesOfOthers] /\ disturbed' \in [Procs -> BOOLEAN]
        /\ prefix' \in [Procs -> TeamPrefixes \cup {Nil}]
    BY <1>1 DEF TypeInv, Types
  <1>3. IsReport(p, rep[p]) /\ rep[p].used \cup rep[p].unused = Catalog[p]
    BY DEF TypeInv, Shape, AskBilling, Goto
  <1>4. CASE w = Invalid
    <2>1. Goto(p, "window", "team") /\ UNCHANGED <<rep, asked>>
      BY <1>4 DEF AskBilling
    <2>2. DOMAIN rep' = Procs /\ DOMAIN asked' = Procs
      BY <2>1 DEF TypeInv
    <2>3. asked'[p] = Nil \/ (asked'[p].on \in Int /\ asked'[p].on <= today)
      BY <2>1 DEF TypeInv, Shape
    <2> QED
      BY <1>1, <1>2, <1>3, <2>1, <2>2, <2>3, TypeWalk DEF Before
  <1>5. CASE w # Invalid
    <2> HIDE DEF w
    <2>1. /\ Goto(p, "window", "billing")
          /\ Ask(p, w)
          /\ rep' = [rep EXCEPT ![p].meta.days = w.days,
                                ![p].meta.start = w.start, ![p].meta.end = w.end]
      BY <1>5 DEF AskBilling, w
    <2>2. /\ DOMAIN rep' = Procs /\ \A q \in Procs \ {p} : rep'[q] = rep[q]
          /\ DOMAIN rep'[p] = {"used", "unused", "split", "meta"}
          /\ rep'[p].used = rep[p].used /\ rep'[p].unused = rep[p].unused
      BY <1>3, <2>1 DEF TypeInv, IsReport
    <2>3. IsReport(p, rep'[p])
      BY <1>3, <2>2 DEF IsReport
    <2>4. /\ DOMAIN asked' = Procs
          /\ \A q \in Procs \ {p} : asked'[q] = asked[q]
          /\ asked'[p].on \in Int /\ asked'[p].on <= today
      BY <2>1, AskFacts
    <2>5. rep'[p].used \cup rep'[p].unused = Catalog[p]
      BY <1>3, <2>2
    <2> QED
      BY <1>1, <1>2, <2>1, <2>2, <2>3, <2>4, <2>5, TypeWalk DEF Before
  <1> QED
    BY <1>4, <1>5

\* What the answer about billing leaves of the reports.
LEMMA AnswerFacts ==
  ASSUME TypeInv, NEW p \in Procs, BillingReturns(p)
  PROVE  /\ DOMAIN rep' = Procs /\ \A q \in Procs \ {p} : rep'[q] = rep[q]
         /\ \E share \in Sharings(p) :
              /\ DOMAIN rep'[p] = {"used", "unused", "split", "meta"}
              /\ rep'[p].used = Billed(rep[p].used, share)
              /\ rep'[p].unused = Billed(rep[p].unused, share)
  <1>3. IsReport(p, rep[p])
    BY DEF TypeInv, Shape, Goto, BillingReturns
  <1>4. PICK share \in Sharings(p) :
          LET used   == Billed(rep[p].used, share)
              unused == Billed(rep[p].unused, share)
              billed == WithBilling(used \cup unused)
          IN  rep' = [rep EXCEPT
                ![p].used = used,
                ![p].unused = unused,
                ![p].split = [k \in {s.series : s \in billed} |->
                   Cardinality({s \in billed : \E t \in billed :
                                  t.series = k /\ GroupOf(s) = GroupOf(t)})],
                ![p].meta.withBilling = Cardinality(billed),
                ![p].meta.unusedWithBilling = Cardinality(WithBilling(unused))]
    BY Zenon DEF BillingReturns, Sharings
  <1> DEFINE used   == Billed(rep[p].used, share)
             unused == Billed(rep[p].unused, share)
  <1>5. /\ DOMAIN rep' = Procs /\ \A q \in Procs \ {p} : rep'[q] = rep[q]
        /\ DOMAIN rep'[p] = {"used", "unused", "split", "meta"}
        /\ rep'[p].used = used /\ rep'[p].unused = unused
    <2> DEFINE billed == WithBilling(used \cup unused)
               split  == [k \in {s.series : s \in billed} |->
                            Cardinality({s \in billed : \E t \in billed :
                                           t.series = k /\ GroupOf(s) = GroupOf(t)})]
               n      == Cardinality(billed)
               m      == Cardinality(WithBilling(unused))
    <2>1. rep' = [rep EXCEPT ![p].used = used, ![p].unused = unused, ![p].split = split,
                             ![p].meta.withBilling = n, ![p].meta.unusedWithBilling = m]
      BY <1>4
    <2> HIDE DEF used, unused, split, n, m
    <2> QED
      BY <1>3, <2>1 DEF TypeInv, IsReport
  <1> QED BY <1>5

LEMMA AnswerIsReport ==
  ASSUME TypeInv, NEW p \in Procs, BillingReturns(p)
  PROVE  IsReport(p, rep'[p])
  <1>1. IsReport(p, rep[p]) /\ rep[p].used \cup rep[p].unused = Catalog[p]
    BY DEF TypeInv, Shape, Goto, BillingReturns
  <1>2. PICK share \in Sharings(p) :
          /\ DOMAIN rep'[p] = {"used", "unused", "split", "meta"}
          /\ rep'[p].used = Billed(rep[p].used, share)
          /\ rep'[p].unused = Billed(rep[p].unused, share)
    BY AnswerFacts
  <1> DEFINE used   == Billed(rep[p].used, share)
             unused == Billed(rep[p].unused, share)
  <1>3. /\ DOMAIN rep' = Procs /\ \A q \in Procs \ {p} : rep'[q] = rep[q]
        /\ DOMAIN rep'[p] = {"used", "unused", "split", "meta"}
        /\ rep'[p].used = used /\ rep'[p].unused = unused
    BY <1>2, AnswerFacts
  <1>4. IsReport(p, rep'[p])
    <2>1. rep[p].used \subseteq Catalog[p] /\ rep[p].unused \subseteq Catalog[p]
      BY <1>1
    <2>2. /\ used \subseteq ReportSeries /\ unused \subseteq ReportSeries
          /\ SeriesIn(used) = SeriesIn(rep[p].used)
          /\ SeriesIn(unused) = SeriesIn(rep[p].unused)
      BY <2>1, BilledFacts
    <2> HIDE DEF used, unused
    <2>3. SeriesIn(used \cup unused) = SeriesIn(Catalog[p])
      <3>1. SeriesIn(used \cup unused)
              = SeriesIn(used) \cup SeriesIn(unused)
        BY Zenon DEF SeriesIn
      <3>2. SeriesIn(rep[p].used \cup rep[p].unused)
              = SeriesIn(rep[p].used) \cup SeriesIn(rep[p].unused)
        BY Zenon DEF SeriesIn
      <3> QED BY <1>1, <2>2, <3>1, <3>2
    <2> QED
      BY <1>3, <2>2, <2>3 DEF IsReport
  <1> QED BY <1>4

LEMMA TypeBillingReturns ==
  ASSUME TypeInv, NEW p \in Procs, BillingReturns(p)
  PROVE  TypeInv'
  <1>1. /\ UNCHANGED <<today, flags, exit, prefix, next, disk, disturbed>>
        /\ Goto(p, "billing", "team") /\ asked' = [asked EXCEPT ![p] = Nil]
    BY DEF BillingReturns
  <1>2. /\ disk' \in [TeamPrefixes -> FilesOfOthers] /\ disturbed' \in [Procs -> BOOLEAN]
        /\ prefix' \in [Procs -> TeamPrefixes \cup {Nil}]
    BY <1>1 DEF TypeInv, Types
  <1>3. DOMAIN rep' = Procs /\ \A q \in Procs \ {p} : rep'[q] = rep[q]
    BY AnswerFacts
  <1>4. IsReport(p, rep'[p])
    BY AnswerIsReport
  <1>5. /\ DOMAIN asked' = Procs /\ asked'[p] = Nil
        /\ \A q \in Procs \ {p} : asked'[q] = asked[q]
    BY <1>1 DEF TypeInv
  <1> QED
    BY <1>1, <1>2, <1>3, <1>4, <1>5, TypeWalk DEF Before

LEMMA TypeNext == ASSUME TypeInv, [Next]_vars PROVE TypeInv'
  <1>1. CASE UNCHANGED vars
    BY <1>1 DEF TypeInv, Types, Shape, IsReport, vars
  <1>2. CASE Tick
    <2>1. Types'
      BY <1>2 DEF Tick, TypeInv, Types
    <2>2. today \in Int /\ today' = today + 1
      BY <1>2, TodayIsInt DEF Tick
    <2>3. ASSUME NEW p \in Procs PROVE Shape(p)'
      <3>1. Shape(p)
        BY DEF TypeInv
      <3>2. asked'[p] = Nil \/ (asked'[p].on \in Int /\ asked'[p].on <= today')
        BY <1>2, <2>2, <3>1 DEF Tick, Shape
      <3> QED
        BY <1>2, <3>1, <3>2 DEF Tick, Shape, IsReport
    <2> QED
      BY <1>2, <2>1, <2>3 DEF Tick, TypeInv
  <1>3. ASSUME NEW p \in Procs, Run(p) PROVE TypeInv'
    <2>a. /\ disk \in [TeamPrefixes -> FilesOfOthers] /\ disturbed \in [Procs -> BOOLEAN]
          /\ prefix \in [Procs -> TeamPrefixes \cup {Nil}]
          /\ DOMAIN asked = Procs /\ DOMAIN rep = Procs
          /\ asked[p] = Nil \/ (asked[p].on \in Int /\ asked[p].on <= today)
          /\ rep[p] = Nil \/ IsReport(p, rep[p])
      BY DEF TypeInv, Types, Shape
    <2>1. CASE UsageError(p)
      BY <2>1, TypePlainReturn DEF UsageError
    <2>2. CASE FlagsParsed(p)
      <3>1. PICK to \in {"debug", "scan"} : to = IF flags[p].debug THEN "debug" ELSE "scan"
        OBVIOUS
      <3> QED
        BY <2>2, <2>a, <3>1, TypePlainWalk DEF FlagsParsed, Before
    <2>3. CASE ClientFails(p)
      BY <2>3, TypePlainReturn DEF ClientFails
    <2>4. CASE DebugBilling(p)
      <3> DEFINE w == DebugWindow(today, flags[p].days, flags[p].months)
      <3>1. Ask(p, w)
        BY <2>4 DEF DebugBilling
      <3> HIDE DEF w
      <3>2. /\ DOMAIN asked' = Procs
            /\ \A q \in Procs \ {p} : asked'[q] = asked[q]
            /\ asked'[p].on \in Int /\ asked'[p].on <= today
        BY <3>1, AskFacts
      <3> QED
        BY <2>4, <3>2, TypePlainWalk DEF DebugBilling, Before
    <2>5. CASE DebugEnds(p)
      BY <2>5, TypePlainReturn DEF DebugEnds
    <2>6. CASE ScanFails(p)
      BY <2>6, TypePlainReturn DEF ScanFails
    <2>7. CASE Correlated(p)
      BY <2>7, TypeCorrelated
    <2>8. CASE AskBilling(p)
      BY <2>8, TypeAskBilling
    <2>9. CASE BillingReturns(p)
      BY <2>9, TypeBillingReturns
    <2>10. CASE ResolveTeamFilenamePrefix(p)
      <3>1. PICK x \in TeamPrefixes : prefix' = [prefix EXCEPT ![p] = x]
        BY <2>10 DEF ResolveTeamFilenamePrefix
      <3>2. /\ prefix' \in [Procs -> TeamPrefixes \cup {Nil}] /\ prefix'[p] \in TeamPrefixes
            /\ \A q \in Procs \ {p} : prefix'[q] = prefix[q]
        BY <2>a, <3>1
      <3> QED
        BY <2>10, <2>a, <3>2, TypeWalk DEF ResolveTeamFilenamePrefix, Before
    <2>11. CASE MkdirAll(p)
      <3>1. prefix[p] \in TeamPrefixes
        BY <2>11 DEF MkdirAll, Goto, TypeInv, Shape
      <3>2. disturbed' \in [Procs -> BOOLEAN]
        BY <2>11, <2>a DEF MkdirAll
      <3>3. /\ DOMAIN rep' = Procs /\ rep'[p] = Nil
            /\ \A q \in Procs \ {p} : rep'[q] = rep[q]
        BY <2>11, <2>a DEF MkdirAll
      <3> QED
        BY <2>11, <2>a, <3>1, <3>2, <3>3, TypeWalk DEF MkdirAll, Before
    <2>12. CASE MkdirFails(p)
      BY <2>12, TypePlainReturn DEF MkdirFails
    <2>13. CASE WriteFile(p)
      <3>1. next[p] \in DOMAIN Files /\ prefix[p] \in TeamPrefixes /\ Types
        BY <2>13, FilesDomain DEF WriteFile, TypeInv, Types, Shape
      <3>2. PICK whole \in BOOLEAN : Put(p, whole)
        BY <2>13 DEF WriteFile
      <3>3. disk' \in [TeamPrefixes -> FilesOfOthers] /\ disturbed' \in [Procs -> BOOLEAN]
        BY <3>1, <3>2, PutFacts
      <3>4. /\ UNCHANGED <<today, pc, flags, exit, rep, asked, prefix>>
            /\ next' = [next EXCEPT ![p] = @ + 1]
        BY <2>13 DEF WriteFile
      <3>5. next' \in [Procs -> 1..(Len(Files) + 1)]
        BY <3>1, <3>4, FilesDomain DEF Types
      <3>6. Types'
        BY <3>1, <3>3, <3>4, <3>5 DEF Types
      <3>7. Shape(p)'
        BY <3>4 DEF TypeInv, Shape, IsReport
      <3> QED
        BY <2>a, <3>4, <3>6, <3>7, TypeStep
    <2>14. CASE WriteFails(p)
      <3>1. CASE Put(p, FALSE)
        BY <2>14, <3>1, TypeTorn DEF WriteFails
      <3>2. CASE UNCHANGED <<disk, disturbed>>
        BY <2>14, <3>2, TypePlainReturn DEF WriteFails
      <3> QED
        BY <2>14, <3>1, <3>2 DEF WriteFails
    <2>15. CASE Finish(p)
      BY <2>15, TypePlainReturn DEF Finish
    <2>16. CASE Kill(p)
      <3>1. CASE pc[p] = "write" /\ next[p] <= Len(Files) /\ Put(p, FALSE)
        BY <2>16, <3>1, TypeTorn DEF Kill
      <3>2. CASE UNCHANGED <<disk, disturbed>>
        BY <2>16, <3>2, TypePlainReturn DEF Kill
      <3> QED
        BY <2>16, <3>1, <3>2 DEF Kill
    <2> QED
      BY <1>3, <2>1, <2>2, <2>3, <2>4, <2>5, <2>6, <2>7, <2>8, <2>9, <2>10, <2>11, <2>12,
         <2>13, <2>14, <2>15, <2>16 DEF Run
  <1> QED
    BY <1>1, <1>2, <1>3 DEF Next

LEMMA TypeInvOK == TypeInv => TypeOK
  <1> SUFFICES ASSUME TypeInv PROVE TypeOK
    OBVIOUS
  <1>1. \A p \in Procs : prefix[p] = Nil \/ (prefix[p] \in TeamPrefixes /\ IsTidy(prefix[p]))
    BY Tidy DEF TypeInv, Types
  <1>2. \A p \in Procs : rep[p] # Nil =>
          /\ rep[p].used \subseteq ReportSeries
          /\ {s.series : s \in rep[p].used \cup rep[p].unused} = {s.series : s \in Catalog[p]}
    BY Zenon DEF TypeInv, Shape, IsReport, SeriesIn
  <1>3. \A p \in Procs : /\ flags[p] \in Invocations[p]
                         /\ exit[p] = Running <=> pc[p] # "exited"
                         /\ asked[p] = Nil \/ asked[p].on <= today
    BY DEF TypeInv, Shape
  <1> QED
    BY <1>1, <1>2, <1>3 DEF TypeInv, Types, TypeOK, FilesOfOthers, Before

\* Every variable has its type, and file names are tidy, whatever the teams
\* are called.
THEOREM Typed == Spec => []TypeOK
  <1>1. TypeInv /\ [Next]_vars => TypeInv'
    BY TypeNext
  <1> QED
    BY <1>1, TypeInit, TypeInvOK, PTL DEF Spec

-----------------------------------------------------------------------------
(* The arithmetic of days and months, against the calendar.                *)

\* The parts of FirstOf and DaysIn, by year and month.
IsMonth(i, y, m) == i \in Int /\ y \in Int /\ m \in 0..11 /\ i = 12 * y + m

LeapDay(y) == IF Leap(y) THEN 1 ELSE 0

Leaps(y) == (y + 3) \div 4 - (y + 99) \div 100 + (y + 399) \div 400

Begin(y, m) == 365 * y + Leaps(y) + DaysTo[m + 1] + (IF m > 1 THEN LeapDay(y) ELSE 0)

Days(y, m) == IF m = 1 THEN 28 + LeapDay(y) ELSE IF m \in {3, 5, 8, 10} THEN 30 ELSE 31

LEMMA YearAndMonth ==
  ASSUME NEW i \in Int
  PROVE  \E y, m : IsMonth(i, y, m)
  <1> DEFINE y == i \div 12
  <1>1. y \in Int /\ i - 12 * y \in 0..11
    OBVIOUS
  <1>2. i = 12 * y + (i - 12 * y)
    BY <1>1
  <1> HIDE DEF y
  <1>3. IsMonth(i, y, i - 12 * y)
    BY <1>1, <1>2 DEF IsMonth
  <1> QED BY <1>3

LEMMA LeapsNext ==
  ASSUME NEW y \in Int
  PROVE  Leaps(y) \in Int /\ Leaps(y + 1) = Leaps(y) + LeapDay(y) /\ LeapDay(y) \in {0, 1}
  BY DEF Leaps, Leap, LeapDay

LEMMA DaysToIs ==
  /\ DaysTo[1] = 0 /\ DaysTo[2] = 31 /\ DaysTo[3] = 59 /\ DaysTo[4] = 90 /\ DaysTo[5] = 120
  /\ DaysTo[6] = 151 /\ DaysTo[7] = 181 /\ DaysTo[8] = 212 /\ DaysTo[9] = 243
  /\ DaysTo[10] = 273 /\ DaysTo[11] = 304 /\ DaysTo[12] = 334
  BY DEF DaysTo

LEMMA ByYear ==
  ASSUME NEW i, NEW y, NEW m, IsMonth(i, y, m)
  PROVE  /\ i \div 12 = y /\ i % 12 = m
         /\ FirstOf(i) = Begin(y, m) /\ Begin(y, m) \in Int
         /\ DaysIn(i) = Days(y, m)
  <1>1. y \in Int /\ m \in 0..11 /\ i = 12 * y + m
    BY DEF IsMonth
  <1>2. i \div 12 = y /\ i % 12 = m
    BY <1>1
  <1>3. (IF m > 1 /\ Leap(y) THEN 1 ELSE 0) = (IF m > 1 THEN LeapDay(y) ELSE 0)
    BY DEF LeapDay
  <1>4. DaysTo[m + 1] \in Int
    BY <1>1, DaysToIs
  <1>5. FirstOf(i) = Begin(y, m)
    BY <1>1, <1>2, <1>3, <1>4 DEF FirstOf, Leaps, Begin
  <1>6. Begin(y, m) \in Int
    BY <1>1, <1>4, LeapsNext DEF Begin
  <1>7. DaysIn(i) = Days(y, m)
    BY <1>1, <1>2 DEF DaysIn, LeapDay, Days
  <1> QED BY <1>2, <1>5, <1>6, <1>7

LEMMA FirstOfType ==
  ASSUME NEW i \in Int
  PROVE  FirstOf(i) \in Int
  <1>1. PICK y, m : IsMonth(i, y, m)
    BY YearAndMonth
  <1> QED BY <1>1, ByYear

\* A month begins when the one before it has ended.
LEMMA FirstOfNext ==
  ASSUME NEW i \in Int
  PROVE  FirstOf(i + 1) = FirstOf(i) + DaysIn(i) /\ DaysIn(i) \in 28..31
  <1>1. PICK y, m : IsMonth(i, y, m)
    BY YearAndMonth
  <1>2. y \in Int /\ m \in 0..11 /\ i = 12 * y + m
    BY <1>1 DEF IsMonth
  <1>3. FirstOf(i) = Begin(y, m) /\ DaysIn(i) = Days(y, m)
    BY <1>1, ByYear
  <1>4. Leaps(y) \in Int /\ Leaps(y + 1) = Leaps(y) + LeapDay(y) /\ LeapDay(y) \in {0, 1}
    BY <1>2, LeapsNext
  <1>5. CASE m < 11
    <2>1. IsMonth(i + 1, y, m + 1)
      BY <1>2, <1>5 DEF IsMonth
    <2>2. FirstOf(i + 1) = Begin(y, m + 1)
      BY <2>1, ByYear
    <2>3. Begin(y, m + 1) = Begin(y, m) + Days(y, m) /\ Days(y, m) \in 28..31
      BY <1>2, <1>4, <1>5, DaysToIs DEF Begin, Days
    <2> QED BY <1>3, <2>2, <2>3
  <1>6. CASE m = 11
    <2>1. IsMonth(i + 1, y + 1, 0)
      BY <1>2, <1>6 DEF IsMonth
    <2>2. FirstOf(i + 1) = Begin(y + 1, 0)
      BY <2>1, ByYear
    <2>3. Begin(y + 1, 0) = Begin(y, m) + Days(y, m) /\ Days(y, m) \in 28..31
      BY <1>2, <1>4, <1>6, DaysToIs DEF Begin, Days
    <2> QED BY <1>3, <2>2, <2>3
  <1> QED BY <1>2, <1>5, <1>6

\* Rough bounds of the day at which a month begins.
LEMMA FirstOfBounds ==
  ASSUME NEW i \in Nat
  PROVE  /\ 3043 * (i - 1) <= 100 * FirstOf(i)
         /\ 100 * FirstOf(i) <= 3044 * (i + 1)
         /\ FirstOf(i) <= 31 * i
  <1>1. PICK y, m : IsMonth(i, y, m)
    <2>1. i \in Int
      OBVIOUS
    <2> QED BY <2>1, YearAndMonth
  <1>2. y \in Nat /\ m \in 0..11 /\ i = 12 * y + m
    BY <1>1 DEF IsMonth
  <1>3. FirstOf(i) = Begin(y, m)
    BY <1>1, ByYear
  <1> DEFINE l == Leaps(y)
             d == DaysTo[m + 1]
             e == IF m > 1 THEN LeapDay(y) ELSE 0
  <1>4. l \in Int /\ 400 * l >= 97 * y - 396 /\ 400 * l <= 97 * y + 699 /\ (y = 0 => l = 0)
    BY <1>2, LeapsNext DEF Leaps
  <1>5. d \in Int /\ 100 * d >= 3043 * m - 200 /\ 100 * d <= 3043 * m + 100
        /\ d <= 31 * m /\ (m > 1 => d + 1 <= 31 * m)
    BY <1>2, DaysToIs
  <1>6. e \in {0, 1} /\ (m <= 1 => e = 0)
    BY <1>2, LeapsNext
  <1>7. FirstOf(i) = 365 * y + l + d + e
    BY <1>3 DEF Begin
  <1> HIDE DEF l, d, e
  <1> QED BY <1>2, <1>4, <1>5, <1>6, <1>7

LEMMA FirstOfZero == FirstOf(0) = 0
  <1>1. IsMonth(0, 0, 0)
    BY DEF IsMonth
  <1>2. Leaps(0) = 0
    BY DEF Leaps
  <1> QED BY <1>1, <1>2, ByYear, DaysToIs DEF Begin

\* Months are in order.
LEMMA FirstOfGrows ==
  ASSUME NEW i \in Int, NEW j \in Int, i < j
  PROVE  FirstOf(i + 1) <= FirstOf(j)
  <1> DEFINE B == {k \in (i + 1)..j : FirstOf(k) < FirstOf(i + 1)}
  <1>1. B \subseteq Int /\ IsFiniteSet(B)
    <2>1. IsFiniteSet((i + 1)..j) /\ B \subseteq (i + 1)..j
      BY FS_Interval
    <2>2. (i + 1)..j \subseteq Int
      OBVIOUS
    <2> HIDE DEF B
    <2> QED BY <2>1, <2>2, FS_Subset, Zenon
  <1>2. CASE B # {}
    <2> DEFINE k == Min(B)
    <2>1. k \in B /\ \A b \in B : k =< b
      <3> HIDE DEF B
      <3> QED BY <1>1, <1>2, MinIsMin
    <2> HIDE DEF k
    <2>2. k \in Int /\ i + 1 <= k /\ k <= j /\ FirstOf(k) < FirstOf(i + 1)
      BY <2>1
    <2>3. k # i + 1
      BY <2>2, FirstOfType
    <2>4. k - 1 \in (i + 1)..j /\ k - 1 \notin B
      BY <2>1, <2>2, <2>3
    <2>5. ~(FirstOf(k - 1) < FirstOf(i + 1))
      BY <2>4
    <2>6. k - 1 \in Int /\ (k - 1) + 1 = k
      BY <2>2
    <2>7. FirstOf(k) = FirstOf(k - 1) + DaysIn(k - 1) /\ DaysIn(k - 1) \in 28..31
      BY <2>6, FirstOfNext
    <2>8. FirstOf(k - 1) \in Int /\ FirstOf(i + 1) \in Int
      BY <2>6, FirstOfType
    <2> QED BY <2>2, <2>5, <2>7, <2>8
  <1>3. CASE B = {}
    <2>1. j \in (i + 1)..j /\ j \notin B
      BY <1>3
    <2>2. ~(FirstOf(j) < FirstOf(i + 1))
      BY <2>1
    <2>3. FirstOf(j) \in Int /\ FirstOf(i + 1) \in Int
      BY FirstOfType
    <2> QED BY <2>2, <2>3
  <1> QED BY <1>2, <1>3

\* Day n is in month i.
InMonth(n, i) == n \in Nat /\ i \in Nat /\ FirstOf(i) <= n /\ n < FirstOf(i + 1)

LEMMA MonthExists ==
  ASSUME NEW n \in Nat
  PROVE  \E i : InMonth(n, i)
  <1> DEFINE A == {i \in 0..n : FirstOf(i) <= n}
             k == Max(A)
  <1>1. A \subseteq Int /\ IsFiniteSet(A) /\ 0 \in A
    <2>1. IsFiniteSet(0..n) /\ A \subseteq 0..n
      BY FS_Interval
    <2>2. 0..n \subseteq Int
      OBVIOUS
    <2>3. 0 \in A
      BY FirstOfZero
    <2> HIDE DEF A
    <2> QED BY <2>1, <2>2, <2>3, FS_Subset, Zenon
  <1>2. k \in A /\ \A a \in A : k >= a
    <2> HIDE DEF A
    <2> QED BY <1>1, MaxIsMax
  <1> HIDE DEF k
  <1>3. k \in Nat /\ k <= n /\ FirstOf(k) <= n
    BY <1>2
  <1>4. /\ FirstOf(k + 1) \in Int /\ FirstOf(k) \in Int
        /\ FirstOf(k + 1) = FirstOf(k) + DaysIn(k) /\ DaysIn(k) \in 28..31
    BY <1>3, FirstOfType, FirstOfNext
  <1>5. n < FirstOf(k + 1)
    <2>1. CASE k < n
      <3>1. k + 1 \in 0..n /\ k + 1 \notin A
        BY <1>2, <1>3, <2>1
      <3>2. ~(FirstOf(k + 1) <= n)
        BY <3>1
      <3> QED BY <1>4, <3>2
    <2>2. CASE k = n
      <3>1. 3043 * (k - 1) <= 100 * FirstOf(k)
        BY <1>3, FirstOfBounds
      <3>2. n = 0 => FirstOf(k) = 0
        BY <2>2, FirstOfZero
      <3> QED BY <1>3, <1>4, <2>2, <3>1, <3>2
    <2> QED BY <1>3, <2>1, <2>2
  <1>6. InMonth(n, k)
    BY <1>3, <1>5 DEF InMonth
  <1> QED BY <1>6

LEMMA MonthOfIs ==
  ASSUME NEW n, NEW i, InMonth(n, i)
  PROVE  MonthOf(n) = i
  <1> DEFINE R == ((n * 100) \div 3044 - 1)..((n * 100) \div 3043 + 1)
             P(j) == FirstOf(j) <= n /\ n < FirstOf(j + 1)
  <1>1. n \in Nat /\ i \in Nat /\ P(i)
    BY DEF InMonth
  <1>2. FirstOf(i) \in Int /\ FirstOf(i + 1) \in Int
    BY <1>1, FirstOfType
  <1>3. i \in R
    <2>1. 3043 * (i - 1) <= 100 * n
      <3>1. 3043 * (i - 1) <= 100 * FirstOf(i)
        BY <1>1, FirstOfBounds
      <3> QED BY <1>1, <1>2, <3>1
    <2>2. 100 * n < 3044 * (i + 2)
      <3>1. 100 * FirstOf(i + 1) <= 3044 * ((i + 1) + 1)
        BY <1>1, FirstOfBounds
      <3> QED BY <1>1, <1>2, <3>1
    <2>3. (n * 100) \div 3043 \in Int /\ i - 1 <= (n * 100) \div 3043
      BY <1>1, <2>1
    <2>4. (n * 100) \div 3044 \in Int /\ (n * 100) \div 3044 < i + 2
      BY <1>1, <2>2
    <2> QED BY <1>1, <2>3, <2>4
  <1>4. R \subseteq Int
    <2>1. (n * 100) \div 3043 \in Int /\ (n * 100) \div 3044 \in Int
      BY <1>1
    <2> QED BY <2>1
  <1>5. ASSUME NEW j \in R, P(j)
        PROVE  j = i
    <2>1. j \in Int /\ i \in Int
      BY <1>1, <1>4
    <2>2. FirstOf(j) \in Int /\ FirstOf(j + 1) \in Int
      BY <2>1, FirstOfType
    <2>3. i < j => FirstOf(i + 1) <= FirstOf(j)
      BY <2>1, FirstOfGrows
    <2>4. j < i => FirstOf(j + 1) <= FirstOf(i)
      BY <2>1, FirstOfGrows
    <2> HIDE DEF R
    <2> QED BY <1>1, <1>2, <1>5, <2>1, <2>2, <2>3, <2>4
  <1>6. MonthOf(n) = CHOOSE j \in R : P(j)
    BY DEF MonthOf
  <1> HIDE DEF R, P
  <1> QED BY <1>1, <1>3, <1>5, <1>6

\* A date in month i.
DateIn(i, day) == [year |-> i \div 12, month |-> (i % 12) + 1, day |-> day]

LEMMA ToDateIs ==
  ASSUME NEW n, NEW i, InMonth(n, i)
  PROVE  ToDate(n) = DateIn(i, n - FirstOf(i) + 1)
  BY MonthOfIs DEF ToDate, DateIn

\* To go a day back is to go back from a number to the one before it.
LEMMA DayBeforeIs ==
  ASSUME NEW n \in Nat, n > 0
  PROVE  DayBefore(ToDate(n)) = ToDate(n - 1)
  <1>1. PICK i : InMonth(n, i)
    BY MonthExists
  <1>2. i \in Nat /\ FirstOf(i) <= n /\ n < FirstOf(i + 1)
    BY <1>1 DEF InMonth
  <1>3. FirstOf(i) \in Int /\ FirstOf(i + 1) \in Int
    BY <1>2, FirstOfType
  <1> DEFINE day == n - FirstOf(i) + 1
             t   == DateIn(i, day)
  <1>4. ToDate(n) = t /\ day \in Int /\ day >= 1
    BY <1>1, <1>2, <1>3, ToDateIs
  <1>5. CASE day > 1
    <2>1. InMonth(n - 1, i)
      BY <1>2, <1>3, <1>5 DEF InMonth
    <2>2. ToDate(n - 1) = DateIn(i, (n - 1) - FirstOf(i) + 1)
      BY <2>1, ToDateIs
    <2>3. (n - 1) - FirstOf(i) + 1 = day - 1
      BY <1>3
    <2> HIDE DEF day
    <2>4. DayBefore(t) = DateIn(i, day - 1)
      BY <1>4, <1>5 DEF DayBefore, DateIn
    <2> QED BY <1>4, <2>2, <2>3, <2>4
  <1>6. CASE day = 1
    <2>1. n = FirstOf(i) /\ i # 0
      BY <1>2, <1>3, <1>6, FirstOfZero
    <2> DEFINE h == i - 1
    <2>2. h \in Nat /\ h + 1 = i
      BY <1>2, <2>1
    <2>3. FirstOf(i) = FirstOf(h) + DaysIn(h) /\ DaysIn(h) \in 28..31 /\ FirstOf(h) \in Int
      BY <2>2, FirstOfNext, FirstOfType
    <2>4. InMonth(n - 1, h)
      BY <1>2, <2>1, <2>2, <2>3 DEF InMonth
    <2>5. ToDate(n - 1) = DateIn(h, (n - 1) - FirstOf(h) + 1)
      BY <2>4, ToDateIs
    <2>6. (n - 1) - FirstOf(h) + 1 = DaysIn(h)
      BY <2>1, <2>3
    <2>7. PICK y, m : IsMonth(i, y, m)
      BY <1>2, YearAndMonth
    <2>8. y \in Int /\ m \in 0..11 /\ i = 12 * y + m /\ i \div 12 = y /\ i % 12 = m
      BY <2>7, ByYear DEF IsMonth
    <2>9. t = [year |-> y, month |-> m + 1, day |-> 1]
      BY <1>6, <2>8 DEF DateIn
    <2>10. CASE m > 0
      <3>1. IsMonth(h, y, m - 1)
        BY <2>2, <2>8, <2>10 DEF IsMonth
      <3>2. h \div 12 = y /\ h % 12 = m - 1
        BY <3>1, ByYear
      <3>3. 12 * y + (m + 1) - 2 = h
        BY <2>8
      <3>4. t.day = 1 /\ t.month = m + 1 /\ t.year = y
        BY <2>9
      <3>5. DayBefore(t) = [t EXCEPT !.month = t.month - 1, !.day = DaysIn(h)]
        <4> HIDE DEF t
        <4>1. t.day = 1 /\ t.month > 1 /\ ~(t.day > 1)
          BY <2>8, <2>10, <3>4
        <4>2. DayBefore(t) = [t EXCEPT !.month = t.month - 1,
                                       !.day = DaysIn(12 * t.year + t.month - 2)]
          BY ONLY <4>1 DEF DayBefore
        <4>3. 12 * t.year + t.month - 2 = h
          BY <3>3, <3>4
        <4> QED BY ONLY <4>2, <4>3
      <3>6. DayBefore(t) = [year |-> y, month |-> m, day |-> DaysIn(h)]
        <4>1. (m + 1) - 1 = m
          BY <2>8
        <4> HIDE DEF t
        <4> QED BY <2>9, <3>4, <3>5, <4>1
      <3>7. DayBefore(t) = DateIn(h, DaysIn(h))
        <4>1. (m - 1) + 1 = m
          BY <2>8
        <4> QED BY <3>2, <3>6, <4>1 DEF DateIn
      <3> QED BY <1>4, <2>5, <2>6, <3>7
    <2>11. CASE m = 0
      <3>1. IsMonth(h, y - 1, 11)
        BY <2>2, <2>8, <2>11 DEF IsMonth
      <3>2. h \div 12 = y - 1 /\ h % 12 = 11 /\ DaysIn(h) = 31
        BY <3>1, ByYear DEF Days
      <3>3. DayBefore(t) = [year |-> y - 1, month |-> 12, day |-> 31]
        BY <2>9, <2>11 DEF DayBefore
      <3>4. DayBefore(t) = DateIn(h, DaysIn(h))
        BY <3>2, <3>3 DEF DateIn
      <3> QED BY <1>4, <2>5, <2>6, <3>4
    <2> QED BY <2>8, <2>10, <2>11
  <1> QED BY <1>4, <1>5, <1>6

\* Functions on 0..n that agree at 0, and at each number if they do at the one
\* before it, are the same.
LEMMA SameFrom0 ==
  ASSUME NEW n \in Nat, NEW g, NEW h, g[0] = h[0],
         \A k \in 1..n : g[k - 1] = h[k - 1] => g[k] = h[k]
  PROVE  \A k \in 0..n : g[k] = h[k]
  <1> DEFINE B == {k \in 0..n : g[k] # h[k]}
  <1> SUFFICES ASSUME B # {} PROVE FALSE
    OBVIOUS
  <1>1. B \subseteq Int /\ IsFiniteSet(B)
    <2>1. IsFiniteSet(0..n) /\ B \subseteq 0..n
      BY FS_Interval
    <2>2. 0..n \subseteq Int
      OBVIOUS
    <2> HIDE DEF B
    <2> QED BY <2>1, <2>2, FS_Subset, Zenon
  <1> DEFINE k == Min(B)
  <1>2. k \in B /\ \A b \in B : k =< b
    <2> HIDE DEF B
    <2> QED BY <1>1, MinIsMin
  <1> HIDE DEF k
  <1>3. k \in 0..n /\ k # 0 /\ g[k] # h[k]
    BY <1>2
  <1>4. k - 1 \in 0..n /\ k - 1 \notin B
    BY <1>2, <1>3
  <1> QED BY <1>3, <1>4

IsBack(t, n, g) == g = [k \in 0..n |-> IF k = 0 THEN t ELSE DayBefore(g[k - 1])]

LEMMA DaysBeforeIs ==
  ASSUME NEW n \in Nat, NEW b \in 0..n
  PROVE  DaysBefore(ToDate(n), b) = ToDate(n - b)
  <1> DEFINE t == ToDate(n)
             w == [k \in 0..b |-> ToDate(n - k)]
             g == CHOOSE h : IsBack(t, b, h)
  <1>1. ASSUME NEW k \in 1..b
        PROVE  w[k] = DayBefore(w[k - 1])
    <2>1. n - (k - 1) \in Nat /\ n - (k - 1) > 0 /\ (n - (k - 1)) - 1 = n - k
      OBVIOUS
    <2>2. DayBefore(ToDate(n - (k - 1))) = ToDate((n - (k - 1)) - 1)
      BY <2>1, DayBeforeIs
    <2>3. k - 1 \in 0..b /\ k \in 0..b
      OBVIOUS
    <2> QED BY <2>1, <2>2, <2>3
  <1>2. w[0] = t
    <2>1. 0 \in 0..b /\ n - 0 = n
      OBVIOUS
    <2> QED BY <2>1
  <1>3. IsBack(t, b, w)
    <2>1. \A k \in 0..b : w[k] = IF k = 0 THEN t ELSE DayBefore(w[k - 1])
      <3> HIDE DEF w, t
      <3> QED BY <1>1, <1>2
    <2>2. w = [k \in 0..b |-> w[k]]
      OBVIOUS
    <2> HIDE DEF w
    <2>3. w = [k \in 0..b |-> IF k = 0 THEN t ELSE DayBefore(w[k - 1])]
      BY ONLY <2>1, <2>2
    <2> QED BY ONLY <2>3 DEF IsBack
  <1>4. IsBack(t, b, g)
    BY <1>3
  <1> HIDE DEF g, t
  <1>5. g[0] = t /\ \A k \in 1..b : g[k] = DayBefore(g[k - 1])
    BY <1>4 DEF IsBack
  <1>6. g[b] = w[b]
    <2> HIDE DEF w
    <2> QED BY <1>1, <1>2, <1>5, SameFrom0
  <1>7. DaysBefore(t, b) = g[b]
    BY DEF DaysBefore, g, IsBack
  <1> QED BY <1>6, <1>7 DEF t

FirstOfMonth(t) == [t EXCEPT !.day = 1]

IsFirsts(t, n, g) ==
  g = [k \in 0..n |-> IF k = 0 THEN FirstOfMonth(t) ELSE FirstOfMonth(DayBefore(g[k - 1]))]

LEMMA FirstOfNat ==
  ASSUME NEW i \in Nat
  PROVE  FirstOf(i) \in Nat
  <1>1. FirstOf(i) \in Int
    BY FirstOfType
  <1>2. i = 0 => FirstOf(i) = 0
    BY FirstOfZero
  <1>3. 3043 * (i - 1) <= 100 * FirstOf(i)
    BY FirstOfBounds
  <1> QED BY <1>1, <1>2, <1>3

LEMMA InItsMonth ==
  ASSUME NEW i \in Nat
  PROVE  /\ InMonth(FirstOf(i), i) /\ ToDate(FirstOf(i)) = DateIn(i, 1)
         /\ i > 0 => InMonth(FirstOf(i) - 1, i - 1)
  <1>1. FirstOf(i) \in Nat
    BY FirstOfNat
  <1>2. FirstOf(i + 1) = FirstOf(i) + DaysIn(i) /\ DaysIn(i) \in 28..31
    BY FirstOfNext
  <1>3. InMonth(FirstOf(i), i)
    BY <1>1, <1>2 DEF InMonth
  <1>4. ToDate(FirstOf(i)) = DateIn(i, 1)
    <2>1. FirstOf(i) - FirstOf(i) + 1 = 1
      BY <1>1
    <2> QED BY <1>3, <2>1, ToDateIs
  <1>5. ASSUME i > 0
        PROVE  InMonth(FirstOf(i) - 1, i - 1)
    <2>1. i - 1 \in Nat /\ (i - 1) + 1 = i
      BY <1>5
    <2>2. /\ FirstOf(i) = FirstOf(i - 1) + DaysIn(i - 1) /\ DaysIn(i - 1) \in 28..31
          /\ FirstOf(i - 1) \in Int
      BY <2>1, FirstOfNext, FirstOfType
    <2>3. FirstOf(i - 1) >= 0
      BY <2>1, FirstOfNat
    <2> QED BY <1>1, <2>1, <2>2, <2>3 DEF InMonth
  <1> QED BY <1>3, <1>4, <1>5

LEMMA FirstsOf ==
  ASSUME NEW n, NEW i, InMonth(n, i)
  PROVE  FirstOfMonth(ToDate(n)) = ToDate(FirstOf(i))
  <1>1. ToDate(n) = DateIn(i, n - FirstOf(i) + 1) /\ ToDate(FirstOf(i)) = DateIn(i, 1)
    BY ToDateIs, InItsMonth DEF InMonth
  <1> QED BY <1>1 DEF FirstOfMonth, DateIn

LEMMA LastMonthsIs ==
  ASSUME NEW n, NEW i, InMonth(n, i), NEW b \in 1..i
  PROVE  LastMonths(ToDate(n), b)
           = [start |-> ToDate(FirstOf(i - b)), end |-> ToDate(FirstOf(i) - 1)]
  <1> DEFINE t == ToDate(n)
             w == [k \in 0..b |-> ToDate(FirstOf(i - k))]
             g == CHOOSE h : IsFirsts(t, b, h)
  <1>a. i \in Nat /\ b \in Nat
    BY DEF InMonth
  <1>1. ASSUME NEW k \in 1..b
        PROVE  w[k] = FirstOfMonth(DayBefore(w[k - 1]))
    <2> DEFINE j == i - (k - 1)
    <2>1. j \in Nat /\ j > 0 /\ j - 1 = i - k
      BY <1>a
    <2> HIDE DEF j
    <2>2. InMonth(FirstOf(j) - 1, j - 1)
      BY <2>1, InItsMonth
    <2>3. FirstOf(j) \in Nat /\ FirstOf(j) > 0
      <3>1. FirstOf(j) - 1 \in Nat
        BY <2>2 DEF InMonth
      <3>2. FirstOf(j) \in Int
        BY <2>1, FirstOfType
      <3> QED BY <3>1, <3>2
    <2>4. DayBefore(ToDate(FirstOf(j))) = ToDate(FirstOf(j) - 1)
      BY <2>3, DayBeforeIs
    <2>5. FirstOfMonth(ToDate(FirstOf(j) - 1)) = ToDate(FirstOf(j - 1))
      BY <2>2, FirstsOf
    <2>6. k - 1 \in 0..b /\ k \in 0..b
      BY <1>a
    <2>7. w[k - 1] = ToDate(FirstOf(j)) /\ w[k] = ToDate(FirstOf(j - 1))
      BY <2>1, <2>6 DEF j
    <2> HIDE DEF w
    <2> QED BY <2>4, <2>5, <2>7
  <1>2. w[0] = FirstOfMonth(t)
    <2>1. 0 \in 0..b /\ i - 0 = i
      BY <1>a
    <2>2. FirstOfMonth(t) = ToDate(FirstOf(i))
      BY FirstsOf
    <2> HIDE DEF t
    <2> QED BY <2>1, <2>2
  <1>3. IsFirsts(t, b, w)
    <2>1. \A k \in 0..b : w[k] = IF k = 0 THEN FirstOfMonth(t)
                                        ELSE FirstOfMonth(DayBefore(w[k - 1]))
      <3> HIDE DEF w, t
      <3> QED BY <1>1, <1>2
    <2>2. w = [k \in 0..b |-> w[k]]
      OBVIOUS
    <2> HIDE DEF w
    <2>3. w = [k \in 0..b |-> IF k = 0 THEN FirstOfMonth(t)
                                    ELSE FirstOfMonth(DayBefore(w[k - 1]))]
      BY ONLY <2>1, <2>2
    <2> QED BY ONLY <2>3 DEF IsFirsts
  <1>4. IsFirsts(t, b, g)
    BY <1>3
  <1> HIDE DEF g, t
  <1>5. g[0] = FirstOfMonth(t) /\ \A k \in 1..b : g[k] = FirstOfMonth(DayBefore(g[k - 1]))
    BY <1>4, <1>a DEF IsFirsts
  <1>6. g[b] = w[b] /\ g[0] = w[0]
    <2> HIDE DEF w
    <2> QED BY <1>a, <1>1, <1>2, <1>5, SameFrom0
  <1>7. LastMonths(t, b) = [start |-> g[b], end |-> DayBefore(g[0])]
    BY DEF LastMonths, g, IsFirsts, FirstOfMonth
  <1>8. w[b] = ToDate(FirstOf(i - b)) /\ w[0] = ToDate(FirstOf(i))
    BY <1>a
  <1>9. DayBefore(ToDate(FirstOf(i))) = ToDate(FirstOf(i) - 1)
    <2>1. InMonth(FirstOf(i) - 1, i - 1)
      BY <1>a, InItsMonth
    <2>2. FirstOf(i) \in Nat /\ FirstOf(i) > 0
      <3>1. FirstOf(i) - 1 \in Nat
        BY <2>1 DEF InMonth
      <3>2. FirstOf(i) \in Int
        BY <1>a, FirstOfType
      <3> QED BY <3>1, <3>2
    <2> QED BY <2>2, DayBeforeIs
  <1> HIDE DEF w
  <1> QED BY <1>6, <1>7, <1>8, <1>9 DEF t

\* The window of a day on the calendar.
Expected(d, days, months) ==
  IF months > 0 THEN LastMonths(ToDate(d), months) ELSE LastDays(ToDate(d), days)

\* A number of days or of months that does not reach back behind day 0.
Reaches(d, days, months) ==
  d \in Nat /\ days \in Nat /\ months \in Nat /\ days <= d /\ 31 * months <= d

\* start and end are that window's.
IsWindow(d, days, months, start, end) ==
  ToDate(start) = Expected(d, days, months).start /\ ToDate(end) = Expected(d, days, months).end

LEMMA MonthsOfDays ==
  ASSUME NEW n, NEW i, InMonth(n, i), NEW b \in Int, b > 0, 31 * b <= n
  PROVE  b \in 1..i
  <1>1. n \in Nat /\ i \in Nat /\ n < FirstOf(i + 1)
    BY DEF InMonth
  <1>2. FirstOf(i + 1) \in Int /\ FirstOf(i + 1) <= 31 * (i + 1)
    BY <1>1, FirstOfType, FirstOfBounds
  <1> QED BY <1>1, <1>2

\* AddDate by months from the first of a month, and by days.
LEMMA AddMonths ==
  ASSUME NEW i \in Nat, NEW b \in 1..i
  PROVE  AddDate(FirstOf(i), -b, 0) = FirstOf(i - b)
  <1>1. MonthOf(FirstOf(i)) = i
    BY InItsMonth, MonthOfIs
  <1>2. FirstOf(i) \in Int /\ FirstOf(i - b) \in Int /\ i + (-b) = i - b
    BY FirstOfType
  <1> QED BY <1>1, <1>2 DEF AddDate

LEMMA AddDays ==
  ASSUME NEW n \in Nat, NEW b \in Int
  PROVE  AddDate(n, 0, b) = n + b
  <1>1. PICK i : InMonth(n, i)
    BY MonthExists
  <1>2. MonthOf(n) = i /\ i \in Nat
    BY <1>1, MonthOfIs DEF InMonth
  <1>3. FirstOf(i) \in Int /\ i + 0 = i
    BY <1>2, FirstOfType
  <1> QED BY <1>2, <1>3 DEF AddDate

\* Both computations of a window of months.
LEMMA MonthWindow ==
  ASSUME NEW d, NEW days, NEW months, Reaches(d, days, months), months > 0
  PROVE  \E s, e : /\ DebugWindow(d, days, months) = [start |-> s, end |-> e]
                   /\ months <= MaxMonths =>
                        BillingWindowUTC(d, days, months)
                          = [start |-> s, end |-> e, days |-> (e - s) + 1]
                   /\ months > MaxMonths => BillingWindowUTC(d, days, months) = Invalid
                   /\ IsWindow(d, days, months, s, e)
                   /\ s \in Nat /\ e \in Nat /\ s <= e
  <1>1. d \in Nat /\ months \in Nat /\ 31 * months <= d
    BY DEF Reaches
  <1>2. PICK i : InMonth(d, i)
    BY <1>1, MonthExists
  <1>3. i \in Nat /\ MonthOf(d) = i /\ months \in 1..i
    BY <1>1, <1>2, MonthOfIs, MonthsOfDays DEF InMonth
  <1> DEFINE s == FirstOf(i - months)
             e == FirstOf(i) - 1
  <1>4. s \in Nat /\ FirstOf(i) \in Nat
    BY <1>3, FirstOfNat
  <1>5. s < FirstOf(i)
    <2>1. i - months \in Int /\ i - months < i
      BY <1>3
    <2>2. FirstOf((i - months) + 1) <= FirstOf(i)
      BY <1>3, <2>1, FirstOfGrows
    <2>3. /\ FirstOf((i - months) + 1) = s + DaysIn(i - months)
          /\ DaysIn(i - months) \in 28..31
      BY <2>1, FirstOfNext
    <2> QED BY <1>4, <2>2, <2>3
  <1>6. AddDate(FirstOf(i), -months, 0) = s
    BY <1>3, AddMonths
  <1>7. AddDate(FirstOf(i), 0, -1) = e
    BY <1>4, AddDays
  <1>8. DebugWindow(d, days, months) = [start |-> s, end |-> e]
    BY <1>3, <1>6, <1>7 DEF DebugWindow
  <1>9. /\ months <= MaxMonths => BillingWindowUTC(d, days, months)
                                    = [start |-> s, end |-> e, days |-> (e - s) + 1]
        /\ months > MaxMonths => BillingWindowUTC(d, days, months) = Invalid
    <2> HIDE DEF s, e
    <2>1. BillingWindowUTC(d, days, months)
            = IF months > MaxMonths THEN Invalid
              ELSE [start |-> s, end |-> e, days |-> (e - s) + 1]
      BY <1>3, <1>6, <1>7 DEF BillingWindowUTC
    <2> QED BY <1>1, <2>1 DEF MaxMonths
  <1>10. IsWindow(d, days, months, s, e)
    <2>1. Expected(d, days, months) = [start |-> ToDate(s), end |-> ToDate(e)]
      BY <1>2, <1>3, LastMonthsIs DEF Expected
    <2> HIDE DEF s, e
    <2> QED BY <2>1 DEF IsWindow
  <1>11. e \in Nat /\ s <= e
    BY <1>4, <1>5
  <1> HIDE DEF s, e
  <1> QED BY <1>4, <1>8, <1>9, <1>10, <1>11

LEMMA DayWindow ==
  ASSUME NEW d, NEW days, NEW months, Reaches(d, days, months), months = 0, days > 0
  PROVE  LET s == d - (days - 1) IN
         /\ DebugWindow(d, days, months) = [start |-> s, end |-> d]
         /\ BillingWindowUTC(d, days, months) = [start |-> s, end |-> d, days |-> days]
         /\ IsWindow(d, days, months, s, d)
         /\ s \in Nat /\ s <= d /\ (d - s) + 1 = days
  <1> DEFINE s == d - (days - 1)
  <1>1. d \in Nat /\ days \in Nat /\ days <= d
    BY DEF Reaches
  <1>2. s \in Nat /\ s <= d /\ (d - s) + 1 = days /\ days - 1 \in 0..d
    BY <1>1
  <1>3. AddDate(d, 0, -(days - 1)) = s
    <2>1. -(days - 1) \in Int /\ d + (-(days - 1)) = s
      BY <1>1
    <2> QED BY <1>1, <2>1, AddDays
  <1>4. ToDate(s) = DaysBefore(ToDate(d), days - 1)
    BY <1>1, <1>2, DaysBeforeIs
  <1> HIDE DEF s
  <1>5. DebugWindow(d, days, months) = [start |-> s, end |-> d]
    BY <1>3 DEF DebugWindow
  <1>6. BillingWindowUTC(d, days, months) = [start |-> s, end |-> d, days |-> days]
    BY <1>1, <1>3 DEF BillingWindowUTC
  <1>7. IsWindow(d, days, months, s, d)
    <2>1. Expected(d, days, months) = [start |-> ToDate(s), end |-> ToDate(d)]
      BY <1>4 DEF Expected, LastDays
    <2> QED BY <2>1 DEF IsWindow
  <1> QED BY <1>2, <1>5, <1>6, <1>7 DEF s

\* What the two facts say together of a request.
LEMMA TheWindow ==
  ASSUME NEW d, NEW days, NEW months, Reaches(d, days, months), days > 0 \/ months > 0,
         NEW w, w = BillingWindowUTC(d, days, months), w # Invalid
  PROVE  /\ IsWindow(d, days, months, w.start, w.end)
         /\ DaysBefore(ToDate(w.end), w.days - 1) = ToDate(w.start)
  <1>1. PICK s, e : /\ w = [start |-> s, end |-> e, days |-> (e - s) + 1]
                    /\ IsWindow(d, days, months, s, e)
                    /\ s \in Nat /\ e \in Nat /\ s <= e
    <2>1. CASE months > 0
      <3>1. months <= MaxMonths \/ months > MaxMonths
        BY DEF Reaches, MaxMonths
      <3> QED BY <2>1, <3>1, MonthWindow
    <2>2. CASE ~(months > 0)
      <3>1. months = 0 /\ days > 0 /\ d \in Nat
        BY <2>2 DEF Reaches
      <3> QED BY <3>1, DayWindow
    <2> QED BY <2>1, <2>2
  <1>2. w.start = s /\ w.end = e /\ w.days = (e - s) + 1
    BY <1>1
  <1>3. DaysBefore(ToDate(e), e - s) = ToDate(e - (e - s))
    <2>1. e - s \in 0..e
      BY <1>1
    <2> QED BY <1>1, <2>1, DaysBeforeIs
  <1>4. e - (e - s) = s /\ w.days - 1 = e - s
    BY <1>1, <1>2
  <1> QED BY <1>1, <1>2, <1>3, <1>4

LEMMA TheDebugWindow ==
  ASSUME NEW d, NEW days, NEW months, Reaches(d, days, months), days > 0 \/ months > 0,
         NEW w, w = DebugWindow(d, days, months)
  PROVE  IsWindow(d, days, months, w.start, w.end)
  <1>1. \E s, e : w = [start |-> s, end |-> e] /\ IsWindow(d, days, months, s, e)
    <2>1. CASE months > 0
      BY <2>1, MonthWindow
    <2>2. CASE ~(months > 0)
      <3>1. months = 0 /\ days > 0
        BY <2>2 DEF Reaches
      <3> QED BY <3>1, DayWindow
    <2> QED BY <2>1, <2>2
  <1> QED BY <1>1

-----------------------------------------------------------------------------
(* The days that are asked for.                                            *)

MetaFields == {"days", "months", "start", "end", "withBilling", "unusedWithBilling"}

\* p asks for the window of the day on which it asks, and reports it.
Asks(p) ==
  /\ IsWindow(asked[p].on, flags[p].days, flags[p].months, asked[p].start, asked[p].end)
  /\ pc[p] = "billing" =>
       /\ rep[p].meta.start = asked[p].start /\ rep[p].meta.end = asked[p].end
       /\ DaysBefore(ToDate(asked[p].end), rep[p].meta.days - 1) = ToDate(asked[p].start)

\* The flags are good once they are parsed, and there is a window to ask for
\* where billing is asked for.
Window(p) ==
  /\ pc[p] \notin {"flags", "exited"} => FlagsAreGood(flags[p])
  /\ pc[p] \in {"debug", "window"} => HasBilling(flags[p])
  /\ pc[p] = "window" => DOMAIN rep[p].meta = MetaFields
  /\ pc[p] \in {"flags", "debug", "scan", "window", "team", "mkdir", "write", "exited"} =>
       asked[p] = Nil
  /\ asked[p] # Nil => Asks(p)

WindowInv == TypeInv /\ \A p \in Procs : Window(p)

LEMMA TodayReaches ==
  ASSUME TypeInv, NEW p \in Procs, FlagsAreGood(flags[p]), HasBilling(flags[p])
  PROVE  Reaches(today, flags[p].days, flags[p].months)
         /\ (flags[p].days > 0 \/ flags[p].months > 0)
  <1>1. flags[p] \in Invocations[p]
    BY DEF TypeInv, Shape
  <1>2. PICK d \in Midnights : today = d \/ today = d + 1
    BY DEF TypeInv
  <1>3. /\ flags[p].days \in Int /\ flags[p].months \in Int
        /\ flags[p].days <= d /\ 31 * flags[p].months <= d
    BY <1>1, WindowAssumption
  <1>4. d \in Nat
    BY MidnightsAssumption
  <1>5. flags[p].days >= 0 /\ flags[p].months >= 0
    BY DEF FlagsAreGood
  <1>6. flags[p].days > 0 \/ flags[p].months > 0
    BY DEF HasBilling
  <1> QED BY <1>2, <1>3, <1>4, <1>5, <1>6 DEF Reaches

\* A step that another takes.
LEMMA WindowOfOthers ==
  ASSUME NEW q, Window(q), flags' = flags,
         pc'[q] = pc[q], rep'[q] = rep[q], asked'[q] = asked[q]
  PROVE  Window(q)'
  BY DEF Window, Asks

Others(p) ==
  \A q \in Procs \ {p} : pc'[q] = pc[q] /\ rep'[q] = rep[q] /\ asked'[q] = asked[q]

LEMMA WindowReturn ==
  ASSUME TypeInv, NEW p \in Procs, NEW status, Return(p, status)
  PROVE  Window(p)' /\ Others(p)
  <1>1. /\ pc'[p] = "exited" /\ asked'[p] = Nil
        /\ \A q \in Procs \ {p} : pc'[q] = pc[q]
    BY DEF TypeInv, Types, Return
  <1>2. \A q \in Procs \ {p} : rep'[q] = rep[q] /\ asked'[q] = asked[q]
    BY DEF TypeInv, Return
  <1> QED BY <1>1, <1>2 DEF Window, Others

\* A step to a place where nothing is asked.
LEMMA WindowWalk ==
  ASSUME TypeInv, NEW p \in Procs, Window(p), NEW from, NEW to, Goto(p, from, to),
         flags' = flags, FlagsAreGood(flags[p]),
         to \in {"debug", "scan", "team", "mkdir", "write"},
         to = "debug" => HasBilling(flags[p]),
         asked'[p] = Nil,
         \A q \in Procs \ {p} : rep'[q] = rep[q] /\ asked'[q] = asked[q]
  PROVE  Window(p)' /\ Others(p)
  <1>1. pc'[p] = to /\ \A q \in Procs \ {p} : pc'[q] = pc[q]
    BY DEF TypeInv, Types, Goto
  <1>2. Window(p)'
    BY <1>1 DEF Window
  <1> QED BY <1>1, <1>2 DEF Others

LEMMA WindowDebug ==
  ASSUME TypeInv, NEW p \in Procs, Window(p), DebugBilling(p)
  PROVE  Window(p)' /\ Others(p)
  <1> DEFINE w == DebugWindow(today, flags[p].days, flags[p].months)
  <1>1. FlagsAreGood(flags[p]) /\ HasBilling(flags[p])
    BY DEF DebugBilling, Goto, Window
  <1>2. IsWindow(today, flags[p].days, flags[p].months, w.start, w.end)
    <2>1. /\ Reaches(today, flags[p].days, flags[p].months)
          /\ flags[p].days > 0 \/ flags[p].months > 0
      BY <1>1, TodayReaches
    <2> QED BY <2>1, TheDebugWindow
  <1>3. Goto(p, "debug", "debugging") /\ Ask(p, w) /\ UNCHANGED <<flags, rep>>
    BY DEF DebugBilling
  <1> HIDE DEF w
  <1>4. pc'[p] = "debugging" /\ \A q \in Procs \ {p} : pc'[q] = pc[q]
    BY <1>3 DEF TypeInv, Types, Goto
  <1>5. /\ asked'[p] = [on |-> today, start |-> w.start, end |-> w.end]
        /\ \A q \in Procs \ {p} : asked'[q] = asked[q]
    BY <1>3 DEF TypeInv, Ask
  <1>6. asked'[p].on = today /\ asked'[p].start = w.start /\ asked'[p].end = w.end
    BY <1>5
  <1>7. Asks(p)'
    BY <1>2, <1>3, <1>4, <1>6 DEF Asks
  <1>8. Window(p)'
    BY <1>1, <1>3, <1>4, <1>7 DEF Window
  <1> QED BY <1>3, <1>4, <1>5, <1>8 DEF Others

LEMMA WindowCorrelated ==
  ASSUME TypeInv, NEW p \in Procs, Window(p), Correlated(p)
  PROVE  Window(p)' /\ Others(p)
  <1>1. PICK hit \in SUBSET Catalog[p] :
          rep' = [rep EXCEPT ![p] =
            [used   |-> hit,
             unused |-> Catalog[p] \ hit,
             split  |-> [k \in {} |-> 0],
             meta   |-> [days |-> flags[p].days, months |-> flags[p].months,
                         start |-> 0, end |-> 0, withBilling |-> 0, unusedWithBilling |-> 0]]]
    BY Zenon DEF Correlated
  <1>2. DOMAIN rep'[p].meta = MetaFields /\ \A q \in Procs \ {p} : rep'[q] = rep[q]
    BY <1>1 DEF TypeInv, MetaFields
  <1>3. /\ pc[p] = "scan" /\ asked' = asked /\ flags' = flags
        /\ pc' = [pc EXCEPT ![p] = IF HasBilling(flags[p]) THEN "window" ELSE "team"]
    BY DEF Correlated, Goto
  <1>4. FlagsAreGood(flags[p]) /\ asked'[p] = Nil
    BY <1>3 DEF Window
  <1>5. /\ \/ pc'[p] = "window" /\ HasBilling(flags[p])
           \/ pc'[p] = "team"
        /\ \A q \in Procs \ {p} : pc'[q] = pc[q]
    BY <1>3 DEF TypeInv, Types
  <1>6. Window(p)'
    BY <1>2, <1>3, <1>4, <1>5 DEF Window
  <1> QED BY <1>2, <1>3, <1>5, <1>6 DEF Others

LEMMA WindowAskBilling ==
  ASSUME TypeInv, NEW p \in Procs, Window(p), AskBilling(p)
  PROVE  Window(p)' /\ Others(p)
  <1> DEFINE w == BillingWindowUTC(today, flags[p].days, flags[p].months)
  <1>1. /\ pc[p] = "window" /\ flags' = flags
        /\ FlagsAreGood(flags[p]) /\ HasBilling(flags[p]) /\ asked[p] = Nil
        /\ DOMAIN rep[p].meta = MetaFields
    BY DEF AskBilling, Goto, Window
  <1>2. CASE w = Invalid
    <2>1. Goto(p, "window", "team") /\ UNCHANGED <<rep, asked>>
      BY <1>2 DEF AskBilling
    <2> HIDE DEF w
    <2> QED BY <1>1, <2>1, WindowWalk
  <1>3. CASE w # Invalid
    <2>1. /\ IsWindow(today, flags[p].days, flags[p].months, w.start, w.end)
          /\ DaysBefore(ToDate(w.end), w.days - 1) = ToDate(w.start)
      <3>1. /\ Reaches(today, flags[p].days, flags[p].months)
            /\ flags[p].days > 0 \/ flags[p].months > 0
        BY <1>1, TodayReaches
      <3> QED BY <1>3, <3>1, TheWindow
    <2>2. /\ Goto(p, "window", "billing")
          /\ Ask(p, w)
          /\ rep' = [rep EXCEPT ![p].meta.days = w.days,
                                ![p].meta.start = w.start, ![p].meta.end = w.end]
      BY <1>3 DEF AskBilling
    <2> HIDE DEF w
    <2>3. pc'[p] = "billing" /\ \A q \in Procs \ {p} : pc'[q] = pc[q]
      BY <2>2 DEF TypeInv, Types, Goto
    <2>4. /\ asked'[p] = [on |-> today, start |-> w.start, end |-> w.end]
          /\ \A q \in Procs \ {p} : asked'[q] = asked[q]
      BY <2>2 DEF TypeInv, Ask
    <2>5. asked'[p].on = today /\ asked'[p].start = w.start /\ asked'[p].end = w.end
      BY <2>4
    <2>6. /\ rep'[p].meta.days = w.days
          /\ rep'[p].meta.start = w.start /\ rep'[p].meta.end = w.end
          /\ \A q \in Procs \ {p} : rep'[q] = rep[q]
      <3>1. DOMAIN rep = Procs /\ DOMAIN rep[p] = {"used", "unused", "split", "meta"}
        BY <1>1 DEF TypeInv, Shape, IsReport
      <3> QED BY <1>1, <2>2, <3>1 DEF MetaFields
    <2>7. Asks(p)'
      BY <1>1, <2>1, <2>5, <2>6 DEF Asks
    <2>8. Window(p)'
      BY <1>1, <2>3, <2>7 DEF Window
    <2> QED BY <2>3, <2>4, <2>6, <2>8 DEF Others
  <1> QED BY <1>2, <1>3

LEMMA WindowBillingReturns ==
  ASSUME TypeInv, NEW p \in Procs, Window(p), BillingReturns(p)
  PROVE  Window(p)' /\ Others(p)
  <1>1. /\ Goto(p, "billing", "team") /\ asked' = [asked EXCEPT ![p] = Nil]
        /\ pc[p] = "billing" /\ flags' = flags
    BY DEF BillingReturns, Goto
  <1>2. \A q \in Procs \ {p} : rep'[q] = rep[q]
    BY AnswerFacts
  <1>3. asked'[p] = Nil /\ \A q \in Procs \ {p} : asked'[q] = asked[q]
    BY <1>1 DEF TypeInv
  <1>4. FlagsAreGood(flags[p])
    BY <1>1 DEF Window
  <1>5. Goto(p, "billing", "team") /\ flags' = flags
    BY <1>1
  <1> QED BY <1>2, <1>3, <1>4, <1>5, WindowWalk

LEMMA WindowRun ==
  ASSUME TypeInv, NEW p \in Procs, Window(p), Run(p)
  PROVE  Window(p)' /\ Others(p) /\ flags' = flags
  <1>a. DOMAIN rep = Procs
    BY DEF TypeInv
  <1>1. CASE UsageError(p)
    BY <1>1, WindowReturn DEF UsageError
  <1>2. CASE FlagsParsed(p)
    <2>1. PICK to \in {"debug", "scan"} : /\ to = IF flags[p].debug THEN "debug" ELSE "scan"
                                          /\ Goto(p, "flags", to)
      BY <1>2 DEF FlagsParsed
    <2>2. /\ UNCHANGED <<flags, rep, asked>> /\ FlagsAreGood(flags[p]) /\ pc[p] = "flags"
          /\ to = "debug" => HasBilling(flags[p])
      BY <1>2, <2>1 DEF FlagsParsed, Goto
    <2>3. asked'[p] = Nil
      BY <2>2 DEF Window
    <2> QED BY <2>1, <2>2, <2>3, WindowWalk
  <1>3. CASE ClientFails(p)
    BY <1>3, WindowReturn DEF ClientFails
  <1>4. CASE DebugBilling(p)
    BY <1>4, WindowDebug DEF DebugBilling
  <1>5. CASE DebugEnds(p)
    BY <1>5, WindowReturn DEF DebugEnds
  <1>6. CASE ScanFails(p)
    BY <1>6, WindowReturn DEF ScanFails
  <1>7. CASE Correlated(p)
    BY <1>7, WindowCorrelated DEF Correlated
  <1>8. CASE AskBilling(p)
    BY <1>8, WindowAskBilling DEF AskBilling
  <1>9. CASE BillingReturns(p)
    BY <1>9, WindowBillingReturns DEF BillingReturns
  <1>10. CASE ResolveTeamFilenamePrefix(p)
    <2>1. Goto(p, "team", "mkdir") /\ pc[p] = "team" /\ UNCHANGED <<flags, rep, asked>>
      BY <1>10 DEF ResolveTeamFilenamePrefix, Goto
    <2>2. asked'[p] = Nil /\ FlagsAreGood(flags[p])
      BY <2>1 DEF Window
    <2> QED BY <2>1, <2>2, WindowWalk
  <1>11. CASE MkdirAll(p)
    <2>1. /\ Goto(p, "mkdir", "write") /\ pc[p] = "mkdir" /\ UNCHANGED <<flags, asked>>
          /\ rep' = [rep EXCEPT ![p] = Nil]
      BY <1>11 DEF MkdirAll, Goto
    <2>2. asked'[p] = Nil /\ FlagsAreGood(flags[p])
      BY <2>1 DEF Window
    <2>3. \A q \in Procs \ {p} : rep'[q] = rep[q]
      BY <1>a, <2>1
    <2> QED BY <2>1, <2>2, <2>3, WindowWalk
  <1>12. CASE MkdirFails(p)
    BY <1>12, WindowReturn DEF MkdirFails
  <1>13. CASE WriteFile(p)
    <2>1. UNCHANGED <<pc, flags, rep, asked>>
      BY <1>13 DEF WriteFile
    <2> QED BY <2>1, WindowOfOthers DEF Others
  <1>14. CASE WriteFails(p)
    BY <1>14, WindowReturn DEF WriteFails
  <1>15. CASE Finish(p)
    BY <1>15, WindowReturn DEF Finish
  <1>16. CASE Kill(p)
    BY <1>16, WindowReturn DEF Kill
  <1> QED
    BY <1>1, <1>2, <1>3, <1>4, <1>5, <1>6, <1>7, <1>8, <1>9, <1>10, <1>11, <1>12,
       <1>13, <1>14, <1>15, <1>16 DEF Run

LEMMA WindowInit == Init => WindowInv
  <1> SUFFICES ASSUME Init PROVE WindowInv
    OBVIOUS
  <1>1. ASSUME NEW p \in Procs PROVE Window(p)
    BY DEF Init, Window
  <1> QED BY <1>1, TypeInit DEF WindowInv

LEMMA WindowNext == ASSUME WindowInv, [Next]_vars PROVE WindowInv'
  <1>1. TypeInv /\ TypeInv'
    BY TypeNext DEF WindowInv
  <1>2. ASSUME NEW q \in Procs PROVE Window(q)'
    <2>1. Window(q)
      BY DEF WindowInv
    <2>2. CASE UNCHANGED vars \/ Tick
      BY <2>1, <2>2, WindowOfOthers DEF vars, Tick
    <2>3. ASSUME NEW p \in Procs, Run(p)
          PROVE  Window(q)'
      <3>1. Window(p)' /\ Others(p) /\ flags' = flags
        BY <1>1, <2>3, WindowRun DEF WindowInv
      <3>2. CASE q = p
        BY <3>1, <3>2
      <3>3. CASE q # p
        BY <2>1, <3>1, <3>3, WindowOfOthers DEF Others
      <3> QED BY <3>2, <3>3
    <2> QED BY <2>2, <2>3 DEF Next
  <1> QED BY <1>1, <1>2 DEF WindowInv

LEMMA WindowInvOK == WindowInv => WindowIsOfBillingDay
  <1> SUFFICES ASSUME WindowInv, NEW p \in Procs, asked[p] # Nil
               PROVE  LET t == ToDate(asked[p].on)
                          w == IF flags[p].months > 0 THEN LastMonths(t, flags[p].months)
                                                      ELSE LastDays(t, flags[p].days)
                      IN  /\ ToDate(asked[p].start) = w.start
                          /\ ToDate(asked[p].end) = w.end
                          /\ pc[p] = "billing" =>
                               /\ rep[p].meta.start = asked[p].start
                               /\ rep[p].meta.end = asked[p].end
                               /\ DaysBefore(w.end, rep[p].meta.days - 1) = w.start
    BY Zenon DEF WindowIsOfBillingDay
  <1>1. Asks(p)
    BY DEF WindowInv, Window
  <1> DEFINE w == Expected(asked[p].on, flags[p].days, flags[p].months)
  <1>2. ToDate(asked[p].start) = w.start /\ ToDate(asked[p].end) = w.end
    BY <1>1 DEF Asks, IsWindow
  <1>3. pc[p] = "billing" =>
          /\ rep[p].meta.start = asked[p].start /\ rep[p].meta.end = asked[p].end
          /\ DaysBefore(w.end, rep[p].meta.days - 1) = w.start
    BY <1>1, <1>2 DEF Asks
  <1> QED BY <1>2, <1>3, Zenon DEF Expected

\* The window that is asked for, and reported, is that of the calendar on the
\* day of the request, whatever the day and the flags.
THEOREM WindowOfDay == Spec => []WindowIsOfBillingDay
  <1>1. WindowInv /\ [Next]_vars => WindowInv'
    BY WindowNext
  <1> QED
    BY <1>1, WindowInit, WindowInvOK, PTL DEF Spec

-----------------------------------------------------------------------------
(* The lists of a report.                                                  *)

\* Series by cost.
CostsMoreOn(S) == {a \in S \X S : CostsMore(a[1], a[2])}

\* Of some series, each has a key of its own.
Keyed(ss) == \A s, t \in ss : s.series = t.series => s = t

LEMMA UnitsAreNat == \A s \in ReportSeries : UnitUsageOf(s.billing) \in Nat /\ s.series \in Nat
  BY DEF ReportSeries, SeriesBilling, UnitUsageOf

LEMMA SortUnusedFacts ==
  ASSUME NEW ss, ss \subseteq ReportSeries, IsFiniteSet(ss), Keyed(ss)
  PROVE  LET l == SortUnusedByCost(ss)
         IN  /\ IsListing(l, ss)
             /\ \A i, j \in DOMAIN l : i < j => CostsMore(l[i], l[j])
  <1> DEFINE R == CostsMoreOn(ss)
             n == Cardinality(ss)
             Good(l) == \A i, j \in DOMAIN l : i < j => CostsMore(l[i], l[j])
             l == CHOOSE list \in SetToSeqs(ss) : Good(list)
  <1>1. \A s, t \in ss : <<s, t>> \in R <=> CostsMore(s, t)
    BY DEF CostsMoreOn
  <1>2. IsOrderOn(R, ss)
    <2>1. \A s \in ss : UnitUsageOf(s.billing) \in Nat /\ s.series \in Nat
      BY UnitsAreNat
    <2>2. \A s \in ss : ~CostsMore(s, s)
      BY <2>1 DEF CostsMore
    <2>3. \A s, t \in ss : s # t => CostsMore(s, t) \/ CostsMore(t, s)
      BY <2>1 DEF CostsMore, Keyed
    <2>4. \A s, t, v \in ss : CostsMore(s, t) /\ CostsMore(t, v) => CostsMore(s, v)
      BY <2>1 DEF CostsMore
    <2> HIDE DEF R
    <2> QED BY <1>1, <2>2, <2>3, <2>4 DEF IsOrderOn
  <1>3. PICK list : /\ IsListing(list, ss)
                    /\ \A i, j \in 1..n : i < j => <<list[i], list[j]>> \in R
    <2> HIDE DEF R
    <2> QED BY <1>2, SortedListing
  <1>4. list \in SetToSeqs(ss)
    BY <1>3, Zenon DEF IsListing, SetToSeqs
  <1>5. Good(list)
    <2>1. DOMAIN list = 1..n /\ \A i \in 1..n : list[i] \in ss
      BY <1>3 DEF IsListing
    <2> HIDE DEF R, n
    <2> QED BY <1>1, <1>3, <2>1
  <1>6. l \in SetToSeqs(ss) /\ Good(l)
    <2> HIDE DEF Good
    <2> QED BY <1>4, <1>5
  <1>7. SortUnusedByCost(ss) = l
    BY DEF SortUnusedByCost, Sorted
  <1> HIDE DEF l, Good
  <1>8. IsListing(l, ss)
    BY <1>6, Zenon DEF IsListing, SetToSeqs
  <1> QED BY <1>6, <1>7, <1>8 DEF Good

\* The rollups, and their rows by cost.
Bucket  == [n: Nat, nb: Nat, units: Nat, days: Nat]
Rollups == UNION {[X -> Bucket] : X \in SUBSET Nat}

LEMMA RollupType ==
  ASSUME NEW m \in Rollups
  PROVE  /\ DOMAIN m \subseteq Nat
         /\ m = [y \in DOMAIN m |-> m[y]]
         /\ \A y \in DOMAIN m : m[y] \in Bucket
  BY DEF Rollups

LEMMA IsRollup ==
  ASSUME NEW m, m = [y \in DOMAIN m |-> m[y]], DOMAIN m \subseteq Nat,
         \A y \in DOMAIN m : m[y] \in Bucket
  PROVE  m \in Rollups
  <1>1. m \in [DOMAIN m -> Bucket]
    BY Zenon
  <1> QED BY <1>1, Zenon DEF Rollups

RowOf(m) == [y \in DOMAIN m |-> [metric |-> y, bucket |-> m[y]]]

LEMMA RowsAreNamed ==
  ASSUME NEW m \in Rollups, IsFiniteSet(DOMAIN m)
  PROVE  Names(RowOf(m), DOMAIN m, RollupRows(m)) /\ IsFiniteSet(RollupRows(m))
  <1>1. Names(RowOf(m), DOMAIN m, RollupRows(m))
    BY DEF Names, RowOf, RollupRows
  <1> QED BY <1>1, CountNamed

LEMMA SortRollupFacts ==
  ASSUME NEW m \in Rollups, IsFiniteSet(DOMAIN m)
  PROVE  LET l == SortRollup(m)
         IN  /\ IsListing(l, RollupRows(m))
             /\ \A i, j \in DOMAIN l : i < j => Outweighs(l[i], l[j])
  <1> DEFINE S == RollupRows(m)
             R == {a \in S \X S : Outweighs(a[1], a[2])}
             n == Cardinality(S)
             Good(l) == \A i, j \in DOMAIN l : i < j => Outweighs(l[i], l[j])
             l == CHOOSE list \in SetToSeqs(S) : Good(list)
  <1>1. \A s, t \in S : <<s, t>> \in R <=> Outweighs(s, t)
    <2> HIDE DEF S
    <2> QED OBVIOUS
  <1>2. IsOrderOn(R, S) /\ IsFiniteSet(S)
    <2>1. \A s \in S : /\ s.bucket.units \in Nat /\ s.metric \in Nat
                       /\ s.bucket = m[s.metric] /\ s = [metric |-> s.metric, bucket |-> s.bucket]
      BY RollupType DEF RollupRows, Bucket
    <2> HIDE DEF S
    <2>2. \A s \in S : ~Outweighs(s, s)
      BY <2>1 DEF Outweighs
    <2>3. \A s, t \in S : s # t => Outweighs(s, t) \/ Outweighs(t, s)
      <3>1. \A s, t \in S : s.metric = t.metric => s = t
        BY <2>1
      <3>2. \A s \in S : s.bucket.units \in Nat /\ s.metric \in Nat
        BY <2>1
      <3> QED BY ONLY <3>1, <3>2 DEF Outweighs
    <2>4. \A s, t, v \in S : Outweighs(s, t) /\ Outweighs(t, v) => Outweighs(s, v)
      <3>2. \A s \in S : s.bucket.units \in Nat /\ s.metric \in Nat
        BY <2>1
      <3> QED BY ONLY <3>2 DEF Outweighs
    <2>5. IsFiniteSet(S)
      BY RowsAreNamed DEF S
    <2> HIDE DEF R
    <2> QED BY <1>1, <2>2, <2>3, <2>4, <2>5 DEF IsOrderOn
  <1>3. PICK list : /\ IsListing(list, S)
                    /\ \A i, j \in 1..n : i < j => <<list[i], list[j]>> \in R
    <2> HIDE DEF R, S
    <2> QED BY <1>2, SortedListing
  <1> HIDE DEF S
  <1>4. list \in SetToSeqs(S)
    BY <1>3, Zenon DEF IsListing, SetToSeqs
  <1>5. Good(list)
    <2>1. DOMAIN list = 1..n /\ \A i \in 1..n : list[i] \in S
      BY <1>3 DEF IsListing
    <2> HIDE DEF R, n
    <2> QED BY <1>1, <1>3, <2>1
  <1>6. l \in SetToSeqs(S) /\ Good(l)
    <2> HIDE DEF Good
    <2> QED BY <1>4, <1>5
  <1>7. SortRollup(m) = l
    BY DEF SortRollup, Sorted, S
  <1> HIDE DEF l, Good
  <1>8. IsListing(l, S)
    BY <1>6, Zenon DEF IsListing, SetToSeqs
  <1> QED BY <1>6, <1>7, <1>8 DEF Good, S

\* The rows of a rollup are its buckets, and add up to the same.
Itemizes(f, g, m) ==
  /\ \A i \in DOMAIN SortRollup(m) : f[i] = g[SortRollup(m)[i].metric]
  /\ \A y \in DOMAIN m : g[y] \in Nat

LEMMA RowsAddUp ==
  ASSUME NEW m \in Rollups, IsFiniteSet(DOMAIN m), NEW f, NEW g, Itemizes(f, g, m)
  PROVE  SumFunctionOnSet(f, DOMAIN SortRollup(m)) = SumFunctionOnSet(g, DOMAIN m)
  <1> DEFINE l == SortRollup(m)
             I == DOMAIN l
             S == RollupRows(m)
             b == [i \in I |-> l[i].metric]
  <1>1. IsListing(l, S) /\ IsFiniteSet(S)
    BY SortRollupFacts, RowsAreNamed
  <1>2. /\ IsFiniteSet(I) /\ \A i \in I : l[i] \in S
        /\ \A s \in S : \E i \in I : l[i] = s
        /\ \A i, j \in I : i # j => l[i] # l[j]
    <2> HIDE DEF l, S
    <2> QED BY <1>1, ListingFacts
  <1>3. /\ \A s \in S : s.metric \in DOMAIN m /\ s = [metric |-> s.metric, bucket |-> m[s.metric]]
        /\ \A y \in DOMAIN m : \E s \in S : s.metric = y
    <2> DEFINE row(y) == [metric |-> y, bucket |-> m[y]]
    <2>1. \A s \in S : s.metric \in DOMAIN m /\ s = row(s.metric)
      BY DEF RollupRows
    <2>2. \A y \in DOMAIN m : row(y) \in S /\ row(y).metric = y
      BY DEF RollupRows
    <2> HIDE DEF S
    <2> QED BY <2>1, <2>2
  <1> HIDE DEF l, S
  <1>4. \A i, j \in I : l[i].metric = l[j].metric => l[i] = l[j]
    BY <1>2, <1>3
  <1>5. Names(b, I, DOMAIN m)
    BY <1>2, <1>3, <1>4 DEF Names
  <1>6. Carried(f, g, b, I)
    BY <1>2, <1>3 DEF l, Carried, Itemizes
  <1> HIDE DEF b, I
  <1>7. SumFunctionOnSet(f, I) = SumFunctionOnSet(g, DOMAIN m)
    BY <1>2, <1>5, <1>6, SumNamed
  <1> QED BY <1>7 DEF I, l

-----------------------------------------------------------------------------
(* A fold from the left, as a chain of its steps.                          *)

\* The function by which FoldLeft is defined, for a step that is a function.
IsIter(st, base, n, h) ==
  \A s \in SUBSET (1..n) : h[s] = IF s = {} THEN base ELSE st[Max(s), h[s \ {Max(s)}]]

LEMMA MaxUpTo ==
  ASSUME NEW n \in Nat, NEW s \in SUBSET (1..n), s # {}
  PROVE  Max(s) \in s
  <1>1. IsFiniteSet(s) /\ s \subseteq Int
    <2>1. IsFiniteSet(1..n)
      BY FS_Interval
    <2>2. IsFiniteSet(s)
      BY <2>1, FS_Subset
    <2> QED BY <2>2
  <1> QED BY ONLY <1>1, s # {}, MaxIsMax

LEMMA LastIsMax ==
  ASSUME NEW k \in Nat, k # 0
  PROVE  Max(1..k) = k /\ (1..k) \ {k} = 1..(k - 1)
  <1>1. IsFiniteSet(1..k) /\ 1..k \subseteq Int /\ k \in 1..k
    BY FS_Interval
  <1>2. Max(1..k) \in 1..k /\ \A y \in 1..k : Max(1..k) >= y
    <2> DEFINE S == 1..k
    <2>1. IsFiniteSet(S) /\ S \subseteq Int /\ S # {}
      BY <1>1
    <2> HIDE DEF S
    <2>2. Max(S) \in S /\ \A y \in S : Max(S) >= y
      BY ONLY <2>1, MaxIsMax
    <2> QED BY <2>2 DEF S
  <1>3. Max(1..k) = k
    BY <1>1, <1>2
  <1>4. (1..k) \ {k} = 1..(k - 1)
    OBVIOUS
  <1> QED BY <1>3, <1>4

LEMMA IterExists ==
  ASSUME NEW n \in Nat, NEW V, NEW base \in V, NEW st \in [(1..n) \X V -> V]
  PROVE  \E h \in [SUBSET (1..n) -> V] : IsIter(st, base, n, h)
  <1> DEFINE D   == 1..n
             ch  == [s \in SUBSET D |-> Max(s)]
             st2 == [a \in (SUBSET D) \X V |-> IF a[1] = {} THEN base ELSE st[Max(a[1]), a[2]]]
  <1>1. IsFiniteSet(D)
    BY FS_Interval
  <1>2. ASSUME NEW s \in SUBSET D, s # {}
        PROVE  Max(s) \in s
    BY <1>2, MaxUpTo
  <1> HIDE DEF D
  <1>3. st \in [D \X V -> V]
    BY DEF D
  <1>4. st2 \in [(SUBSET D) \X V -> V]
    <2>1. ASSUME NEW a \in (SUBSET D) \X V, a[1] # {}
          PROVE  st[Max(a[1]), a[2]] \in V
      <3>1. Max(a[1]) \in D /\ a[2] \in V
        BY <1>2, <2>1
      <3> QED BY <1>3, <3>1
    <2> QED BY <2>1
  <1>5. \A s \in SUBSET D : s # {} => ch[s] \in s
    BY <1>2
  <1>6. PICK h \in [SUBSET D -> V] : IsFold(st2, ch, base, D, h)
    <2> HIDE DEF st2, ch
    <2> QED BY <1>1, <1>4, <1>5, FoldExists
  <1>7. ASSUME NEW s \in SUBSET D
        PROVE  h[s] = IF s = {} THEN base ELSE st[Max(s), h[s \ {Max(s)}]]
    <2>1. h[s] = IF s = {} THEN base ELSE st2[s, h[s \ {ch[s]}]]
      <3> HIDE DEF st2, ch
      <3> QED BY <1>6 DEF IsFold
    <2>2. ch[s] = Max(s) /\ s \ {Max(s)} \in SUBSET D
      OBVIOUS
    <2> DEFINE w == h[s \ {Max(s)}]
    <2>3. w \in V
      BY <1>6, <2>2
    <2> HIDE DEF w
    <2>4. s # {} => st2[s, w] = st[Max(s), w]
      BY <2>3
    <2> HIDE DEF st2, ch
    <2> QED BY <2>1, <2>2, <2>4 DEF w
  <1> QED BY <1>7 DEF IsIter, D

\* The rows of unusedRowsFromSeries, as far as they are added up.
IsRow(row) ==
  /\ row.metric \in Nat /\ row.present \in BOOLEAN /\ row.units \in Nat /\ row.days \in Nat
  /\ ~row.present => row.units = 0

\* m1 is m with one more of a name.
Entered(m, m1, name, units, billed) ==
  /\ m1 \in Rollups
  /\ DOMAIN m1 = DOMAIN m \cup {name}
  /\ \A y \in DOMAIN m \ {name} : m1[y] = m[y]
  /\ m1[name].n = BucketOf(m, name).n + 1
  /\ m1[name].nb = BucketOf(m, name).nb + billed
  /\ m1[name].units = BucketOf(m, name).units + units

LEMMA BucketOfType ==
  ASSUME NEW m \in Rollups, NEW name
  PROVE  BucketOf(m, name) \in Bucket
  BY RollupType DEF BucketOf, EmptyBucket, Bucket

LEMMA WithBucketIs ==
  ASSUME NEW m \in Rollups, NEW name \in Nat, NEW b \in Bucket
  PROVE  /\ WithBucket(m, name, b) \in Rollups
         /\ DOMAIN WithBucket(m, name, b) = DOMAIN m \cup {name}
         /\ \A y \in DOMAIN m \ {name} : WithBucket(m, name, b)[y] = m[y]
         /\ WithBucket(m, name, b)[name] = b
  <1> DEFINE w == WithBucket(m, name, b)
  <1>1. /\ DOMAIN w = DOMAIN m \cup {name} /\ w = [y \in DOMAIN w |-> w[y]]
        /\ \A y \in DOMAIN m \ {name} : w[y] = m[y]
        /\ w[name] = b
    BY DEF WithBucket
  <1> HIDE DEF w
  <1>2. w \in Rollups
    BY <1>1, RollupType, IsRollup
  <1> QED BY <1>1, <1>2 DEF w

LEMMA BucketedType == ASSUME NEW x \in Nat PROVE Bucketed(x) \in Nat
  BY DEF Bucketed, Unknown

LEMMA MaxOfTwo == ASSUME NEW a \in Nat, NEW b \in Nat PROVE Max({a, b}) \in Nat
  <1> DEFINE S == {a, b}
  <1>1. S \subseteq Int /\ S # {} /\ IsFiniteSet(S)
    <2>1. IsFiniteSet({a} \cup {b})
      BY FS_Singleton, FS_Union
    <2>2. S = {a} \cup {b}
      OBVIOUS
    <2> QED BY <2>1, <2>2
  <1> HIDE DEF S
  <1>2. Max(S) \in S
    BY ONLY <1>1, MaxIsMax
  <1> QED BY <1>2 DEF S

LEMMA AddRowIs ==
  ASSUME NEW m \in Rollups, NEW row, IsRow(row)
  PROVE  Entered(m, AddRow(m, row), Bucketed(row.metric), row.units,
                 IF row.present THEN 1 ELSE 0)
  <1> DEFINE name == Bucketed(row.metric)
             b    == BucketOf(m, name)
             d    == Max({b.days, row.days})
             c    == IF row.present
                     THEN [n |-> b.n + 1, nb |-> b.nb + 1, units |-> b.units + row.units,
                           days |-> d]
                     ELSE [b EXCEPT !.n = @ + 1]
  <1>1. name \in Nat /\ b \in Bucket
    BY BucketedType, BucketOfType DEF IsRow
  <1>2. d \in Nat
    <2> HIDE DEF b
    <2>1. b.days \in Nat /\ row.days \in Nat
      BY <1>1 DEF IsRow, Bucket
    <2> QED BY <2>1, MaxOfTwo
  <1>3. AddRow(m, row) = WithBucket(m, name, c)
    BY DEF AddRow
  <1> HIDE DEF name, b, d
  <1>4. /\ c \in Bucket /\ c.n = b.n + 1 /\ c.units = b.units + row.units
        /\ c.nb = b.nb + IF row.present THEN 1 ELSE 0
    <2>1. CASE row.present
      BY <1>1, <1>2, <2>1 DEF Bucket, IsRow
    <2>2. CASE ~row.present
      BY <1>1, <2>2 DEF Bucket, IsRow
    <2> QED BY <2>1, <2>2
  <1> HIDE DEF c
  <1> DEFINE w == WithBucket(m, name, c)
  <1>5. /\ w \in Rollups /\ DOMAIN w = DOMAIN m \cup {name}
        /\ \A y \in DOMAIN m \ {name} : w[y] = m[y]
        /\ w[name] = c
    <2>1. c \in Bucket /\ name \in Nat
      BY <1>1, <1>4
    <2> QED BY ONLY m \in Rollups, <2>1, WithBucketIs DEF w
  <1> HIDE DEF w
  <1>6. Entered(m, w, name, row.units, IF row.present THEN 1 ELSE 0)
    BY <1>4, <1>5 DEF Entered, b
  <1> QED BY <1>3, <1>6 DEF w, name

LEMMA AddSeriesIs ==
  ASSUME NEW m \in Rollups, NEW s, s.name \in Nat, UnitUsageOf(s.billing) \in Nat
  PROVE  Entered(m, AddSeries(m, s), Bucketed(s.name), UnitUsageOf(s.billing), 0)
  <1> DEFINE name == Bucketed(s.name)
             b    == BucketOf(m, name)
             u    == UnitUsageOf(s.billing)
             c    == [b EXCEPT !.n = @ + 1, !.units = @ + u]
  <1>1. name \in Nat /\ b \in Bucket /\ u \in Nat
    BY BucketedType, BucketOfType
  <1>3. AddSeries(m, s) = WithBucket(m, name, c)
    BY DEF AddSeries
  <1> HIDE DEF name, b, u
  <1>4. c \in Bucket /\ c.n = b.n + 1 /\ c.units = b.units + u /\ c.nb = b.nb + 0
    <2> DEFINE p == b.n + 1
               q == b.units + u
    <2>1. p \in Nat /\ q \in Nat /\ b.nb \in Nat
      BY <1>1 DEF Bucket
    <2>2. c = [b EXCEPT !.n = p, !.units = q]
      OBVIOUS
    <2> HIDE DEF c, p, q
    <2>3. c \in Bucket /\ c.n = p /\ c.units = q /\ c.nb = b.nb
      BY ONLY <1>1, <2>1, <2>2 DEF Bucket
    <2> QED BY <2>1, <2>3 DEF p, q
  <1> HIDE DEF c
  <1> DEFINE w == WithBucket(m, name, c)
  <1>5. /\ w \in Rollups /\ DOMAIN w = DOMAIN m \cup {name}
        /\ \A y \in DOMAIN m \ {name} : w[y] = m[y]
        /\ w[name] = c
    <2>1. c \in Bucket /\ name \in Nat
      BY <1>1, <1>4
    <2> QED BY ONLY m \in Rollups, <2>1, WithBucketIs DEF w
  <1> HIDE DEF w
  <1>6. Entered(m, w, name, u, 0)
    BY <1>4, <1>5 DEF Entered, b
  <1> QED BY <1>3, <1>6 DEF w, name, u

IsRowFold(rows, g) ==
  g = [s \in SUBSET (DOMAIN rows) |->
         IF s = {} THEN NoBuckets ELSE AddRow(g[s \ {Max(s)}], rows[Max(s)])]

IsSeriesFold(list, g) ==
  g = [s \in SUBSET (DOMAIN list) |->
         IF s = {} THEN NoBuckets ELSE AddSeries(g[s \ {Max(s)}], list[Max(s)])]

LEMMA NoBucketsType == NoBuckets \in Rollups /\ DOMAIN NoBuckets = {}
  <1>1. NoBuckets = [y \in DOMAIN NoBuckets |-> NoBuckets[y]] /\ DOMAIN NoBuckets = {}
    BY DEF NoBuckets
  <1> QED BY <1>1, IsRollup

LEMMA ChainOfRows ==
  ASSUME NEW n \in Nat, NEW rows, DOMAIN rows = 1..n, \A i \in 1..n : IsRow(rows[i])
  PROVE  \E G : /\ G[0] = NoBuckets
                /\ \A k \in 1..n : G[k] = AddRow(G[k - 1], rows[k])
                /\ FoldLeft(AddRow, NoBuckets, rows) = G[n]
  <1> DEFINE D  == 1..n
             st == [a \in D \X Rollups |-> AddRow(a[2], rows[a[1]])]
             g  == CHOOSE h : IsRowFold(rows, h)
             G  == [k \in 0..n |-> g[1..k]]
  <1>1. st \in [D \X Rollups -> Rollups]
    <2>1. \A m \in Rollups, i \in D : AddRow(m, rows[i]) \in Rollups
      BY AddRowIs DEF Entered
    <2> HIDE DEF D
    <2> QED BY <2>1
  <1>2. PICK h \in [SUBSET D -> Rollups] : IsIter(st, NoBuckets, n, h)
    <2> HIDE DEF st
    <2> QED BY <1>1, NoBucketsType, IterExists
  <1>3. IsRowFold(rows, h)
    <2>1. ASSUME NEW s \in SUBSET D
          PROVE  h[s] = IF s = {} THEN NoBuckets
                        ELSE AddRow(h[s \ {Max(s)}], rows[Max(s)])
      <3>1. h[s] = IF s = {} THEN NoBuckets ELSE st[Max(s), h[s \ {Max(s)}]]
        <4> HIDE DEF st
        <4> QED BY <1>2 DEF IsIter
      <3>2. s # {} => Max(s) \in D
        BY MaxUpTo
      <3> DEFINE v == h[s \ {Max(s)}]
      <3>3. v \in Rollups
        BY <1>2
      <3> HIDE DEF v, D
      <3>4. s # {} => st[Max(s), v] = AddRow(v, rows[Max(s)])
        BY <3>2, <3>3
      <3> HIDE DEF st
      <3> QED BY <3>1, <3>4 DEF v
    <2>2. h = [s \in SUBSET D |-> h[s]]
      BY ONLY <1>2
    <2> HIDE DEF D, st
    <2>3. h = [s \in SUBSET D |-> IF s = {} THEN NoBuckets
                                  ELSE AddRow(h[s \ {Max(s)}], rows[Max(s)])]
      BY ONLY <2>1, <2>2
    <2>4. D = DOMAIN rows
      BY DEF D
    <2> QED BY ONLY <2>3, <2>4 DEF IsRowFold
  <1>4. IsRowFold(rows, g)
    BY <1>3
  <1>5. FoldLeft(AddRow, NoBuckets, rows) = g[1..n]
    BY DEF FoldLeft, MapThenFoldSet, IsRowFold, g
  <1> HIDE DEF g
  <1>6. ASSUME NEW s \in SUBSET D
        PROVE  g[s] = IF s = {} THEN NoBuckets ELSE AddRow(g[s \ {Max(s)}], rows[Max(s)])
    BY <1>4 DEF IsRowFold
  <1>7. G[0] = NoBuckets
    <2>1. 1..0 = {} /\ {} \in SUBSET D /\ 0 \in 0..n
      OBVIOUS
    <2> QED BY <1>6, <2>1
  <1>8. ASSUME NEW k \in 1..n
        PROVE  G[k] = AddRow(G[k - 1], rows[k])
    <2> DEFINE s == 1..k
    <2>1. k \in Nat /\ k # 0 /\ k \in 0..n /\ k - 1 \in 0..n
      OBVIOUS
    <2>2. s \in SUBSET D /\ s # {}
      OBVIOUS
    <2>3. Max(s) = k /\ s \ {k} = 1..(k - 1)
      BY <2>1, LastIsMax
    <2>4. g[s] = AddRow(g[s \ {Max(s)}], rows[Max(s)])
      BY <1>6, <2>2
    <2>5. G[k] = g[s] /\ G[k - 1] = g[1..(k - 1)]
      BY <2>1
    <2> HIDE DEF s, G
    <2> QED BY <2>3, <2>4, <2>5
  <1>9. G[n] = g[1..n]
    OBVIOUS
  <1> HIDE DEF G
  <1> QED BY <1>5, <1>7, <1>8, <1>9

LEMMA ChainOfSeries ==
  ASSUME NEW n \in Nat, NEW list, DOMAIN list = 1..n, 
         \A i \in 1..n : list[i].name \in Nat /\ UnitUsageOf(list[i].billing) \in Nat
  PROVE  \E G : /\ G[0] = NoBuckets
                /\ \A k \in 1..n : G[k] = AddSeries(G[k - 1], list[k])
                /\ FoldLeft(AddSeries, NoBuckets, list) = G[n]
  <1> DEFINE D  == 1..n
             st == [a \in D \X Rollups |-> AddSeries(a[2], list[a[1]])]
             g  == CHOOSE h : IsSeriesFold(list, h)
             G  == [k \in 0..n |-> g[1..k]]
  <1>1. st \in [D \X Rollups -> Rollups]
    <2>1. \A m \in Rollups, i \in D : AddSeries(m, list[i]) \in Rollups
      BY AddSeriesIs DEF Entered
    <2> HIDE DEF D
    <2> QED BY <2>1
  <1>2. PICK h \in [SUBSET D -> Rollups] : IsIter(st, NoBuckets, n, h)
    <2> HIDE DEF st
    <2> QED BY <1>1, NoBucketsType, IterExists
  <1>3. IsSeriesFold(list, h)
    <2>1. ASSUME NEW s \in SUBSET D
          PROVE  h[s] = IF s = {} THEN NoBuckets
                        ELSE AddSeries(h[s \ {Max(s)}], list[Max(s)])
      <3>1. h[s] = IF s = {} THEN NoBuckets ELSE st[Max(s), h[s \ {Max(s)}]]
        <4> HIDE DEF st
        <4> QED BY <1>2 DEF IsIter
      <3>2. s # {} => Max(s) \in D
        BY MaxUpTo
      <3> DEFINE v == h[s \ {Max(s)}]
      <3>3. v \in Rollups
        BY <1>2
      <3> HIDE DEF v, D
      <3>4. s # {} => st[Max(s), v] = AddSeries(v, list[Max(s)])
        BY <3>2, <3>3
      <3> HIDE DEF st
      <3> QED BY <3>1, <3>4 DEF v
    <2>2. h = [s \in SUBSET D |-> h[s]]
      BY ONLY <1>2
    <2> HIDE DEF D, st
    <2>3. h = [s \in SUBSET D |-> IF s = {} THEN NoBuckets
                                  ELSE AddSeries(h[s \ {Max(s)}], list[Max(s)])]
      BY ONLY <2>1, <2>2
    <2>4. D = DOMAIN list
      BY DEF D
    <2> QED BY ONLY <2>3, <2>4 DEF IsSeriesFold
  <1>4. IsSeriesFold(list, g)
    BY <1>3
  <1>5. FoldLeft(AddSeries, NoBuckets, list) = g[1..n]
    BY DEF FoldLeft, MapThenFoldSet, IsSeriesFold, g
  <1> HIDE DEF g
  <1>6. ASSUME NEW s \in SUBSET D
        PROVE  g[s] = IF s = {} THEN NoBuckets ELSE AddSeries(g[s \ {Max(s)}], list[Max(s)])
    BY <1>4 DEF IsSeriesFold
  <1>7. G[0] = NoBuckets
    <2>1. 1..0 = {} /\ {} \in SUBSET D /\ 0 \in 0..n
      OBVIOUS
    <2> QED BY <1>6, <2>1
  <1>8. ASSUME NEW k \in 1..n
        PROVE  G[k] = AddSeries(G[k - 1], list[k])
    <2> DEFINE s == 1..k
    <2>1. k \in Nat /\ k # 0 /\ k \in 0..n /\ k - 1 \in 0..n
      OBVIOUS
    <2>2. s \in SUBSET D /\ s # {}
      <3>1. k \in s /\ \A i \in s : i \in D
        OBVIOUS
      <3> HIDE DEF s, D
      <3> QED BY <3>1
    <2>3. Max(s) = k /\ s \ {k} = 1..(k - 1)
      BY <2>1, LastIsMax
    <2>4. g[s] = AddSeries(g[s \ {Max(s)}], list[Max(s)])
      BY <1>6, <2>2
    <2>5. G[k] = g[s] /\ G[k - 1] = g[1..(k - 1)]
      BY <2>1
    <2> HIDE DEF s, G
    <2> QED BY <2>3, <2>4, <2>5
  <1>9. G[n] = g[1..n]
    OBVIOUS
  <1> HIDE DEF G
  <1> QED BY <1>5, <1>7, <1>8, <1>9

-----------------------------------------------------------------------------
(* What a rollup adds up.                                                  *)

Column(m, f) == [y \in DOMAIN m |-> m[y][f]]

ColumnStep(G, x, v, f, k) ==
  /\ DOMAIN G[k] = DOMAIN G[k - 1] \cup {x[k]}
  /\ \A y \in DOMAIN G[k - 1] \ {x[k]} : G[k][y] = G[k - 1][y]
  /\ G[k][x[k]][f] = (IF x[k] \in DOMAIN G[k - 1] THEN G[k - 1][x[k]][f] ELSE 0) + v[k]

LEMMA ColumnAddsUp ==
  ASSUME NEW n \in Nat, NEW G, NEW x, NEW v, NEW f, NEW k \in 1..n, ColumnStep(G, x, v, f, k)
  PROVE  AddsUp([j \in 0..n |-> Column(G[j], f)], x, v, k)
  <1> DEFINE h == [j \in 0..n |-> Column(G[j], f)]
             a == h[k]
             b == h[k - 1]
             z == x[k]
  <1>a. /\ DOMAIN G[k] = DOMAIN G[k - 1] \cup {x[k]}
        /\ \A y \in DOMAIN G[k - 1] \ {x[k]} : G[k][y] = G[k - 1][y]
        /\ G[k][x[k]][f] = (IF x[k] \in DOMAIN G[k - 1] THEN G[k - 1][x[k]][f] ELSE 0) + v[k]
    BY DEF ColumnStep
  <1>1. h[k] = Column(G[k], f) /\ h[k - 1] = Column(G[k - 1], f)
    OBVIOUS
  <1> HIDE DEF h
  <1>2. /\ DOMAIN a = DOMAIN G[k] /\ \A y \in DOMAIN G[k] : a[y] = G[k][y][f]
        /\ DOMAIN b = DOMAIN G[k - 1] /\ \A y \in DOMAIN G[k - 1] : b[y] = G[k - 1][y][f]
    BY <1>1 DEF Column
  <1> HIDE DEF a, b, z
  <1>3. /\ DOMAIN a = DOMAIN b \cup {z}
        /\ \A y \in DOMAIN b \ {z} : a[y] = b[y]
    BY <1>a, <1>2 DEF z
  <1>4. a[z] = (IF z \in DOMAIN b THEN b[z] ELSE 0) + v[k]
    <2>1. z \in DOMAIN G[k] /\ a[z] = G[k][z][f]
      BY <1>a, <1>2 DEF z
    <2>2. z \in DOMAIN b => b[z] = G[k - 1][z][f]
      BY <1>2
    <2>3. CASE z \in DOMAIN b
      <3>1. G[k][z][f] = G[k - 1][z][f] + v[k]
        BY <1>a, <1>2, <2>3 DEF z
      <3> QED BY <2>1, <2>2, <2>3, <3>1
    <2>4. CASE z \notin DOMAIN b
      <3>1. G[k][z][f] = 0 + v[k]
        BY <1>a, <1>2, <2>4 DEF z
      <3> QED BY <2>1, <2>4, <3>1
    <2> QED BY <2>3, <2>4
  <1>5. AddsUp(h, x, v, k)
    BY <1>3, <1>4 DEF AddsUp, a, b, z
  <1> QED BY <1>5 DEF h

\* The column f of a rollup m of n rows adds up their v by name.
Sheet(m, n, x, v, f) ==
  /\ IsFiniteSet(DOMAIN m)
  /\ \A y : y \in DOMAIN m <=> OfName(x, n, y) # {}
  /\ \A y \in DOMAIN m : m[y][f] = SumFunctionOnSet(v, OfName(x, n, y))
  /\ SumFunctionOnSet(Column(m, f), DOMAIN m) = SumFunctionOnSet(v, 1..n)

Amounts(v, n) == \A i \in 1..n : v[i] \in Nat

LEMMA Tabulated ==
  ASSUME NEW n \in Nat, NEW G, NEW x, NEW v, NEW f, DOMAIN G[0] = {},
         Amounts(v, n),
         \A k \in 1..n : ColumnStep(G, x, v, f, k)
  PROVE  Sheet(G[n], n, x, v, f)
  <1> DEFINE h == [j \in 0..n |-> Column(G[j], f)]
  <1>1. ASSUME NEW k \in 1..n
        PROVE  AddsUp(h, x, v, k)
    <2>1. ColumnStep(G, x, v, f, k)
      OBVIOUS
    <2> QED BY <2>1, ColumnAddsUp
  <1>2. DOMAIN h[0] = {} /\ h[n] = Column(G[n], f)
    BY DEF Column
  <1> HIDE DEF h
  <1>3. Tallied(h, x, v, n)
    <2>1. IsTally(h, x, v, n)
      BY <1>1, <1>2 DEF IsTally
    <2> QED BY <2>1, TallyFacts DEF Amounts
  <1> DEFINE a == h[n]
  <1>4. DOMAIN a = DOMAIN G[n] /\ \A y \in DOMAIN G[n] : a[y] = G[n][y][f]
    BY <1>2 DEF Column
  <1>5. /\ IsFiniteSet(DOMAIN a)
        /\ \A y : y \in DOMAIN a <=> OfName(x, n, y) # {}
        /\ \A y \in DOMAIN a : a[y] = SumFunctionOnSet(v, OfName(x, n, y))
        /\ SumFunctionOnSet(a, DOMAIN a) = SumFunctionOnSet(v, 1..n)
    BY <1>3 DEF Tallied
  <1> HIDE DEF a
  <1> QED BY <1>2, <1>4, <1>5 DEF a, Sheet

\* M is the rollup of n rows with the names x, the usage u, and c with billing.
RolledUp(M, n, x, u, c) ==
  /\ M \in Rollups /\ IsFiniteSet(DOMAIN M)
  /\ \A y : y \in DOMAIN M <=> OfName(x, n, y) # {}
  /\ \A y \in DOMAIN M : /\ M[y].n = Cardinality(OfName(x, n, y))
                         /\ M[y].units = SumFunctionOnSet(u, OfName(x, n, y))
  /\ SumFunctionOnSet(Column(M, "n"), DOMAIN M) = n
  /\ SumFunctionOnSet(Column(M, "units"), DOMAIN M) = SumFunctionOnSet(u, 1..n)
  /\ SumFunctionOnSet(Column(M, "nb"), DOMAIN M) = SumFunctionOnSet(c, 1..n)

LEMMA EnteredFields ==
  ASSUME NEW m, NEW m1, NEW name, NEW units, NEW billed,
         Entered(m, m1, name, units, billed)
  PROVE  /\ m1[name]["n"] = (IF name \in DOMAIN m THEN m[name]["n"] ELSE 0) + 1
         /\ m1[name]["nb"] = (IF name \in DOMAIN m THEN m[name]["nb"] ELSE 0) + billed
         /\ m1[name]["units"] = (IF name \in DOMAIN m THEN m[name]["units"] ELSE 0) + units
  BY DEF Entered, BucketOf, EmptyBucket

LEMMA RollingUp ==
  ASSUME NEW n \in Nat, NEW G, NEW x, NEW u, NEW c,
         G[0] = NoBuckets,
         \A k \in 1..n : G[k - 1] \in Rollups => Entered(G[k - 1], G[k], x[k], u[k], c[k]),
         \A i \in 1..n : u[i] \in Nat /\ c[i] \in Nat
  PROVE  RolledUp(G[n], n, x, u, c)
  <1> DEFINE T == {k \in 0..n : G[k] \in Rollups}
             ones == [i \in 1..n |-> 1]
             M == G[n]
  <1>1. \A k \in 0..n : k \in T
    <2>1. 0 \in T
      BY NoBucketsType
    <2>2. ASSUME NEW k \in 1..n, k - 1 \in T
          PROVE  k \in T
      BY <2>2 DEF Entered
    <2> HIDE DEF T
    <2> QED BY <2>1, <2>2, UpFrom0
  <1>2. ASSUME NEW k \in 1..n
        PROVE  Entered(G[k - 1], G[k], x[k], u[k], c[k])
    <2>1. k - 1 \in 0..n
      OBVIOUS
    <2> QED BY <1>1, <2>1
  <1>3. DOMAIN G[0] = {}
    BY NoBucketsType
  <1>4. \A k \in 1..n : /\ DOMAIN G[k] = DOMAIN G[k - 1] \cup {x[k]}
                        /\ \A y \in DOMAIN G[k - 1] \ {x[k]} : G[k][y] = G[k - 1][y]
    BY <1>2 DEF Entered
  <1>5. \A i \in 1..n : ones[i] \in Nat /\ ones[i] = 1
    OBVIOUS
  <1>6. \A k \in 1..n : ColumnStep(G, x, ones, "n", k)
    BY <1>2, <1>4, <1>5, EnteredFields DEF ColumnStep
  <1>7. \A k \in 1..n : ColumnStep(G, x, c, "nb", k)
    BY <1>2, <1>4, EnteredFields DEF ColumnStep
  <1>8. \A k \in 1..n : ColumnStep(G, x, u, "units", k)
    BY <1>2, <1>4, EnteredFields DEF ColumnStep
  <1>b. Amounts(ones, n) /\ Amounts(u, n) /\ Amounts(c, n)
    BY DEF Amounts
  <1> HIDE DEF ones
  <1>9. /\ IsFiniteSet(DOMAIN M)
        /\ \A y : y \in DOMAIN M <=> OfName(x, n, y) # {}
        /\ \A y \in DOMAIN M : M[y]["n"] = SumFunctionOnSet(ones, OfName(x, n, y))
        /\ SumFunctionOnSet(Column(M, "n"), DOMAIN M) = SumFunctionOnSet(ones, 1..n)
    <2>1. Sheet(M, n, x, ones, "n")
      BY <1>3, <1>b, <1>6, Tabulated
    <2> QED BY <2>1 DEF Sheet
  <1>10. /\ \A y \in DOMAIN M : M[y]["units"] = SumFunctionOnSet(u, OfName(x, n, y))
         /\ SumFunctionOnSet(Column(M, "units"), DOMAIN M) = SumFunctionOnSet(u, 1..n)
    <2>1. Sheet(M, n, x, u, "units")
      BY <1>3, <1>b, <1>8, Tabulated
    <2> QED BY <2>1 DEF Sheet
  <1>11. SumFunctionOnSet(Column(M, "nb"), DOMAIN M) = SumFunctionOnSet(c, 1..n)
    <2>1. Sheet(M, n, x, c, "nb")
      BY <1>3, <1>b, <1>7, Tabulated
    <2> QED BY <2>1 DEF Sheet
  <1>12. ASSUME NEW s \in SUBSET (1..n)
         PROVE  SumFunctionOnSet(ones, s) = Cardinality(s)
    <2>1. IsFiniteSet(s)
      <3>1. IsFiniteSet(1..n)
        BY FS_Interval
      <3> QED BY <3>1, FS_Subset
    <2> DEFINE k == Cardinality(s)
    <2>2. SumFunctionOnSet(ones, s) = 1 * k
      BY <1>5, <2>1, SumConstant
    <2>3. k \in Nat
      BY <2>1, FS_CardinalityType
    <2> HIDE DEF k
    <2>4. SumFunctionOnSet(ones, s) = k
      BY ONLY <2>2, <2>3
    <2> QED BY <2>4 DEF k
  <1>13. SumFunctionOnSet(ones, 1..n) = n
    <2>1. Cardinality(1..n) = n
      BY FS_Interval
    <2> QED BY <1>12, <2>1
  <1>14. \A y : OfName(x, n, y) \in SUBSET (1..n)
    BY DEF OfName
  <1>15. M \in Rollups
    BY <1>1
  <1> HIDE DEF M, T
  <1>16. \A y \in DOMAIN M : /\ M[y].n = Cardinality(OfName(x, n, y))
                             /\ M[y].units = SumFunctionOnSet(u, OfName(x, n, y))
    BY <1>9, <1>10, <1>12, <1>14
  <1>17. RolledUp(M, n, x, u, c)
    BY <1>9, <1>10, <1>11, <1>13, <1>15, <1>16 DEF RolledUp
  <1> QED BY <1>17 DEF M

-----------------------------------------------------------------------------
(* The two rollups.                                                        *)

Units     == [s \in ReportSeries |-> UnitUsageOf(s.billing)]
HasUsage  == [s \in ReportSeries |-> IF s.billing # Nil THEN 1 ELSE 0]

InBucket(S, y) == {s \in S : Bucketed(s.name) = y}

\* M is the rollup of the series S, however they are listed.
RollupOf(M, S) ==
  /\ M \in Rollups /\ IsFiniteSet(DOMAIN M)
  /\ \A y : y \in DOMAIN M <=> InBucket(S, y) # {}
  /\ \A y \in DOMAIN M : /\ M[y].n = Cardinality(InBucket(S, y))
                         /\ M[y].units = SumFunctionOnSet(Units, InBucket(S, y))
  /\ SumFunctionOnSet(Column(M, "n"), DOMAIN M) = Cardinality(S)
  /\ SumFunctionOnSet(Column(M, "units"), DOMAIN M) = SumFunctionOnSet(Units, S)

LEMMA SeriesFacts ==
  ASSUME NEW s \in ReportSeries
  PROVE  /\ s.name \in Nat /\ s.name # 1 /\ s.series \in Nat
         /\ Units[s] = UnitUsageOf(s.billing) /\ Units[s] \in Nat
         /\ HasUsage[s] = IF s.billing # Nil THEN 1 ELSE 0
  <1>1. s.name \in Metrics \cup {NoName}
    BY DEF ReportSeries
  <1>2. s.name \in Nat /\ s.name # 1
    <2>1. CASE s.name \in Metrics
      BY <2>1, NamesAreRanks
    <2>2. CASE s.name = NoName
      BY <2>2, NamesAreRanks
    <2> QED BY <1>1, <2>1, <2>2
  <1> QED BY <1>2, UnitsAreNat DEF Units, HasUsage

LEMMA RollupOfListing ==
  ASSUME NEW S, S \subseteq ReportSeries, NEW n \in Nat, NEW l, Names(l, 1..n, S),
         NEW x, NEW u, NEW c, NEW M, RolledUp(M, n, x, u, c),
         \A i \in 1..n : x[i] = Bucketed(l[i].name) /\ u[i] = UnitUsageOf(l[i].billing)
  PROVE  RollupOf(M, S)
  <1>1. IsFiniteSet(1..n) /\ Cardinality(1..n) = n
    BY FS_Interval
  <1>2. \A i \in 1..n : u[i] \in Nat /\ u[i] = Units[l[i]] /\ l[i] \in S
    <2>1. \A i \in 1..n : l[i] \in S /\ l[i] \in ReportSeries
      BY DEF Names
    <2> QED BY <2>1, SeriesFacts
  <1>3. Cardinality(S) = n
    BY <1>1, CountNamed
  <1>4. SumFunctionOnSet(u, 1..n) = SumFunctionOnSet(Units, S)
    BY <1>1, <1>2, SumNamed DEF Carried
  <1>5. ASSUME NEW y
        PROVE  /\ IsFiniteSet(OfName(x, n, y))
               /\ Names(l, OfName(x, n, y), InBucket(S, y))
    <2>1. OfName(x, n, y) \subseteq 1..n
      BY DEF OfName
    <2>2. IsFiniteSet(OfName(x, n, y))
      BY <1>1, <2>1, FS_Subset
    <2>3. \A i \in 1..n : i \in OfName(x, n, y) <=> Bucketed(l[i].name) = y
      BY DEF OfName
    <2>4. Names(l, OfName(x, n, y), InBucket(S, y))
      BY <2>1, <2>3 DEF Names, InBucket
    <2> QED BY <2>2, <2>4
  <1>6. ASSUME NEW y
        PROVE  /\ Cardinality(InBucket(S, y)) = Cardinality(OfName(x, n, y))
               /\ SumFunctionOnSet(u, OfName(x, n, y)) = SumFunctionOnSet(Units, InBucket(S, y))
               /\ OfName(x, n, y) # {} <=> InBucket(S, y) # {}
    <2> DEFINE I == OfName(x, n, y)
               B == InBucket(S, y)
    <2>1. IsFiniteSet(I) /\ Names(l, I, B)
      BY <1>5
    <2>2. Carried(u, Units, l, I)
      BY <1>2 DEF OfName, Carried
    <2> HIDE DEF I, B
    <2>3. Cardinality(B) = Cardinality(I)
      BY <2>1, CountNamed
    <2>4. SumFunctionOnSet(u, I) = SumFunctionOnSet(Units, B)
      BY <2>1, <2>2, SumNamed
    <2>5. I # {} <=> B # {}
      BY <2>1 DEF Names
    <2> QED BY <2>3, <2>4, <2>5 DEF I, B
  <1>7. /\ M \in Rollups /\ IsFiniteSet(DOMAIN M)
        /\ \A y : y \in DOMAIN M <=> OfName(x, n, y) # {}
        /\ \A y \in DOMAIN M : /\ M[y].n = Cardinality(OfName(x, n, y))
                               /\ M[y].units = SumFunctionOnSet(u, OfName(x, n, y))
        /\ SumFunctionOnSet(Column(M, "n"), DOMAIN M) = n
        /\ SumFunctionOnSet(Column(M, "units"), DOMAIN M) = SumFunctionOnSet(u, 1..n)
    BY DEF RolledUp
  <1>8. \A y : y \in DOMAIN M <=> InBucket(S, y) # {}
    BY <1>6, <1>7
  <1>9. \A y \in DOMAIN M : /\ M[y].n = Cardinality(InBucket(S, y))
                            /\ M[y].units = SumFunctionOnSet(Units, InBucket(S, y))
    BY <1>6, <1>7
  <1> QED BY <1>3, <1>4, <1>7, <1>8, <1>9 DEF RollupOf

LEMMA ListingNames ==
  ASSUME NEW S, IsFiniteSet(S), NEW l, IsListing(l, S)
  PROVE  Names(l, 1..Cardinality(S), S)
  BY ListingFacts DEF Names

\* The rows of the unused series, as far as they are added up.
LEMMA CostRows ==
  ASSUME NEW ss, ss \subseteq ReportSeries, NEW l, NEW split,
         \A i \in DOMAIN l : l[i] \in ss
  PROVE  LET rows == UnusedRows(l, split)
         IN  /\ DOMAIN rows = DOMAIN l
             /\ \A i \in DOMAIN l :
                  /\ IsRow(rows[i]) /\ rows[i].metric = l[i].name
                  /\ rows[i].units = UnitUsageOf(l[i].billing)
                  /\ rows[i].present <=> l[i].billing # Nil
  <1> DEFINE rows == UnusedRows(l, split)
  <1>1. DOMAIN rows = DOMAIN l
    BY DEF UnusedRows
  <1>2. ASSUME NEW i \in DOMAIN l
        PROVE  /\ rows[i].metric = l[i].name
               /\ rows[i].units = UnitUsageOf(l[i].billing)
               /\ rows[i].present = (l[i].billing # Nil)
               /\ rows[i].days = IF l[i].billing = Nil THEN 0 ELSE l[i].billing.days
    BY DEF UnusedRows
  <1> HIDE DEF rows
  <1>3. ASSUME NEW i \in DOMAIN l
        PROVE  IsRow(rows[i])
    <2>1. l[i] \in ReportSeries
      OBVIOUS
    <2>2. l[i].name \in Nat /\ UnitUsageOf(l[i].billing) \in Nat
      BY <2>1, SeriesFacts
    <2>3. l[i].billing \in SeriesBilling \cup {Nil}
      BY <2>1 DEF ReportSeries
    <2>4. rows[i].days \in Nat
      BY <1>2, <2>3 DEF SeriesBilling
    <2>5. rows[i].present \in BOOLEAN
      BY <1>2
    <2>6. ~rows[i].present => rows[i].units = 0
      BY <1>2 DEF UnitUsageOf
    <2> QED BY <1>2, <2>2, <2>4, <2>5, <2>6 DEF IsRow
  <1> QED BY <1>1, <1>2, <1>3 DEF rows

LEMMA UnusedRollup ==
  ASSUME NEW ss, ss \subseteq ReportSeries, IsFiniteSet(ss), Keyed(ss), NEW split
  PROVE  LET rows == UnusedRows(SortUnusedByCost(ss), split)
             M    == FoldLeft(AddRow, NoBuckets, rows)
         IN  /\ RollupOf(M, ss)
             /\ DOMAIN rows = 1..Cardinality(ss)
             /\ SumFunctionOnSet(Column(M, "nb"), DOMAIN M) = Cardinality(WithBilling(ss))
             /\ SumFunctionOnSet([i \in DOMAIN rows |-> rows[i].units], DOMAIN rows)
                  = SumFunctionOnSet(Units, ss)
  <1> DEFINE n    == Cardinality(ss)
             l    == SortUnusedByCost(ss)
             rows == UnusedRows(l, split)
             M    == FoldLeft(AddRow, NoBuckets, rows)
             x    == [i \in 1..n |-> Bucketed(rows[i].metric)]
             u    == [i \in DOMAIN rows |-> rows[i].units]
             c    == [i \in 1..n |-> IF rows[i].present THEN 1 ELSE 0]
  <1>1. IsListing(l, ss)
    BY SortUnusedFacts
  <1> HIDE DEF l
  <1>2. n \in Nat /\ DOMAIN l = 1..n /\ \A i \in 1..n : l[i] \in ss
    BY <1>1, ListingFacts
  <1>3. Names(l, 1..n, ss) /\ IsFiniteSet(1..n)
    BY <1>1, <1>2, ListingNames, FS_Interval
  <1>4. /\ DOMAIN rows = 1..n
        /\ \A i \in 1..n :
             /\ IsRow(rows[i]) /\ rows[i].metric = l[i].name
             /\ rows[i].units = UnitUsageOf(l[i].billing)
             /\ rows[i].present <=> l[i].billing # Nil
    BY <1>2, CostRows
  <1> HIDE DEF rows, n
  <1>5. PICK G : /\ G[0] = NoBuckets
                 /\ \A k \in 1..n : G[k] = AddRow(G[k - 1], rows[k])
                 /\ M = G[n]
    BY <1>2, <1>4, ChainOfRows
  <1>6. \A i \in 1..n : /\ x[i] = Bucketed(rows[i].metric) /\ u[i] = rows[i].units
                        /\ c[i] = IF rows[i].present THEN 1 ELSE 0
    BY <1>4
  <1> HIDE DEF x, u, c, M
  <1>7. RolledUp(G[n], n, x, u, c)
    <2>1. \A k \in 1..n : G[k - 1] \in Rollups => Entered(G[k - 1], G[k], x[k], u[k], c[k])
      BY <1>4, <1>5, <1>6, AddRowIs
    <2>2. \A i \in 1..n : u[i] \in Nat /\ c[i] \in Nat
      BY <1>4, <1>6 DEF IsRow
    <2> QED BY <1>2, <1>5, <2>1, <2>2, RollingUp
  <1>8. RolledUp(M, n, x, u, c)
    BY <1>5, <1>7
  <1>9. \A i \in 1..n : x[i] = Bucketed(l[i].name) /\ u[i] = UnitUsageOf(l[i].billing)
    BY <1>4, <1>6
  <1>10. RollupOf(M, ss)
    BY <1>2, <1>3, <1>8, <1>9, RollupOfListing
  <1>11. SumFunctionOnSet(u, DOMAIN rows) = SumFunctionOnSet(Units, ss)
    <2>1. Carried(u, Units, l, 1..n)
      BY <1>2, <1>9, SeriesFacts DEF Carried
    <2> QED BY <1>3, <1>4, <2>1, SumNamed
  <1>12. SumFunctionOnSet(c, 1..n) = Cardinality(WithBilling(ss))
    <2>1. Carried(c, HasUsage, l, 1..n)
      BY <1>2, <1>4, <1>6, SeriesFacts DEF Carried
    <2>2. SumFunctionOnSet(c, 1..n) = SumFunctionOnSet(HasUsage, ss)
      BY <1>3, <2>1, SumNamed
    <2>3. WithBilling(ss) \subseteq ss
      BY DEF WithBilling
    <2>4. \A s \in ss : HasUsage[s] = IF s \in WithBilling(ss) THEN 1 ELSE 0
      BY SeriesFacts DEF WithBilling
    <2>5. SumFunctionOnSet(HasUsage, ss) = Cardinality(WithBilling(ss))
      BY <2>3, <2>4, SumOfOnes
    <2> QED BY <2>2, <2>5
  <1>13. SumFunctionOnSet(Column(M, "nb"), DOMAIN M) = SumFunctionOnSet(c, 1..n)
    BY <1>8 DEF RolledUp
  <1> QED BY <1>4, <1>10, <1>11, <1>12, <1>13 DEF M, rows, l, n, u

LEMMA SetToSeqFacts ==
  ASSUME NEW S, IsFiniteSet(S)
  PROVE  IsListing(SetToSeq(S), S)
  <1> DEFINE n == Cardinality(S)
  <1>1. \E f : f \in Bijection(1..n, S)
    BY FS_CardinalityType DEF ExistsBijection
  <1>2. PICK f \in [1..n -> S] : IsInjective(f)
    BY <1>1 DEF Bijection, Injection
  <1> DEFINE l == CHOOSE g \in [1..n -> S] : IsInjective(g)
  <1>3. l \in [1..n -> S] /\ IsInjective(l)
    BY <1>2
  <1>4. l = SetToSeq(S)
    BY DEF SetToSeq
  <1> HIDE DEF l
  <1>5. \A i, j \in 1..n : i # j => l[i] # l[j]
    BY <1>3 DEF IsInjective
  <1> QED BY <1>3, <1>4, <1>5 DEF IsListing

\* The series of two lists, one after the other.
LEMMA BothLists ==
  ASSUME NEW A, IsFiniteSet(A), NEW B, IsFiniteSet(B), A \cap B = {}
  PROVE  LET l == SetToSeq(A) \o SetToSeq(B)
             n == Cardinality(A) + Cardinality(B)
         IN  n \in Nat /\ DOMAIN l = 1..n /\ Names(l, 1..n, A \cup B)
  <1> DEFINE s == SetToSeq(A)
             t == SetToSeq(B)
             a == Cardinality(A)
             b == Cardinality(B)
             l == s \o t
  <1>1. IsListing(s, A) /\ IsListing(t, B)
    BY SetToSeqFacts
  <1>2. a \in Nat /\ b \in Nat
    BY FS_CardinalityType
  <1>3. Names(s, 1..a, A) /\ Names(t, 1..b, B)
    BY <1>1, ListingNames
  <1>4. s \in [1..a -> A] /\ t \in [1..b -> B]
    BY <1>1 DEF IsListing
  <1> HIDE DEF s, t, a, b
  <1>5. /\ DOMAIN l = 1..(a + b)
        /\ \A i \in 1..a : l[i] = s[i]
        /\ \A i \in 1..b : l[a + i] = t[i]
    <2>1. s \in Seq(A) /\ t \in Seq(B) /\ Len(s) = a /\ Len(t) = b
      BY <1>2, <1>4
    <2>2. s \in Seq(A \cup B) /\ t \in Seq(A \cup B)
      BY <1>2, <1>4
    <2>3. l \in Seq(A \cup B) /\ Len(l) = a + b
      BY <2>1, <2>2
    <2>4. \A i \in 1..(a + b) : l[i] = IF i <= a THEN s[i] ELSE t[i - a]
      BY <1>2, <2>1, <2>2
    <2> HIDE DEF l
    <2>5. DOMAIN l = 1..(a + b)
      BY <2>3
    <2>6. \A i \in 1..a : l[i] = s[i]
      BY <1>2, <2>4
    <2>7. ASSUME NEW i \in 1..b
          PROVE  l[a + i] = t[i]
      <3>1. a + i \in 1..(a + b) /\ ~(a + i <= a) /\ (a + i) - a = i
        BY <1>2
      <3> QED BY <2>4, <3>1
    <2> QED BY <2>5, <2>6, <2>7
  <1> HIDE DEF l
  <1>6. \A i \in 1..(a + b) : i \in 1..a \/ \E j \in 1..b : i = a + j
    <2>1. ASSUME NEW i \in 1..(a + b), i \notin 1..a
          PROVE  \E j \in 1..b : i = a + j
      <3>1. i - a \in 1..b /\ i = a + (i - a)
        BY <1>2, <2>1
      <3> QED BY <3>1
    <2> QED BY <2>1
  <1>7. /\ \A i \in 1..a : i \in 1..(a + b)
        /\ \A i \in 1..b : a + i \in 1..(a + b)
    BY <1>2
  <1>8. \A i \in 1..(a + b) : l[i] \in A \cup B
    BY <1>3, <1>5, <1>6 DEF Names
  <1>9. \A x \in A \cup B : \E i \in 1..(a + b) : l[i] = x
    <2>1. \A x \in A : \E i \in 1..(a + b) : l[i] = x
      BY <1>3, <1>5, <1>7 DEF Names
    <2>2. ASSUME NEW x \in B
          PROVE  \E i \in 1..(a + b) : l[i] = x
      <3>1. PICK j \in 1..b : t[j] = x
        BY <1>3 DEF Names
      <3>2. a + j \in 1..(a + b) /\ l[a + j] = x
        BY <1>5, <1>7, <3>1
      <3> QED BY <3>2
    <2> QED BY <2>1, <2>2
  <1>10. ASSUME NEW i \in 1..(a + b), NEW j \in 1..(a + b), i # j
         PROVE  l[i] # l[j]
    <2>1. CASE i \in 1..a /\ j \in 1..a
      BY <1>3, <1>5, <1>10, <2>1 DEF Names
    <2>2. CASE i \in 1..a /\ j \notin 1..a
      <3>1. PICK k \in 1..b : j = a + k
        BY <1>6, <2>2
      <3>2. l[i] \in A /\ l[j] \in B
        BY <1>3, <1>5, <2>2, <3>1 DEF Names
      <3> QED BY <3>2
    <2>3. CASE i \notin 1..a /\ j \in 1..a
      <3>1. PICK k \in 1..b : i = a + k
        BY <1>6, <2>3
      <3>2. l[j] \in A /\ l[i] \in B
        BY <1>3, <1>5, <2>3, <3>1 DEF Names
      <3> QED BY <3>2
    <2>4. CASE i \notin 1..a /\ j \notin 1..a
      <3>1. PICK k \in 1..b : i = a + k
        BY <1>6, <2>4
      <3>2. PICK m \in 1..b : j = a + m
        BY <1>6, <2>4
      <3>3. k # m
        BY <1>10, <3>1, <3>2
      <3>4. l[i] = t[k] /\ l[j] = t[m]
        BY <1>5, <3>1, <3>2
      <3> QED BY <1>3, <3>3, <3>4 DEF Names
    <2> QED BY <2>1, <2>2, <2>3, <2>4
  <1>11. Names(l, 1..(a + b), A \cup B)
    BY <1>8, <1>9, <1>10 DEF Names
  <1>12. a + b \in Nat
    BY <1>2
  <1> QED BY <1>5, <1>11, <1>12 DEF l, s, t, a, b

LEMMA AllRollup ==
  ASSUME NEW A, IsFiniteSet(A), A \subseteq ReportSeries,
         NEW B, IsFiniteSet(B), B \subseteq ReportSeries, A \cap B = {}
  PROVE  RollupOf(FoldLeft(AddSeries, NoBuckets, SetToSeq(A) \o SetToSeq(B)), A \cup B)
  <1> DEFINE l == SetToSeq(A) \o SetToSeq(B)
             n == Cardinality(A) + Cardinality(B)
             M == FoldLeft(AddSeries, NoBuckets, l)
             x == [i \in 1..n |-> Bucketed(l[i].name)]
             u == [i \in 1..n |-> UnitUsageOf(l[i].billing)]
             c == [i \in 1..n |-> 0]
  <1>1. n \in Nat /\ DOMAIN l = 1..n /\ Names(l, 1..n, A \cup B)
    BY BothLists
  <1> HIDE DEF l, n
  <1>2. \A i \in 1..n : l[i] \in ReportSeries
    BY <1>1 DEF Names
  <1>3. \A i \in 1..n : l[i].name \in Nat /\ UnitUsageOf(l[i].billing) \in Nat
    BY <1>2, SeriesFacts
  <1>4. PICK G : /\ G[0] = NoBuckets
                 /\ \A k \in 1..n : G[k] = AddSeries(G[k - 1], l[k])
                 /\ M = G[n]
    BY <1>1, <1>3, ChainOfSeries
  <1>5. \A i \in 1..n : /\ x[i] = Bucketed(l[i].name) /\ u[i] = UnitUsageOf(l[i].billing)
                        /\ c[i] = 0
    OBVIOUS
  <1> HIDE DEF x, u, c, M
  <1>6. RolledUp(G[n], n, x, u, c)
    <2>1. \A k \in 1..n : G[k - 1] \in Rollups => Entered(G[k - 1], G[k], x[k], u[k], c[k])
      BY <1>3, <1>4, <1>5, AddSeriesIs
    <2>2. \A i \in 1..n : u[i] \in Nat /\ c[i] \in Nat
      BY <1>3, <1>5
    <2> QED BY <1>1, <1>4, <2>1, <2>2, RollingUp
  <1>7. RolledUp(M, n, x, u, c)
    BY <1>4, <1>6
  <1>8. A \cup B \subseteq ReportSeries
    OBVIOUS
  <1>9. RollupOf(M, A \cup B)
    BY <1>1, <1>5, <1>7, <1>8, RollupOfListing
  <1> QED BY <1>9 DEF M, l

-----------------------------------------------------------------------------
(* The files of a report agree.                                            *)

LEMMA CostDescends ==
  ASSUME NEW ss, ss \subseteq ReportSeries, IsFiniteSet(ss), Keyed(ss), NEW split
  PROVE  LET rows == UnusedRows(SortUnusedByCost(ss), split)
         IN  \A i, j \in DOMAIN rows : i < j => rows[i].units >= rows[j].units
  <1> DEFINE l    == SortUnusedByCost(ss)
             rows == UnusedRows(l, split)
  <1>1. IsListing(l, ss) /\ \A i, j \in DOMAIN l : i < j => CostsMore(l[i], l[j])
    BY SortUnusedFacts
  <1> HIDE DEF l
  <1>2. \A i \in DOMAIN l : l[i] \in ss
    BY <1>1, ListingFacts
  <1>3. DOMAIN rows = DOMAIN l /\ \A i \in DOMAIN l : rows[i].units = UnitUsageOf(l[i].billing)
    BY <1>2, CostRows
  <1>4. \A i \in DOMAIN l : UnitUsageOf(l[i].billing) \in Nat
    BY <1>2, UnitsAreNat
  <1> HIDE DEF rows
  <1>5. ASSUME NEW i \in DOMAIN l, NEW j \in DOMAIN l, i < j
        PROVE  rows[i].units >= rows[j].units
    <2>1. \/ UnitUsageOf(l[i].billing) > UnitUsageOf(l[j].billing)
          \/ UnitUsageOf(l[i].billing) = UnitUsageOf(l[j].billing)
      BY <1>1, <1>5 DEF CostsMore
    <2> QED BY <1>3, <1>4, <2>1
  <1> QED BY <1>3, <1>5 DEF rows, l

\* The rows of a sorted rollup.
LEMMA RollupRowIs ==
  ASSUME NEW m \in Rollups, IsFiniteSet(DOMAIN m)
  PROVE  /\ \A i \in DOMAIN SortRollup(m) :
              /\ SortRollup(m)[i].metric \in DOMAIN m
              /\ SortRollup(m)[i].bucket = m[SortRollup(m)[i].metric]
         /\ \A i, j \in DOMAIN SortRollup(m) :
              i < j => SortRollup(m)[i].bucket.units >= SortRollup(m)[j].bucket.units
         /\ \A b \in ToSet(SortRollup(m)) : b.metric \in DOMAIN m /\ b.bucket = m[b.metric]
         /\ \A y \in DOMAIN m : \E b \in ToSet(SortRollup(m)) : b.metric = y
  <1> DEFINE l == SortRollup(m)
             S == RollupRows(m)
             row(y) == [metric |-> y, bucket |-> m[y]]
  <1>1. /\ IsListing(l, S) /\ IsFiniteSet(S)
        /\ \A i, j \in DOMAIN l : i < j => Outweighs(l[i], l[j])
    BY SortRollupFacts, RowsAreNamed
  <1>2. /\ \A s \in S : s.metric \in DOMAIN m /\ s.bucket = m[s.metric]
        /\ \A y \in DOMAIN m : row(y) \in S /\ row(y).metric = y
    BY DEF RollupRows
  <1> HIDE DEF l, S, row
  <1>3. /\ \A i \in DOMAIN l : l[i] \in S
        /\ \A s \in S : \E i \in DOMAIN l : l[i] = s
    BY <1>1, ListingFacts
  <1>4. \A i \in DOMAIN l : l[i].metric \in DOMAIN m /\ l[i].bucket = m[l[i].metric]
    BY <1>2, <1>3
  <1>5. \A i \in DOMAIN l : l[i].bucket.units \in Nat
    <2>1. \A y \in DOMAIN m : m[y].units \in Nat
      BY RollupType DEF Bucket
    <2> QED BY <1>4, <2>1
  <1>6. \A i, j \in DOMAIN l : i < j => l[i].bucket.units >= l[j].bucket.units
    BY <1>1, <1>5 DEF Outweighs
  <1>7. ToSet(l) = S
    BY <1>3 DEF ToSet
  <1>8. \A y \in DOMAIN m : \E b \in S : b.metric = y
    BY <1>2
  <1> QED BY <1>2, <1>4, <1>6, <1>7, <1>8 DEF l

LEMMA RollupSums ==
  ASSUME NEW m \in Rollups, IsFiniteSet(DOMAIN m)
  PROVE  LET l == SortRollup(m)
         IN  /\ SumFunction([i \in DOMAIN l |-> l[i].bucket.n])
                  = SumFunctionOnSet(Column(m, "n"), DOMAIN m)
             /\ SumFunction([i \in DOMAIN l |-> l[i].bucket.nb])
                  = SumFunctionOnSet(Column(m, "nb"), DOMAIN m)
             /\ SumFunction([i \in DOMAIN l |-> l[i].bucket.units])
                  = SumFunctionOnSet(Column(m, "units"), DOMAIN m)
  <1> DEFINE l == SortRollup(m)
             a == [i \in DOMAIN l |-> l[i].bucket.n]
             b == [i \in DOMAIN l |-> l[i].bucket.nb]
             c == [i \in DOMAIN l |-> l[i].bucket.units]
  <1>1. \A i \in DOMAIN l : l[i].metric \in DOMAIN m /\ l[i].bucket = m[l[i].metric]
    BY RollupRowIs
  <1>2. \A y \in DOMAIN m : /\ Column(m, "n")[y] = m[y].n /\ m[y].n \in Nat
                            /\ Column(m, "nb")[y] = m[y].nb /\ m[y].nb \in Nat
                            /\ Column(m, "units")[y] = m[y].units /\ m[y].units \in Nat
    <2>1. \A y \in DOMAIN m : m[y] \in Bucket
      BY RollupType
    <2> QED BY <2>1 DEF Column, Bucket
  <1> HIDE DEF l
  <1>3. /\ DOMAIN a = DOMAIN l /\ DOMAIN b = DOMAIN l /\ DOMAIN c = DOMAIN l
        /\ \A i \in DOMAIN l : /\ a[i] = Column(m, "n")[l[i].metric]
                               /\ b[i] = Column(m, "nb")[l[i].metric]
                               /\ c[i] = Column(m, "units")[l[i].metric]
    BY <1>1, <1>2
  <1> HIDE DEF a, b, c
  <1>a. /\ Itemizes(a, Column(m, "n"), m)
        /\ Itemizes(b, Column(m, "nb"), m)
        /\ Itemizes(c, Column(m, "units"), m)
    BY <1>2, <1>3 DEF l, Itemizes
  <1>4. SumFunctionOnSet(a, DOMAIN l) = SumFunctionOnSet(Column(m, "n"), DOMAIN m)
    BY <1>a, RowsAddUp DEF l
  <1>5. SumFunctionOnSet(b, DOMAIN l) = SumFunctionOnSet(Column(m, "nb"), DOMAIN m)
    BY <1>a, RowsAddUp DEF l
  <1>6. SumFunctionOnSet(c, DOMAIN l) = SumFunctionOnSet(Column(m, "units"), DOMAIN m)
    BY <1>a, RowsAddUp DEF l
  <1>7. /\ SumFunction(a) = SumFunctionOnSet(a, DOMAIN l)
        /\ SumFunction(b) = SumFunctionOnSet(b, DOMAIN l)
        /\ SumFunction(c) = SumFunctionOnSet(c, DOMAIN l)
    BY <1>3 DEF SumFunction
  <1> QED BY <1>4, <1>5, <1>6, <1>7 DEF a, b, c, l

\* The buckets of a metric in the rollups of the unused series B and of all.
BucketsAddUp(A, B, y) ==
  /\ Cardinality(InBucket(A \cup B, y)) = Cardinality(InBucket(A, y)) + Cardinality(InBucket(B, y))
  /\ Cardinality(InBucket(A, y)) \in Nat
  /\ Cardinality(InBucket(B, y)) \in Nat
  /\ Cardinality(InBucket(A, y)) = 0 <=> InBucket(A, y) = {}
  /\ SumFunctionOnSet(Units, InBucket(A \cup B, y))
       = SumFunctionOnSet(Units, InBucket(A, y)) + SumFunctionOnSet(Units, InBucket(B, y))
  /\ SumFunctionOnSet(Units, InBucket(A, y)) \in Nat
  /\ SumFunctionOnSet(Units, InBucket(B, y)) \in Nat

LEMMA BucketsOf ==
  ASSUME NEW A, IsFiniteSet(A), A \subseteq ReportSeries,
         NEW B, IsFiniteSet(B), B \subseteq ReportSeries, A \cap B = {}, NEW y
  PROVE  BucketsAddUp(A, B, y)
  <1> DEFINE a == InBucket(A, y)
             b == InBucket(B, y)
  <1>1. a \subseteq A /\ b \subseteq B /\ InBucket(A \cup B, y) = a \cup b
    BY DEF InBucket
  <1> HIDE DEF a, b
  <1>2. IsFiniteSet(a) /\ IsFiniteSet(b) /\ a \cap b = {}
    BY <1>1, FS_Subset
  <1>3. Cardinality(a \cup b) = Cardinality(a) + Cardinality(b) - Cardinality(a \cap b)
    BY <1>2, FS_Union
  <1>4. Cardinality(a) \in Nat /\ Cardinality(b) \in Nat /\ Cardinality({}) = 0
        /\ (Cardinality(a) = 0 <=> a = {})
    BY <1>2, FS_CardinalityType, FS_EmptySet
  <1>5. Cardinality(a \cup b) = Cardinality(a) + Cardinality(b)
    <2> DEFINE m == Cardinality(a)
               n == Cardinality(b)
               k == Cardinality(a \cup b)
    <2>1. k = m + n - 0 /\ m \in Nat /\ n \in Nat
      BY <1>2, <1>3, <1>4
    <2> HIDE DEF m, n, k
    <2>2. k = m + n
      BY ONLY <2>1
    <2> QED BY <2>2 DEF m, n, k
  <1>6. \A s \in a \cup b : Units[s] \in Nat
    <2>1. a \subseteq ReportSeries /\ b \subseteq ReportSeries
      BY <1>1
    <2> QED BY <2>1, SeriesFacts
  <1>7. SumFunctionOnSet(Units, a \cup b)
          = SumFunctionOnSet(Units, a) + SumFunctionOnSet(Units, b)
    BY <1>2, <1>6, SumDisjoint
  <1>8. SumFunctionOnSet(Units, a) \in Nat /\ SumFunctionOnSet(Units, b) \in Nat
    BY <1>2, <1>6, SumIsNat
  <1> QED BY <1>1, <1>4, <1>5, <1>7, <1>8 DEF a, b, BucketsAddUp

\* A metric has a name exactly if its bucket is not that of the unknown ones.
LEMMA BucketOfName ==
  ASSUME NEW S, S \subseteq ReportSeries, NEW y, InBucket(S, y) # {}
  PROVE  y # NoName /\ \A T \in SUBSET ReportSeries :
           y \in NamesOf(Named(T)) <=> y # Unknown /\ InBucket(T, y) # {}
  <1>1. y # NoName
    <2>1. PICK s \in S : Bucketed(s.name) = y
      BY DEF InBucket
    <2>2. NoName # Unknown
      BY NamesAreRanks DEF Unknown
    <2> QED BY <2>1, <2>2 DEF Bucketed
  <1>2. ASSUME NEW T \in SUBSET ReportSeries
        PROVE  y \in NamesOf(Named(T)) <=> y # Unknown /\ InBucket(T, y) # {}
    <2>1. ASSUME NEW t \in T, t.name # NoName, y = t.name
          PROVE  y # Unknown /\ t \in InBucket(T, y)
      <3>1. t.name # 1
        BY SeriesFacts
      <3> QED BY <2>1, <3>1 DEF InBucket, Bucketed, Unknown
    <2>2. ASSUME y # Unknown, NEW t \in InBucket(T, y)
          PROVE  t \in T /\ t.name # NoName /\ y = t.name
      BY <2>2 DEF InBucket, Bucketed
    <2>3. y \in NamesOf(Named(T)) <=> \E t \in T : t.name # NoName /\ y = t.name
      BY DEF NamesOf, Named
    <2> QED BY <2>1, <2>2, <2>3
  <1> QED BY <1>1, <1>2

LEMMA PlanIs ==
  ASSUME NEW A, NEW B
  PROVE  LET o == OTELUnusedProcessorsYAML(A, B)
         IN  /\ SectionOf(o, "drop") = DropMetricNames(Named(A), Named(B))
             /\ SectionOf(o, "strip") = StripStatements(Named(A), Named(B))
  <1> DEFINE d == DropMetricNames(Named(A), Named(B))
             s == StripStatements(Named(A), Named(B))
             plan == [drop |-> d, strip |-> s]
             X == {x \in DOMAIN plan : plan[x] # {}}
             o == [section \in X |-> plan[section]]
  <1>1. OTELUnusedProcessorsYAML(A, B) = o
    BY DEF OTELUnusedProcessorsYAML
  <1>2. DOMAIN plan = {"drop", "strip"} /\ plan["drop"] = d /\ plan["strip"] = s
    OBVIOUS
  <1> HIDE DEF d, s, plan
  <1>3. DOMAIN o = X /\ \A x \in X : o[x] = plan[x]
    OBVIOUS
  <1>4. \A x \in {"drop", "strip"} : x \in X <=> plan[x] # {}
    BY <1>2
  <1> HIDE DEF o, X
  <1>5. SectionOf(o, "drop") = d /\ SectionOf(o, "strip") = s
    BY <1>2, <1>3, <1>4 DEF SectionOf
  <1> QED BY <1>1, <1>5 DEF d, s

\* The rollups of all series and of the unused ones, and the processors.
LEMMA MetricsAgree ==
  ASSUME NEW A, IsFiniteSet(A), A \subseteq ReportSeries,
         NEW B, IsFiniteSet(B), B \subseteq ReportSeries, A \cap B = {},
         NEW all, RollupOf(all, A \cup B), NEW byM, RollupOf(byM, B), NEW y \in DOMAIN all
  PROVE  /\ y \in DropMetricNames(Named(A), Named(B)) <=>
              y # Unknown /\ y \in DOMAIN byM /\ byM[y].n = all[y].n
         /\ y \in DOMAIN byM => byM[y].units <= all[y].units
         /\ (\E k \in Keys : <<y, k>> \in StripStatements(Named(A), Named(B))) =>
              y \in DOMAIN byM /\ byM[y].n < all[y].n
  <1> DEFINE a == Cardinality(InBucket(A, y))
             b == Cardinality(InBucket(B, y))
             n == Cardinality(InBucket(A \cup B, y))
  <1>1. InBucket(A \cup B, y) # {} /\ all[y].n = n
        /\ all[y].units = SumFunctionOnSet(Units, InBucket(A \cup B, y))
    BY DEF RollupOf
  <1>2. /\ y \in DOMAIN byM <=> InBucket(B, y) # {}
        /\ y \in DOMAIN byM => byM[y].n = b
        /\ y \in DOMAIN byM => byM[y].units = SumFunctionOnSet(Units, InBucket(B, y))
    BY DEF RollupOf
  <1>3. /\ n = a + b /\ a \in Nat /\ b \in Nat /\ (a = 0 <=> InBucket(A, y) = {})
        /\ SumFunctionOnSet(Units, InBucket(A \cup B, y))
              = SumFunctionOnSet(Units, InBucket(A, y)) + SumFunctionOnSet(Units, InBucket(B, y))
        /\ SumFunctionOnSet(Units, InBucket(A, y)) \in Nat
        /\ SumFunctionOnSet(Units, InBucket(B, y)) \in Nat
    <2>1. BucketsAddUp(A, B, y)
      BY BucketsOf
    <2> QED BY <2>1 DEF BucketsAddUp
  <1>4. /\ y \in NamesOf(Named(A)) <=> y # Unknown /\ InBucket(A, y) # {}
        /\ y \in NamesOf(Named(B)) <=> y # Unknown /\ InBucket(B, y) # {}
    <2>1. A \cup B \subseteq ReportSeries
      OBVIOUS
    <2> QED BY <1>1, <2>1, BucketOfName
  <1> HIDE DEF a, b, n
  <1>5. y \in DOMAIN byM => (byM[y].n = all[y].n <=> InBucket(A, y) = {})
    BY <1>1, <1>2, <1>3
  <1>6. y \in DropMetricNames(Named(A), Named(B)) <=>
          y \in NamesOf(Named(B)) /\ y \notin NamesOf(Named(A))
    BY DEF DropMetricNames
  <1>7. y \in DropMetricNames(Named(A), Named(B)) <=>
          y # Unknown /\ y \in DOMAIN byM /\ byM[y].n = all[y].n
    BY <1>2, <1>4, <1>5, <1>6
  <1>8. y \in DOMAIN byM => byM[y].units <= all[y].units
    <2> DEFINE p == SumFunctionOnSet(Units, InBucket(A, y))
               q == SumFunctionOnSet(Units, InBucket(B, y))
    <2>1. all[y].units = p + q /\ p \in Nat /\ q \in Nat /\ (y \in DOMAIN byM => byM[y].units = q)
      BY <1>1, <1>2, <1>3
    <2> HIDE DEF p, q
    <2> QED BY <2>1
  <1>9. ASSUME NEW k \in Keys, <<y, k>> \in StripStatements(Named(A), Named(B))
        PROVE  y \in DOMAIN byM /\ byM[y].n < all[y].n
    <2>1. y \in NamesOf(Named(A)) /\ y \in NamesOf(Named(B))
      BY <1>9 DEF StripStatements
    <2>2. y \in DOMAIN byM /\ a # 0
      BY <1>2, <1>3, <1>4, <2>1
    <2> QED BY <1>1, <1>2, <1>3, <2>2
  <1> QED BY <1>7, <1>8, <1>9

-----------------------------------------------------------------------------
(* A report whose counts are right.                                        *)

\* A split series has usage, and shares it with some of those that have.
SplitIsRight(r) ==
  /\ \A s \in r.used \cup r.unused : s.series \in DOMAIN r.split => s.billing # Nil
  /\ \A k \in DOMAIN r.split : r.split[k] <= r.meta.withBilling

Disjoint(a, b) == a \cap b = {}

\* The report r of p has each series of the catalog once.
Counts(p, r) ==
  /\ IsReport(p, r) /\ DOMAIN r.meta = MetaFields
  /\ IsFiniteSet(r.used) /\ IsFiniteSet(r.unused) /\ Disjoint(r.used, r.unused)
  /\ Keyed(r.used \cup r.unused)
  /\ Cardinality(r.used \cup r.unused) = Cardinality(Catalog[p])
  /\ r.meta.unusedWithBilling = Cardinality(WithBilling(r.unused))
  /\ SplitIsRight(r)

LEMMA CatalogFacts ==
  ASSUME NEW p \in Procs, NEW ss, ss \subseteq Catalog[p]
  PROVE  IsFiniteSet(ss) /\ ss \subseteq ReportSeries /\ Keyed(ss) /\ WithBilling(ss) = {}
  <1>1. IsFiniteSet(ss) /\ ss \subseteq ReportSeries
    BY CatalogAssumption, FS_Subset
  <1>2. \A s, t \in ss : s.billing = Nil /\ (s.series = t.series => s = t)
    BY CatalogAssumption
  <1> QED BY <1>1, <1>2 DEF Keyed, WithBilling

LEMMA SplitRows ==
  ASSUME NEW p, NEW r, Counts(p, r)
  PROVE  LET rows == UnusedRows(SortUnusedByCost(r.unused), r.split)
         IN  \A i \in DOMAIN rows :
               rows[i].splitN # 0 => rows[i].present /\ rows[i].splitN <= r.meta.withBilling
  <1> DEFINE l    == SortUnusedByCost(r.unused)
             rows == UnusedRows(l, r.split)
  <1>1. /\ r.unused \subseteq ReportSeries /\ IsFiniteSet(r.unused) /\ Keyed(r.unused)
        /\ SplitIsRight(r)
    BY DEF Counts, IsReport, Keyed
  <1>2. IsListing(l, r.unused)
    BY <1>1, SortUnusedFacts
  <1> HIDE DEF l
  <1>3. \A i \in DOMAIN l : l[i] \in r.unused
    BY <1>1, <1>2, ListingFacts
  <1>4. DOMAIN rows = DOMAIN l
    BY DEF UnusedRows
  <1>5. ASSUME NEW i \in DOMAIN l, rows[i].splitN # 0
        PROVE  rows[i].present /\ rows[i].splitN <= r.meta.withBilling
    <2> DEFINE k == l[i].series
    <2>1. /\ rows[i].splitN = IF k \in DOMAIN r.split /\ r.split[k] > 1 THEN r.split[k] ELSE 0
          /\ rows[i].present <=> l[i].billing # Nil
      BY DEF UnusedRows
    <2>2. k \in DOMAIN r.split /\ rows[i].splitN = r.split[k]
      BY <1>5, <2>1
    <2>3. l[i] \in r.used \cup r.unused
      BY <1>3
    <2> HIDE DEF rows
    <2> QED BY <1>1, <2>1, <2>2, <2>3 DEF SplitIsRight
  <1> HIDE DEF rows
  <1>6. \A i \in DOMAIN rows :
          rows[i].splitN # 0 => rows[i].present /\ rows[i].splitN <= r.meta.withBilling
    BY <1>4, <1>5
  <1> QED BY <1>6 DEF rows, l

\* The answer about billing names the series anew, each once.
LEMMA BilledCounts ==
  ASSUME NEW p \in Procs, NEW share \in Sharings(p), NEW ss, ss \subseteq Catalog[p]
  PROVE  /\ IsFiniteSet(Billed(ss, share)) /\ Cardinality(Billed(ss, share)) = Cardinality(ss)
         /\ \A t \in Billed(ss, share) : \E s \in ss : t.series = s.series
  <1> DEFINE B(s) == [s EXCEPT !.billing = share[GroupOf(s)]]
             b == [s \in ss |-> B(s)]
  <1>1. IsFiniteSet(ss) /\ ss \subseteq ReportSeries /\ Keyed(ss)
    BY CatalogFacts
  <1>2. ASSUME NEW s \in ss PROVE B(s).series = s.series
    BY <1>1 DEF ReportSeries
  <1>3. Billed(ss, share) = {B(s) : s \in ss}
    BY DEF Billed
  <1> HIDE DEF B
  <1>4. \A s \in ss : b[s] = B(s)
    OBVIOUS
  <1> HIDE DEF b
  <1>5. Names(b, ss, Billed(ss, share))
    <2>1. \A s, t \in ss : s # t => b[s] # b[t]
      BY <1>1, <1>2, <1>4 DEF Keyed
    <2> QED BY <1>3, <1>4, <2>1 DEF Names
  <1> QED BY <1>1, <1>2, <1>3, <1>5, CountNamed

LEMMA BilledReport ==
  ASSUME NEW p \in Procs, NEW share \in Sharings(p), NEW a, NEW b,
         a \cup b = Catalog[p], Disjoint(a, b)
  PROVE  LET used == Billed(a, share)
             unused == Billed(b, share)
         IN  /\ IsFiniteSet(used) /\ IsFiniteSet(unused) /\ Disjoint(used, unused)
             /\ Keyed(used \cup unused)
             /\ Cardinality(used \cup unused) = Cardinality(Catalog[p])
  <1> DEFINE used == Billed(a, share)
             unused == Billed(b, share)
             all == Billed(Catalog[p], share)
             B(s) == [s EXCEPT !.billing = share[GroupOf(s)]]
  <1>1. a \subseteq Catalog[p] /\ b \subseteq Catalog[p] /\ Catalog[p] \subseteq Catalog[p]
    OBVIOUS
  <1>2. IsFiniteSet(used) /\ IsFiniteSet(unused)
    BY <1>1, BilledCounts
  <1>3. /\ used = {B(s) : s \in a} /\ unused = {B(s) : s \in b}
        /\ all = {B(s) : s \in Catalog[p]}
    BY DEF Billed
  <1>4. Catalog[p] \subseteq ReportSeries /\ Keyed(Catalog[p])
    BY <1>1, CatalogFacts
  <1>5. ASSUME NEW s \in Catalog[p] PROVE B(s).series = s.series
    BY <1>4 DEF ReportSeries
  <1>6. Cardinality(all) = Cardinality(Catalog[p])
    BY <1>1, BilledCounts
  <1> HIDE DEF B, used, unused, all
  <1>7. used \cup unused = all
    BY <1>3
  <1>8. Keyed(all)
    BY <1>3, <1>4, <1>5 DEF Keyed
  <1>9. Disjoint(used, unused)
    <2>1. ASSUME NEW s \in a, NEW t \in b, B(s) = B(t)
          PROVE  FALSE
      <3>1. s.series = t.series
        BY <1>1, <1>5, <2>1
      <3>2. s = t
        BY <1>1, <1>4, <3>1 DEF Keyed
      <3> QED BY <3>2 DEF Disjoint
    <2> QED BY <1>3, <2>1 DEF Disjoint
  <1> QED BY <1>2, <1>6, <1>7, <1>8, <1>9 DEF used, unused

LEMMA NoCount == Cardinality({}) = 0
  BY FS_EmptySet

LEMMA CountsCorrelated ==
  ASSUME TypeInv, NEW p \in Procs, Correlated(p)
  PROVE  Counts(p, rep'[p])
  <1>1. PICK hit \in SUBSET Catalog[p] :
          rep' = [rep EXCEPT ![p] =
            [used   |-> hit,
             unused |-> Catalog[p] \ hit,
             split  |-> [k \in {} |-> 0],
             meta   |-> [days |-> flags[p].days, months |-> flags[p].months,
                         start |-> 0, end |-> 0, withBilling |-> 0, unusedWithBilling |-> 0]]]
    BY Zenon DEF Correlated
  <1> DEFINE r == rep'[p]
             rest == Catalog[p] \ hit
  <1>2. /\ DOMAIN r = {"used", "unused", "split", "meta"}
        /\ r.used = hit /\ r.unused = rest /\ DOMAIN r.split = {}
        /\ DOMAIN r.meta = MetaFields /\ r.meta.unusedWithBilling = 0
    BY <1>1 DEF TypeInv, MetaFields
  <1>3. hit \cup rest = Catalog[p] /\ Disjoint(hit, rest) /\ rest \subseteq Catalog[p]
    BY DEF Disjoint
  <1> HIDE DEF r, rest
  <1>4. r.used \cup r.unused = Catalog[p]
    BY <1>2, <1>3
  <1>5. /\ IsFiniteSet(hit) /\ IsFiniteSet(rest) /\ WithBilling(rest) = {}
        /\ hit \subseteq ReportSeries /\ rest \subseteq ReportSeries
    BY <1>3, CatalogFacts
  <1>6. Keyed(Catalog[p])
    BY CatalogFacts
  <1>7. IsReport(p, r)
    BY <1>2, <1>4, <1>5 DEF IsReport
  <1>8. SplitIsRight(r)
    BY <1>2 DEF SplitIsRight
  <1>9. Cardinality(WithBilling(r.unused)) = 0
    BY <1>2, <1>5, NoCount
  <1>10. Counts(p, r)
    BY <1>2, <1>3, <1>4, <1>5, <1>6, <1>7, <1>8, <1>9 DEF Counts
  <1> QED BY <1>10 DEF r

\* The request changes the days in meta.
LEMMA CountsAsked ==
  ASSUME TypeInv, NEW p \in Procs, Counts(p, rep[p]), AskBilling(p)
  PROVE  Counts(p, rep'[p])
  <1> DEFINE w == BillingWindowUTC(today, flags[p].days, flags[p].months)
             q == rep[p]
             r == rep'[p]
  <1>1. CASE w = Invalid
    <2>1. rep' = rep
      BY <1>1 DEF AskBilling
    <2> QED BY <2>1
  <1>2. CASE w # Invalid
    <2>1. rep' = [rep EXCEPT ![p].meta.days = w.days,
                             ![p].meta.start = w.start, ![p].meta.end = w.end]
      BY <1>2 DEF AskBilling
    <2> HIDE DEF w
    <2>2. /\ DOMAIN rep = Procs /\ DOMAIN rep[p] = {"used", "unused", "split", "meta"}
          /\ DOMAIN rep[p].meta = MetaFields
      BY DEF TypeInv, Counts, IsReport
    <2>3. /\ DOMAIN r = DOMAIN q /\ r.used = q.used /\ r.unused = q.unused /\ r.split = q.split
          /\ DOMAIN r.meta = MetaFields
          /\ r.meta.withBilling = q.meta.withBilling
          /\ r.meta.unusedWithBilling = q.meta.unusedWithBilling
      BY <2>1, <2>2 DEF MetaFields
    <2> HIDE DEF q, r
    <2>4. Counts(p, r)
      <3>1. Counts(p, q)
        BY DEF q
      <3> QED BY <2>3, <3>1 DEF Counts, IsReport, SplitIsRight
    <2> QED BY <2>4 DEF r
  <1> QED BY <1>1, <1>2

\* The report with the answer about billing.
IsAnswered(r, a, b, n, m, split) ==
  /\ DOMAIN r = {"used", "unused", "split", "meta"} /\ DOMAIN r.meta = MetaFields
  /\ r.used = a /\ r.unused = b /\ r.split = split
  /\ r.meta.withBilling = n /\ r.meta.unusedWithBilling = m

SplitOf(billed) ==
  [k \in {s.series : s \in billed} |->
     Cardinality({s \in billed : \E t \in billed : t.series = k /\ GroupOf(s) = GroupOf(t)})]

LEMMA AnswerIs ==
  ASSUME TypeInv, NEW p \in Procs, Counts(p, rep[p]), BillingReturns(p)
  PROVE  \E share \in Sharings(p) :
           LET used   == Billed(rep[p].used, share)
               unused == Billed(rep[p].unused, share)
               billed == WithBilling(used \cup unused)
           IN  IsAnswered(rep'[p], used, unused, Cardinality(billed),
                          Cardinality(WithBilling(unused)), SplitOf(billed))
  <1>1. PICK share \in Sharings(p) :
          LET used   == Billed(rep[p].used, share)
              unused == Billed(rep[p].unused, share)
              billed == WithBilling(used \cup unused)
          IN  rep' = [rep EXCEPT
                ![p].used = used,
                ![p].unused = unused,
                ![p].split = [k \in {s.series : s \in billed} |->
                   Cardinality({s \in billed : \E t \in billed :
                                  t.series = k /\ GroupOf(s) = GroupOf(t)})],
                ![p].meta.withBilling = Cardinality(billed),
                ![p].meta.unusedWithBilling = Cardinality(WithBilling(unused))]
    BY Zenon DEF BillingReturns, Sharings
  <1> DEFINE used   == Billed(rep[p].used, share)
             unused == Billed(rep[p].unused, share)
             billed == WithBilling(used \cup unused)
             split  == SplitOf(billed)
             n      == Cardinality(billed)
             m      == Cardinality(WithBilling(unused))
  <1>2. rep' = [rep EXCEPT ![p].used = used, ![p].unused = unused, ![p].split = split,
                           ![p].meta.withBilling = n, ![p].meta.unusedWithBilling = m]
    BY <1>1 DEF SplitOf
  <1>3. /\ DOMAIN rep = Procs /\ DOMAIN rep[p] = {"used", "unused", "split", "meta"}
        /\ DOMAIN rep[p].meta = MetaFields
    BY DEF TypeInv, Counts, IsReport
  <1>4. IsAnswered(rep'[p], used, unused, n, m, split)
    <2> HIDE DEF used, unused, split, n, m
    <2> QED BY <1>2, <1>3 DEF MetaFields, IsAnswered
  <1> QED BY <1>4

LEMMA SplitFacts ==
  ASSUME NEW billed, IsFiniteSet(billed)
  PROVE  /\ DOMAIN SplitOf(billed) = {s.series : s \in billed}
         /\ \A k \in DOMAIN SplitOf(billed) : SplitOf(billed)[k] <= Cardinality(billed)
  <1> DEFINE G(k) == {s \in billed : \E t \in billed : t.series = k /\ GroupOf(s) = GroupOf(t)}
             D == {s.series : s \in billed}
  <1>1. SplitOf(billed) = [k \in D |-> Cardinality(G(k))]
    BY DEF SplitOf
  <1>2. ASSUME NEW k PROVE Cardinality(G(k)) <= Cardinality(billed)
    <2>1. G(k) \subseteq billed
      OBVIOUS
    <2> HIDE DEF G
    <2> QED BY <2>1, FS_Subset
  <1> HIDE DEF G, D
  <1>3. DOMAIN SplitOf(billed) = D /\ \A k \in D : SplitOf(billed)[k] = Cardinality(G(k))
    BY <1>1
  <1>4. \A k \in DOMAIN SplitOf(billed) : SplitOf(billed)[k] <= Cardinality(billed)
    BY <1>2, <1>3
  <1> QED BY <1>3, <1>4 DEF D

LEMMA CountsBilled ==
  ASSUME TypeInv, NEW p \in Procs, Counts(p, rep[p]), BillingReturns(p)
  PROVE  Counts(p, rep'[p])
  <1>1. PICK share \in Sharings(p) :
           LET used   == Billed(rep[p].used, share)
               unused == Billed(rep[p].unused, share)
               billed == WithBilling(used \cup unused)
           IN  IsAnswered(rep'[p], used, unused, Cardinality(billed),
                          Cardinality(WithBilling(unused)), SplitOf(billed))
    BY AnswerIs
  <1> DEFINE used   == Billed(rep[p].used, share)
             unused == Billed(rep[p].unused, share)
             billed == WithBilling(used \cup unused)
             r      == rep'[p]
  <1>2. IsAnswered(r, used, unused, Cardinality(billed),
                   Cardinality(WithBilling(unused)), SplitOf(billed))
    BY <1>1
  <1>3. rep[p].used \cup rep[p].unused = Catalog[p] /\ Disjoint(rep[p].used, rep[p].unused)
    BY DEF TypeInv, Shape, Goto, BillingReturns, Counts
  <1>4. /\ IsFiniteSet(used) /\ IsFiniteSet(unused) /\ Disjoint(used, unused)
        /\ Keyed(used \cup unused)
        /\ Cardinality(used \cup unused) = Cardinality(Catalog[p])
    BY <1>3, BilledReport
  <1>5. IsReport(p, r)
    BY AnswerIsReport
  <1> HIDE DEF used, unused, r
  <1>6. IsFiniteSet(billed)
    <2>1. IsFiniteSet(used \cup unused) /\ billed \subseteq used \cup unused
      BY <1>4, FS_Union DEF WithBilling
    <2> QED BY <2>1, FS_Subset
  <1>7. SplitIsRight(r)
    <2>1. r.used = used /\ r.unused = unused /\ r.split = SplitOf(billed)
          /\ r.meta.withBilling = Cardinality(billed)
      BY <1>2 DEF IsAnswered
    <2>2. /\ DOMAIN r.split = {s.series : s \in billed}
          /\ \A k \in DOMAIN r.split : r.split[k] <= Cardinality(billed)
      BY <1>6, <2>1, SplitFacts
    <2>3. ASSUME NEW s \in used \cup unused, s.series \in DOMAIN r.split
          PROVE  s.billing # Nil
      <3>1. PICK t \in billed : t.series = s.series
        <4> HIDE DEF billed
        <4>1. s.series \in {u.series : u \in billed}
          BY <2>2, <2>3
        <4> QED BY <4>1
      <3>2. t \in used \cup unused /\ t.billing # Nil
        BY <3>1 DEF WithBilling
      <3> QED BY <1>4, <3>1, <3>2 DEF Keyed
    <2> QED BY <2>1, <2>2, <2>3 DEF SplitIsRight
  <1>8. Counts(p, r)
    BY <1>2, <1>4, <1>5, <1>7 DEF Counts, IsAnswered
  <1> QED BY <1>8 DEF r

\* From the correlation to the files the report of p is right.
Counted(p) == pc[p] \in {"window", "billing", "team"} => Counts(p, rep[p])

CountedInv == WindowInv /\ \A p \in Procs : Counted(p)

LEMMA CountedRun ==
  ASSUME TypeInv, NEW p \in Procs, Counted(p), Run(p)
  PROVE  Counted(p)'
  <1>a. DOMAIN pc = Procs
    BY DEF TypeInv, Types
  <1>b. SUFFICES ASSUME pc'[p] \in {"window", "billing", "team"}
                 PROVE  Counts(p, rep'[p])
    BY DEF Counted, Counts, IsReport
  <1>c. \A status : ~Return(p, status)
    BY <1>a, <1>b DEF Return
  <1>d. \A from, to : Goto(p, from, to) => pc[p] = from /\ pc'[p] = to
    BY <1>a DEF Goto
  <1>1. CASE FlagsParsed(p)
    <2>1. pc'[p] = IF flags[p].debug THEN "debug" ELSE "scan"
      BY <1>1, <1>d DEF FlagsParsed
    <2> QED BY <1>b, <2>1
  <1>2. CASE DebugBilling(p)
    BY <1>2, <1>b, <1>d DEF DebugBilling
  <1>3. CASE Correlated(p)
    BY <1>3, CountsCorrelated
  <1>4. CASE AskBilling(p)
    <2>1. pc[p] = "window"
      BY <1>4 DEF AskBilling, Goto
    <2> QED BY <1>4, <2>1, CountsAsked DEF Counted
  <1>5. CASE BillingReturns(p)
    <2>1. pc[p] = "billing"
      BY <1>5 DEF BillingReturns, Goto
    <2> QED BY <1>5, <2>1, CountsBilled DEF Counted
  <1>6. CASE ResolveTeamFilenamePrefix(p) \/ MkdirAll(p)
    BY <1>6, <1>b, <1>d DEF ResolveTeamFilenamePrefix, MkdirAll
  <1>7. CASE WriteFile(p)
    BY <1>7, <1>b DEF WriteFile
  <1>8. CASE \/ UsageError(p) \/ ClientFails(p) \/ DebugEnds(p) \/ ScanFails(p)
             \/ MkdirFails(p) \/ WriteFails(p) \/ Finish(p) \/ Kill(p)
    BY <1>8, <1>c DEF UsageError, ClientFails, DebugEnds, ScanFails, MkdirFails, WriteFails,
                      Finish, Kill
  <1> QED BY <1>1, <1>2, <1>3, <1>4, <1>5, <1>6, <1>7, <1>8 DEF Run

LEMMA CountedInit == Init => CountedInv
  <1> SUFFICES ASSUME Init PROVE CountedInv
    OBVIOUS
  <1>1. ASSUME NEW p \in Procs PROVE Counted(p)
    BY DEF Init, Counted
  <1> QED BY <1>1, WindowInit DEF CountedInv

LEMMA CountedNext == ASSUME CountedInv, [Next]_vars PROVE CountedInv'
  <1>1. WindowInv' /\ TypeInv
    BY WindowNext DEF CountedInv, WindowInv
  <1>2. ASSUME NEW q \in Procs PROVE Counted(q)'
    <2>1. Counted(q)
      BY DEF CountedInv
    <2>2. ASSUME pc'[q] = pc[q], rep'[q] = rep[q]
          PROVE  Counted(q)'
      BY <2>1, <2>2 DEF Counted, Counts, IsReport, SplitIsRight
    <2>3. CASE UNCHANGED vars \/ Tick
      BY <2>2, <2>3 DEF vars, Tick
    <2>4. ASSUME NEW p \in Procs, Run(p)
          PROVE  Counted(q)'
      <3>1. Others(p)
        BY <1>1, <2>4, WindowRun DEF CountedInv, WindowInv
      <3>2. CASE q = p
        BY <1>1, <2>1, <2>4, <3>2, CountedRun
      <3>3. CASE q # p
        BY <2>2, <3>1, <3>3 DEF Others
      <3> QED BY <3>2, <3>3
    <2> QED BY <2>3, <2>4 DEF Next
  <1> QED BY <1>1, <1>2 DEF CountedInv

\* What the files of such a report say.
LEMMA CountsAgree ==
  ASSUME NEW p, NEW r, Counts(p, r)
  PROVE  FilesAgree(p, r)
  <1> DEFINE A == r.used
             B == r.unused
             cost == UnusedRows(SortUnusedByCost(B), r.split)
             u == [i \in DOMAIN cost |-> cost[i].units]
             N == FoldLeft(AddRow, NoBuckets, cost)
             M == FoldLeft(AddSeries, NoBuckets, SetToSeq(A) \o SetToSeq(B))
             byM == SortRollup(N)
             all == SortRollup(M)
             plan == OTELUnusedProcessorsYAML(A, B)
             drop == SectionOf(plan, "drop")
             strip == SectionOf(plan, "strip")
             rows(m) == {b \in ToSet(byM) : b.metric = m}
  <1>1. /\ A \subseteq ReportSeries /\ B \subseteq ReportSeries
        /\ IsFiniteSet(A) /\ IsFiniteSet(B) /\ A \cap B = {} /\ Keyed(B)
        /\ Cardinality(A \cup B) = Cardinality(Catalog[p])
        /\ r.meta.unusedWithBilling = Cardinality(WithBilling(B))
    BY DEF Counts, IsReport, Keyed, Disjoint
  <1>2. /\ RollupOf(N, B) /\ DOMAIN cost = 1..Cardinality(B)
        /\ SumFunctionOnSet(Column(N, "nb"), DOMAIN N) = Cardinality(WithBilling(B))
        /\ SumFunctionOnSet(u, DOMAIN cost) = SumFunctionOnSet(Units, B)
    BY <1>1, UnusedRollup
  <1>3. RollupOf(M, A \cup B)
    BY <1>1, AllRollup
  <1>4. \A i, j \in DOMAIN cost : i < j => cost[i].units >= cost[j].units
    BY <1>1, CostDescends
  <1>5. \A i \in DOMAIN cost :
          cost[i].splitN # 0 => cost[i].present /\ cost[i].splitN <= r.meta.withBilling
    BY SplitRows
  <1>6. drop = DropMetricNames(Named(A), Named(B)) /\ strip = StripStatements(Named(A), Named(B))
    BY PlanIs
  <1>7. /\ ContentOf(r).unused_by_cost = cost /\ ContentOf(r).unused_by_metric = byM
        /\ ContentOf(r).all_by_metric = all /\ ContentOf(r).otel_processors = plan
    BY DEF ContentOf, AggregateUnusedByMetric, AggregateAllByMetric
  <1>8. Len(cost) = Cardinality(B)
    <2>1. \E n \in Nat : DOMAIN cost = 1..n
      BY <1>1, <1>2, FS_CardinalityType
    <2> QED BY <1>1, <1>2, FS_CardinalityType
  <1>9. \A x \in ToSet(cost) : x.splitN # 0 => x.present /\ x.splitN <= r.meta.withBilling
    <2> HIDE DEF cost
    <2> QED BY <1>5 DEF ToSet
  <1>10. SumFunction(u) = SumFunctionOnSet(Units, B)
    <2>1. DOMAIN u = DOMAIN cost
      OBVIOUS
    <2> HIDE DEF u, cost
    <2> QED BY <1>2, <2>1 DEF SumFunction
  <1> HIDE DEF cost, u, N, M, plan
  <1>11. /\ N \in Rollups /\ IsFiniteSet(DOMAIN N) /\ M \in Rollups /\ IsFiniteSet(DOMAIN M)
         /\ SumFunctionOnSet(Column(N, "n"), DOMAIN N) = Cardinality(B)
         /\ SumFunctionOnSet(Column(M, "n"), DOMAIN M) = Cardinality(A \cup B)
         /\ SumFunctionOnSet(Column(N, "units"), DOMAIN N) = SumFunctionOnSet(Units, B)
    BY <1>2, <1>3 DEF RollupOf
  <1>12. /\ \A i, j \in DOMAIN byM : i < j => byM[i].bucket.units >= byM[j].bucket.units
         /\ \A b \in ToSet(byM) : b.metric \in DOMAIN N /\ b.bucket = N[b.metric]
         /\ \A y \in DOMAIN N : \E b \in ToSet(byM) : b.metric = y
         /\ \A a \in ToSet(all) : a.metric \in DOMAIN M /\ a.bucket = M[a.metric]
    BY <1>11, RollupRowIs
  <1>13. /\ SumFunction([i \in DOMAIN byM |-> byM[i].bucket.n]) = Len(cost)
         /\ SumFunction([i \in DOMAIN byM |-> byM[i].bucket.units]) = SumFunction(u)
         /\ SumFunction([i \in DOMAIN byM |-> byM[i].bucket.nb]) = r.meta.unusedWithBilling
         /\ SumFunction([i \in DOMAIN all |-> all[i].bucket.n]) = Cardinality(Catalog[p])
    BY <1>1, <1>2, <1>8, <1>10, <1>11, RollupSums
  <1> HIDE DEF byM, all, drop, strip
  <1>14. ASSUME NEW a \in ToSet(all)
         PROVE  /\ a.metric \in drop <=>
                     a.metric # Unknown /\ \E b \in rows(a.metric) : b.bucket.n = a.bucket.n
                /\ \A b \in rows(a.metric) : b.bucket.units <= a.bucket.units
                /\ (\E k \in Keys : <<a.metric, k>> \in strip) =>
                     \E b \in rows(a.metric) : b.bucket.n < a.bucket.n
    <2> DEFINE y == a.metric
    <2>1. y \in DOMAIN M /\ a.bucket = M[y]
      BY <1>12
    <2>2. /\ y \in drop <=> y # Unknown /\ y \in DOMAIN N /\ N[y].n = M[y].n
          /\ y \in DOMAIN N => N[y].units <= M[y].units
          /\ (\E k \in Keys : <<y, k>> \in strip) => y \in DOMAIN N /\ N[y].n < M[y].n
      BY <1>1, <1>2, <1>3, <1>6, <2>1, MetricsAgree
    <2>3. /\ \A b \in rows(y) : y \in DOMAIN N /\ b.bucket = N[y]
          /\ y \in DOMAIN N => \E b \in rows(y) : b.bucket = N[y]
      BY <1>12
    <2> HIDE DEF y
    <2> QED BY <2>1, <2>2, <2>3 DEF y
  <1> QED BY <1>4, <1>7, <1>9, <1>12, <1>13, <1>14 DEF u, drop, strip, FilesAgree

LEMMA CountedInvOK == CountedInv => RollupsAgree
  <1> SUFFICES ASSUME CountedInv, NEW p \in Procs, pc[p] = "team"
               PROVE  FilesAgree(p, rep[p])
    BY Zenon DEF RollupsAgree
  <1>1. Counts(p, rep[p])
    BY DEF CountedInv, Counted
  <1> QED BY <1>1, CountsAgree

\* The files of a report agree, whatever the catalog, its usage figures and
\* their groups, and however many invocations there are.
THEOREM FilesOfAReportAgree == Spec => []RollupsAgree
  <1>1. CountedInv /\ [Next]_vars => CountedInv'
    BY CountedNext
  <1> QED
    BY <1>1, CountedInit, CountedInvOK, PTL DEF Spec
=============================================================================
