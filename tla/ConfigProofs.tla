---------------------------- MODULE ConfigProofs ----------------------------
(***************************************************************************)
(* Lemmas about module Config: what the loop of load_config over the lines *)
(* of lith.conf, and that of main() over its arguments, arrive at, for     *)
(* files and command lines of any length.  Both are folds; that the closed *)
(* form is what a fold computes is shown with the least prefix on which    *)
(* the two would differ.                                                   *)
(***************************************************************************)
EXTENDS Config, WellFoundedInduction, TLAPS

-----------------------------------------------------------------------------
(* Numbers. *)

\* A property that fails somewhere fails somewhere first.
LEMMA LeastNumber ==
    ASSUME NEW S, S \subseteq Nat, S # {}
    PROVE  \E x \in S : \A y \in S : x <= y
<1>1. PICK x \in S : \A y \in S : ~(<<y, x>> \in OpToRel(<, Nat))
  BY WFMin, NatLessThanWellFounded
<1>2. \A y \in S : <<y, x>> \in OpToRel(<, Nat) <=> y < x
  BY DEF OpToRel
<1>3. \A y \in S : ~(y < x)
  BY <1>1, <1>2, Zenon
<1>4. \A y \in S : x <= y
  BY <1>3
<1>5. QED
  BY <1>4

\* Max is the greatest of some positions.
LEMMA MaxIsGreatest ==
    ASSUME NEW n \in Nat, NEW S \in SUBSET (1 .. n), S # {}
    PROVE  Max(S) \in S /\ \A y \in S : Max(S) >= y
<1> DEFINE T == {k \in 0 .. n : n - k \in S}
<1>1. T \subseteq Nat
  OBVIOUS
<1>2. T # {}
  <2>1. PICK z \in S : TRUE
    OBVIOUS
  <2>2. z \in 1 .. n
    OBVIOUS
  <2>3. n - z \in 0 .. n /\ n - (n - z) = z
    BY <2>2
  <2>4. QED
    BY <2>1, <2>3
<1> HIDE DEF T
<1>3. PICK k \in T : \A y \in T : k <= y
  BY <1>1, <1>2, LeastNumber
<1> USE DEF T
<1>4. n - k \in S /\ \A y \in S : n - k >= y
  <2>1. ASSUME NEW y \in S PROVE n - k >= y
    <3>1. n - y \in T
      OBVIOUS
    <3>2. QED
      BY <1>3, <3>1
  <2>2. QED
    BY <1>3, <2>1
<1>5. QED
  BY <1>4 DEF Max

\* A position is the greatest if none of the others is greater.
LEMMA MaxUnique ==
    ASSUME NEW n \in Nat, NEW S \in SUBSET (1 .. n), NEW x \in S, \A y \in S : x >= y
    PROVE  Max(S) = x
<1>1. Max(S) \in S /\ Max(S) >= x
  BY MaxIsGreatest
<1>2. x >= Max(S) /\ Max(S) \in 1 .. n /\ x \in 1 .. n
  BY <1>1
<1>3. QED
  BY <1>1, <1>2

\* The last of the first k positions.
LEMMA UpTo ==
    ASSUME NEW k \in Nat \ {0}
    PROVE  Max(1 .. k) = k
<1>1. 1 .. k \in SUBSET (1 .. k) /\ k \in 1 .. k /\ \A y \in 1 .. k : k >= y
  OBVIOUS
<1>2. QED
  BY <1>1, MaxUnique

-----------------------------------------------------------------------------
(* The loop of load_config. *)

Naming(lines, s, f) == {i \in s : lines[i].key \in KeysOf[f]}

\* What the lines at positions s say.
Says(lines, s) ==
    [f \in DOMAIN Zeroed |-> IF Naming(lines, s, f) = {} THEN Zeroed[f]
                             ELSE Value(f, lines[Max(Naming(lines, s, f))])]

\* One more line, behind the others, is one more assignment.
LEMMA SaysMore ==
    ASSUME NEW n \in Nat, NEW lines, NEW s \in SUBSET (1 .. n), s # {}
    PROVE  Says(lines, s) = Assign(Says(lines, s \ {Max(s)}), lines[Max(s)])
<1> DEFINE x == Max(s)
           r == s \ {x}
<1>1. x \in s /\ \A y \in s : x >= y
  BY MaxIsGreatest
<1> HIDE DEF x
<1>2. DOMAIN Says(lines, r) = DOMAIN Zeroed
  BY DEF Says
<1>3. Assign(Says(lines, r), lines[x]) =
        [f \in DOMAIN Zeroed |-> IF lines[x].key \in KeysOf[f] THEN Value(f, lines[x])
                                 ELSE Says(lines, r)[f]]
  BY <1>2 DEF Assign
<1>4. ASSUME NEW f \in DOMAIN Zeroed
      PROVE  Says(lines, s)[f] = IF lines[x].key \in KeysOf[f] THEN Value(f, lines[x])
                                 ELSE Says(lines, r)[f]
  <2>1. CASE lines[x].key \in KeysOf[f]
    <3>1. x \in Naming(lines, s, f) /\ Naming(lines, s, f) \in SUBSET (1 .. n)
      BY <1>1, <2>1 DEF Naming
    <3>2. \A y \in Naming(lines, s, f) : x >= y
      BY <1>1 DEF Naming
    <3>3. Max(Naming(lines, s, f)) = x
      BY <3>1, <3>2, MaxUnique
    <3>4. QED
      BY <2>1, <3>1, <3>3 DEF Says
  <2>2. CASE lines[x].key \notin KeysOf[f]
    <3>1. Naming(lines, s, f) = Naming(lines, r, f)
      BY <2>2 DEF Naming
    <3>2. QED
      BY <2>2, <3>1 DEF Says
  <2>3. QED
    BY <2>1, <2>2
<1>5. Says(lines, s) = [f \in DOMAIN Zeroed |-> Says(lines, s)[f]]
  BY DEF Says
<1>6. QED
  BY <1>3, <1>4, <1>5 DEF x

\* After all lines, each field has what the last line that names it says.
LEMMA LoopResult ==
    ASSUME NEW T, NEW lines \in Seq(T)
    PROVE  FoldLeft(Assign, Zeroed, lines) = Says(lines, 1 .. Len(lines))
<1> DEFINE n == Len(lines)
           Body(it) == [s \in SUBSET (DOMAIN lines) |->
                          IF s = {} THEN Zeroed
                          ELSE Assign(it[s \ {Max(s)}], lines[Max(s)])]
           It == CHOOSE it : it = Body(it)
           G  == [s \in SUBSET (DOMAIN lines) |-> Says(lines, s)]
<1>1. n \in Nat /\ DOMAIN lines = 1 .. n
  OBVIOUS
<1>2. FoldLeft(Assign, Zeroed, lines) = It[DOMAIN lines]
  BY DEF FoldLeft, MapThenFoldSet
<1>3. G = Body(G)
  <2>1. Says(lines, {}) = Zeroed
    BY DEF Says, Naming, Zeroed
  <2>2. ASSUME NEW s \in SUBSET (DOMAIN lines), s # {}
        PROVE  Says(lines, s) = Assign(G[s \ {Max(s)}], lines[Max(s)])
    <3>1. s \ {Max(s)} \in SUBSET (DOMAIN lines)
      OBVIOUS
    <3>2. s \in SUBSET (1 .. n)
      BY <1>1
    <3> HIDE DEF n
    <3>3. Says(lines, s) = Assign(Says(lines, s \ {Max(s)}), lines[Max(s)])
      BY <1>1, <2>2, <3>2, SaysMore
    <3>4. G[s \ {Max(s)}] = Says(lines, s \ {Max(s)})
      BY <3>1
    <3>5. QED
      BY <3>3, <3>4, Zenon
  <2>3. QED
    BY <2>1, <2>2
<1>4. It = Body(It)
  BY <1>3
<1> HIDE DEF It, n
<1>5. It[{}] = Zeroed
  BY <1>4
<1>6. ASSUME NEW k \in 1 .. n
      PROVE  It[1 .. k] = Assign(It[1 .. k - 1], lines[k])
  <2>1. 1 .. k \in SUBSET (DOMAIN lines) /\ 1 .. k # {} /\ k \in 1 .. k
    BY <1>1
  <2>2. Max(1 .. k) = k
    BY <1>1, UpTo
  <2>3. (1 .. k) \ {k} = 1 .. k - 1
    BY <1>1
  <2>4. QED
    BY <1>4, <2>1, <2>2, <2>3
<1>7. ASSUME NEW k \in 1 .. n
      PROVE  Says(lines, 1 .. k) = Assign(Says(lines, 1 .. k - 1), lines[k])
  <2>1. 1 .. k \in SUBSET (1 .. n) /\ 1 .. k # {} /\ k \in 1 .. k
    BY <1>1
  <2>2. Max(1 .. k) = k
    BY <1>1, UpTo
  <2>3. (1 .. k) \ {k} = 1 .. k - 1
    BY <1>1
  <2>4. QED
    BY <1>1, <2>1, <2>2, <2>3, SaysMore
<1>8. 1 .. 0 = {} /\ Says(lines, {}) = Zeroed
  BY DEF Says, Naming, Zeroed
<1> DEFINE Bad == {k \in 0 .. n : It[1 .. k] # Says(lines, 1 .. k)}
<1>9. Bad = {}
  <2> SUFFICES ASSUME Bad # {} PROVE FALSE
    OBVIOUS
  <2>1. PICK k \in Bad : \A y \in Bad : k <= y
    <3>1. Bad \subseteq Nat
      BY <1>1
    <3> HIDE DEF Bad
    <3>2. QED
      BY <3>1, LeastNumber
  <2>2. k # 0
    BY <1>5, <1>8
  <2>3. k \in 1 .. n /\ k - 1 \in 0 .. n
    BY <1>1, <2>2
  <2>4. It[1 .. k - 1] = Says(lines, 1 .. k - 1)
    BY <2>1, <2>3
  <2>5. QED
    BY <1>6, <1>7, <2>3, <2>4
<1>10. n \in 0 .. n
  BY <1>1
<1>11. It[1 .. n] = Says(lines, 1 .. n)
  BY <1>9, <1>10
<1>12. QED
  BY <1>1, <1>2, <1>11 DEF n

\* A line as load_config takes it apart; the path of a setting is relative or
\* absolute.
Proper(line) ==
    /\ line.num \in Int /\ line.at \in Nat
    /\ line.path.len \in Nat /\ line.path.base \in {"cwd", "abs"}

ProperFile(file) ==
    /\ file.exists \in BOOLEAN /\ \E T : file.lines \in Seq(T)
    /\ \A i \in 1 .. Len(file.lines) : Proper(file.lines[i])

\* A value that fits is stored as it is.
LEMMA ValueFits ==
    ASSUME NEW line, Proper(line), LineFits(line), NEW f
    PROVE  Value(f, line) = IF f \in Numeric THEN line.num ELSE line.path
<1>1. Cut(line.path, SIZE - line.at) = line.path
  BY DEF Cut, Proper, LineFits, SIZE
<1>2. Cut(line.path, SIZE) = line.path
  BY DEF Cut, Proper, LineFits, SIZE
<1>3. QED
  BY <1>1, <1>2 DEF Value

\* The lines that name a field in either case.
Documented(lines, f) ==
    {i \in 1 .. Len(lines) : lines[i].key \in LowerKeys[f] \cup UpperKeys[f]}

\* Where none is in upper case they are the ones load_config recognises.
LEMMA LowerCaseNames ==
    ASSUME NEW file, NEW f \in DOMAIN Zeroed, LowerCase(file, f)
    PROVE  Documented(file.lines, f) = Naming(file.lines, 1 .. Len(file.lines), f)
<1>1. KeysOf = LowerKeys
  BY DEF KeysOf, LowerKeys
<1>2. \A i \in 1 .. Len(file.lines) : file.lines[i].key \notin UpperKeys[f]
  BY DEF LowerCase
<1>3. QED
  BY <1>1, <1>2 DEF Documented, Naming

\* load_config finds what the file as a whole says of a field that it does not
\* name in upper case: a number always, a path if it fits.
LEMMA LoadFindsMeaning ==
    ASSUME NEW file, ProperFile(file), NEW f \in DOMAIN Zeroed, LowerCase(file, f),
           f \in Numeric \/ Fits(file)
    PROVE  LoadConfig(file)[f] = Meant(file, f)
<1> DEFINE lines == file.lines
           named == Naming(lines, 1 .. Len(lines), f)
<1>1. CASE ~file.exists
  BY <1>1 DEF LoadConfig, Meant
<1>2. CASE file.exists
  <2>1. LoadConfig(file) = Says(lines, 1 .. Len(lines))
    BY <1>2, LoopResult DEF LoadConfig, ProperFile
  <2>2. LoadConfig(file)[f] = IF named = {} THEN Zeroed[f] ELSE Value(f, lines[Max(named)])
    BY <2>1 DEF Says
  <2>3. Meant(file, f) = IF named = {} THEN Zeroed[f]
                         ELSE IF f \in Numeric THEN lines[Max(named)].num
                              ELSE lines[Max(named)].path
    <3>1. named = Documented(lines, f)
      BY LowerCaseNames
    <3> HIDE DEF named
    <3>2. QED
      BY <1>2, <3>1 DEF Meant, Documented
  <2>4. CASE named = {}
    BY <2>2, <2>3, <2>4
  <2>5. CASE named # {}
    <3>1. Len(lines) \in Nat /\ named \in SUBSET (1 .. Len(lines))
      BY DEF ProperFile, Naming
    <3> HIDE DEF named, lines
    <3>2. Max(named) \in 1 .. Len(lines)
      BY <2>5, <3>1, MaxIsGreatest
    <3>3. Proper(lines[Max(named)]) /\ (Fits(file) => LineFits(lines[Max(named)]))
      BY <3>2 DEF ProperFile, Fits, lines
    <3>4. CASE Fits(file)
      BY <2>2, <2>3, <2>5, <3>3, <3>4, ValueFits
    <3>5. CASE f \in Numeric
      BY <2>2, <2>3, <2>5, <3>5 DEF Value
    <3>6. QED
      BY <3>4, <3>5
  <2>6. QED
    BY <2>4, <2>5
<1>3. QED
  BY <1>1, <1>2 DEF ProperFile

\* A field that a file names in upper case only, or not at all, is left alone.
LEMMA LoadSkipsUpperCase ==
    ASSUME NEW file, ProperFile(file), file.exists, NEW f \in DOMAIN Zeroed, UpperCase(file, f)
    PROVE  LoadConfig(file)[f] = Zeroed[f]
<1> DEFINE lines == file.lines
<1>1. LoadConfig(file) = Says(lines, 1 .. Len(lines))
  BY LoopResult DEF LoadConfig, ProperFile
<1>2. KeysOf = LowerKeys
  BY DEF KeysOf, LowerKeys
<1>3. Naming(lines, 1 .. Len(lines), f) = {}
  BY <1>2 DEF UpperCase, Naming
<1>4. QED
  BY <1>1, <1>3 DEF Says

\* The port and the flags of a configuration are numbers, whatever the file.
LEMMA LoadTypes ==
    ASSUME NEW file, ProperFile(file)
    PROVE  /\ DOMAIN LoadConfig(file) = DOMAIN Zeroed
           /\ LoadConfig(file).port \in Int
<1>1. "port" \in DOMAIN Zeroed /\ Zeroed.port = 0 /\ "port" \in Numeric
  BY DEF Zeroed, Numeric
<1>2. CASE ~file.exists
  BY <1>2 DEF LoadConfig, Defaults, Zeroed
<1>3. CASE file.exists
  <2> DEFINE lines == file.lines
             named == Naming(lines, 1 .. Len(lines), "port")
  <2>1. LoadConfig(file) = Says(lines, 1 .. Len(lines))
    BY <1>3, LoopResult DEF LoadConfig, ProperFile
  <2>2. /\ DOMAIN LoadConfig(file) = DOMAIN Zeroed
        /\ LoadConfig(file).port = IF named = {} THEN 0 ELSE lines[Max(named)].num
    BY <1>1, <2>1 DEF Says, Value
  <2>3. Len(lines) \in Nat /\ named \in SUBSET (1 .. Len(lines))
    BY DEF ProperFile, Naming
  <2> HIDE DEF named, lines
  <2>4. named # {} => Max(named) \in 1 .. Len(lines)
    BY <2>3, MaxIsGreatest
  <2>5. named # {} => lines[Max(named)].num \in Int
    BY <2>4 DEF ProperFile, Proper, lines
  <2>6. QED
    BY <2>2, <2>5
<1>4. QED
  BY <1>2, <1>3 DEF ProperFile

-----------------------------------------------------------------------------
(* The loop of main() over the arguments. *)

Positive(args, s) == {i \in s : ~args[i].flag /\ args[i].num > 0}

\* The port that the arguments at positions s ask for.
Asks(args, s) == IF Positive(args, s) = {} THEN 0 ELSE args[Max(Positive(args, s))].num

Override(p, a) == IF ~a.flag /\ a.num > 0 THEN a.num ELSE p

\* One more argument, behind the others.
LEMMA AsksMore ==
    ASSUME NEW n \in Nat, NEW args, NEW s \in SUBSET (1 .. n), s # {}
    PROVE  Asks(args, s) = Override(Asks(args, s \ {Max(s)}), args[Max(s)])
<1> DEFINE x == Max(s)
<1>1. x \in s /\ \A y \in s : x >= y
  BY MaxIsGreatest
<1> HIDE DEF x
<1>2. CASE x \in Positive(args, s)
  <2>1. Positive(args, s) \in SUBSET (1 .. n) /\ \A y \in Positive(args, s) : x >= y
    BY <1>1 DEF Positive
  <2>2. Max(Positive(args, s)) = x
    BY <1>2, <2>1, MaxUnique
  <2>3. ~args[x].flag /\ args[x].num > 0
    BY <1>2 DEF Positive
  <2>4. QED
    BY <1>2, <2>2, <2>3 DEF Asks, Override, x
<1>3. CASE x \notin Positive(args, s)
  <2>1. ~(~args[x].flag /\ args[x].num > 0)
    BY <1>1, <1>3 DEF Positive
  <2>2. Positive(args, s) = Positive(args, s \ {x})
    BY <1>3 DEF Positive
  <2>3. QED
    BY <2>1, <2>2 DEF Asks, Override, x
<1>4. QED
  BY <1>2, <1>3

\* After all arguments, the last positive number among them counts.
LEMMA ArgumentsResult ==
    ASSUME NEW T, NEW args \in Seq(T)
    PROVE  PortOverride(args) = Asks(args, 1 .. Len(args))
<1> DEFINE n == Len(args)
           Body(it) == [s \in SUBSET (DOMAIN args) |->
                          IF s = {} THEN 0
                          ELSE Override(it[s \ {Max(s)}], args[Max(s)])]
           It == CHOOSE it : it = Body(it)
           G  == [s \in SUBSET (DOMAIN args) |-> Asks(args, s)]
<1>1. n \in Nat /\ DOMAIN args = 1 .. n
  OBVIOUS
<1>2. PortOverride(args) = It[DOMAIN args]
  BY DEF PortOverride, FoldLeft, MapThenFoldSet, Override
<1>3. Asks(args, {}) = 0
  BY DEF Asks, Positive
<1>4. G = Body(G)
  <2>1. ASSUME NEW s \in SUBSET (DOMAIN args), s # {}
        PROVE  Asks(args, s) = Override(G[s \ {Max(s)}], args[Max(s)])
    <3>1. s \ {Max(s)} \in SUBSET (DOMAIN args)
      OBVIOUS
    <3>2. s \in SUBSET (1 .. n)
      BY <1>1
    <3> HIDE DEF n
    <3>3. Asks(args, s) = Override(Asks(args, s \ {Max(s)}), args[Max(s)])
      BY <1>1, <2>1, <3>2, AsksMore
    <3>4. G[s \ {Max(s)}] = Asks(args, s \ {Max(s)})
      BY <3>1
    <3>5. QED
      BY <3>3, <3>4, Zenon
  <2>2. QED
    BY <1>3, <2>1
<1>5. It = Body(It)
  BY <1>4
<1> HIDE DEF It, n
<1>6. It[{}] = 0
  BY <1>5
<1>7. ASSUME NEW k \in 1 .. n
      PROVE  /\ It[1 .. k] = Override(It[1 .. k - 1], args[k])
             /\ Asks(args, 1 .. k) = Override(Asks(args, 1 .. k - 1), args[k])
  <2>1. 1 .. k \in SUBSET (1 .. n) /\ 1 .. k # {} /\ k \in 1 .. k
    BY <1>1
  <2>2. Max(1 .. k) = k
    BY <1>1, UpTo
  <2>3. (1 .. k) \ {k} = 1 .. k - 1
    BY <1>1
  <2>4. It[1 .. k] = Override(It[1 .. k - 1], args[k])
    BY <1>1, <1>5, <2>1, <2>2, <2>3
  <2>5. Asks(args, 1 .. k) = Override(Asks(args, 1 .. k - 1), args[k])
    BY <1>1, <2>1, <2>2, <2>3, AsksMore
  <2>6. QED
    BY <2>4, <2>5
<1> DEFINE Bad == {k \in 0 .. n : It[1 .. k] # Asks(args, 1 .. k)}
<1>8. Bad = {}
  <2> SUFFICES ASSUME Bad # {} PROVE FALSE
    OBVIOUS
  <2>1. PICK k \in Bad : \A y \in Bad : k <= y
    <3>1. Bad \subseteq Nat
      BY <1>1
    <3> HIDE DEF Bad
    <3>2. QED
      BY <3>1, LeastNumber
  <2>2. k # 0
    <3>1. 1 .. 0 = {}
      OBVIOUS
    <3>2. QED
      BY <1>3, <1>6, <3>1
  <2>3. k \in 1 .. n /\ k - 1 \in 0 .. n
    BY <1>1, <2>2
  <2>4. It[1 .. k - 1] = Asks(args, 1 .. k - 1)
    BY <2>1, <2>3
  <2>5. QED
    BY <1>7, <2>3, <2>4
<1>9. n \in 0 .. n
  BY <1>1
<1>10. It[1 .. n] = Asks(args, 1 .. n)
  BY <1>8, <1>9
<1>11. QED
  BY <1>1, <1>2, <1>10 DEF n

ProperArgs(args) ==
    /\ \E T : args \in Seq(T)
    /\ \A i \in 1 .. Len(args) : args[i].num \in Int

\* It is a number, and the arguments change no other field than two.
LEMMA EffectiveTypes ==
    ASSUME NEW file, ProperFile(file), NEW args, ProperArgs(args), NEW startLen
    PROVE  /\ DOMAIN Effective(LoadConfig(file), args, startLen) = DOMAIN Zeroed
           /\ Effective(LoadConfig(file), args, startLen).port \in Int
<1> DEFINE ports == Positive(args, 1 .. Len(args))
<1>1. PortOverride(args) = IF ports = {} THEN 0 ELSE args[Max(ports)].num
  BY ArgumentsResult DEF ProperArgs, Asks
<1>2. Len(args) \in Nat /\ ports \in SUBSET (1 .. Len(args))
  BY DEF ProperArgs, Positive
<1> HIDE DEF ports
<1>3. ports # {} => Max(ports) \in 1 .. Len(args)
  BY <1>2, MaxIsGreatest
<1>4. PortOverride(args) \in Int
  BY <1>1, <1>3 DEF ProperArgs
<1>5. /\ "port" \in DOMAIN Zeroed /\ DOMAIN LoadConfig(file) = DOMAIN Zeroed
      /\ LoadConfig(file).port \in Int
  BY LoadTypes DEF Zeroed
<1>6. QED
  BY <1>4, <1>5 DEF Effective

\* The port that main() ends up with is the one meant, if it is an argument
\* or the file has no key in upper case.
LEMMA PortIsMeant ==
    ASSUME NEW file, ProperFile(file), NEW args, ProperArgs(args), NEW startLen,
           LowerCase(file, "port") \/ PortOverride(args) > 0
    PROVE  /\ Effective(LoadConfig(file), args, startLen).port = MeantPort(file, args)
           /\ MeantPort(file, args) \in Int
<1> DEFINE ports == Positive(args, 1 .. Len(args))
<1>1. PortOverride(args) = Asks(args, 1 .. Len(args))
  BY ArgumentsResult DEF ProperArgs
<1>2. MeantPort(file, args) = IF ports = {} THEN Meant(file, "port") ELSE args[Max(ports)].num
  BY DEF MeantPort, Positive
<1>3. /\ "port" \in DOMAIN Zeroed /\ DOMAIN LoadConfig(file) = DOMAIN Zeroed
      /\ LoadConfig(file).port \in Int
  BY LoadTypes DEF Zeroed
<1>4. LowerCase(file, "port") => LoadConfig(file).port = Meant(file, "port")
  BY <1>3, LoadFindsMeaning DEF Numeric
<1>5. Effective(LoadConfig(file), args, startLen).port =
        IF PortOverride(args) > 0 THEN PortOverride(args) ELSE LoadConfig(file).port
  BY <1>3 DEF Effective
<1>6. CASE ports = {}
  <2>1. PortOverride(args) = 0
    BY <1>1, <1>6 DEF Asks
  <2>2. LowerCase(file, "port")
    BY <2>1
  <2>3. QED
    BY <1>2, <1>3, <1>4, <1>5, <1>6, <2>1, <2>2
<1>7. CASE ports # {}
  <2>1. Len(args) \in Nat /\ ports \in SUBSET (1 .. Len(args))
    BY DEF ProperArgs, Positive
  <2>2. Max(ports) \in ports
    <3> HIDE DEF ports
    <3> QED BY <1>7, <2>1, MaxIsGreatest
  <2>3. args[Max(ports)].num > 0 /\ args[Max(ports)].num \in Int
    BY <2>2 DEF Positive, ProperArgs
  <2>4. PortOverride(args) = args[Max(ports)].num
    BY <1>1, <1>7 DEF Asks
  <2>5. QED
    BY <1>2, <1>5, <1>7, <2>3, <2>4
<1>8. QED
  BY <1>6, <1>7

\* The directory meant is relative or absolute, and has a length.
LEMMA DirMeant ==
    ASSUME NEW file, ProperFile(file)
    PROVE  /\ Meant(file, "public_dir").len \in Nat
           /\ Meant(file, "public_dir").base \in {"cwd", "abs"}
<1> DEFINE lines == file.lines
           named == Documented(lines, "public_dir")
<1>1. Meant(file, "public_dir") = IF ~file.exists THEN Defaults.public_dir
                                  ELSE IF named = {} THEN Zeroed.public_dir
                                  ELSE lines[Max(named)].path
  BY DEF Meant, Documented, Numeric
<1>2. Len(lines) \in Nat /\ named \in SUBSET (1 .. Len(lines))
  BY DEF ProperFile, Documented
<1> HIDE DEF named, lines
<1>3. named # {} => Max(named) \in 1 .. Len(lines)
  BY <1>2, MaxIsGreatest
<1>4. named # {} => Proper(lines[Max(named)])
  BY <1>3 DEF ProperFile, lines
<1>5. /\ Defaults.public_dir.len = 6 /\ Defaults.public_dir.base = "cwd"
      /\ Zeroed.public_dir.len = 0 /\ Zeroed.public_dir.base = "cwd"
  <2>1. Defaults.public_dir = Path("cwd", "public", 6) /\ Zeroed.public_dir = EmptyPath
    BY DEF Defaults, Zeroed
  <2>2. Path("cwd", "public", 6).len = 6 /\ Path("cwd", "public", 6).base = "cwd"
    BY DEF Path
  <2>3. EmptyPath.len = 0 /\ EmptyPath.base = "cwd"
    BY DEF EmptyPath, Path
  <2>4. QED
    BY <2>1, <2>2, <2>3
<1>6. CASE ~file.exists
  BY <1>1, <1>5, <1>6
<1>7. CASE file.exists /\ named = {}
  BY <1>1, <1>5, <1>7
<1>8. CASE file.exists /\ named # {}
  BY <1>1, <1>4, <1>8 DEF Proper
<1>9. QED
  BY <1>6, <1>7, <1>8

\* The directory served is the one meant, wherever the daemon has gone.
LEMMA DirIsServed ==
    ASSUME NEW file, ProperFile(file), Fits(file), LowerCase(file, "public_dir"), NEW args,
           NEW startLen \in Nat,
           Meant(file, "public_dir").len > 0,
           startLen + 1 + Meant(file, "public_dir").len < SIZE,
           NEW cwd, ~UseDaemon(args) => cwd = "start"
    PROVE  Served(Effective(LoadConfig(file), args, startLen).public_dir, cwd)
             = Served(Meant(file, "public_dir"), "start")
<1> DEFINE dir == Meant(file, "public_dir")
<1>1. "public_dir" \in DOMAIN Zeroed /\ DOMAIN LoadConfig(file) = DOMAIN Zeroed
  BY LoadTypes DEF Zeroed
<1>2. LoadConfig(file).public_dir = dir
  BY <1>1, LoadFindsMeaning
<1>3. Effective(LoadConfig(file), args, startLen).public_dir =
        IF UseDaemon(args) THEN Absolutise(dir, startLen) ELSE dir
  BY <1>1, <1>2 DEF Effective
<1>4. dir.len \in Nat /\ dir.base \in {"cwd", "abs"} /\ dir.len > 0
      /\ startLen + 1 + dir.len < SIZE
  BY DirMeant
<1> HIDE DEF dir
<1>5. CASE ~UseDaemon(args)
  BY <1>3, <1>5 DEF dir
<1>6. CASE UseDaemon(args) /\ dir.base = "abs"
  <2>1. Effective(LoadConfig(file), args, startLen).public_dir = dir
    BY <1>3, <1>6 DEF Absolutise
  <2>2. Served(dir, cwd) = Served(dir, "start")
    BY <1>6 DEF Served, Locate
  <2>3. QED
    BY <2>1, <2>2 DEF dir
<1>7. CASE UseDaemon(args) /\ dir.base = "cwd"
  <2> DEFINE p == Path("start", dir.name, startLen + 1 + dir.len)
  <2>1. p.base = "start" /\ p.name = dir.name /\ p.len = startLen + 1 + dir.len
    BY DEF Path
  <2>2. Absolutise(dir, startLen) = Cut(p, SIZE)
    BY <1>7 DEF Absolutise
  <2> HIDE DEF p
  <2>3. Cut(p, SIZE) = p
    BY <1>4, <2>1 DEF Cut
  <2>4. p.len # 0 /\ dir.len # 0
    BY <1>4, <2>1
  <2>5. Served(p, cwd) = Served(dir, "start")
    BY <1>7, <2>1, <2>4 DEF Served, Locate
  <2>6. QED
    BY <1>3, <1>7, <2>2, <2>3, <2>5 DEF dir
<1>8. QED
  BY <1>4, <1>5, <1>6, <1>7

=============================================================================
