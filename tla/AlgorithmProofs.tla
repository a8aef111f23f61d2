--------------------------- MODULE AlgorithmProofs ---------------------------
(***************************************************************************)
(* What module MCAlgorithms checks for short inputs, for inputs of every   *)
(* length: the parser agrees with its reference on every buffer, so does   *)
(* load_config on every file, and the names of files are right for every   *)
(* directory and path.                                                     *)
(***************************************************************************)
EXTENDS MCAlgorithms, HttpParserProofs, ConfigProofs

-----------------------------------------------------------------------------
(* Names. *)

\* A path as parse_http_request meets it: some prefix of a text, of which the
\* two shortest are the same for all texts.
ProperPath(p) ==
    /\ p = Prefix(p.text, p.keep) /\ p.keep \in Nat
    /\ p.keep <= 1 => p \in {Nothing, Root}

\* The paths that MCAlgorithms enumerates are such paths.
LEMMA AskedAreProper == \A p \in Asked : ProperPath(p)
<1>1. \A text, keep : Prefix(text, keep).text = text /\ Prefix(text, keep).keep = keep
  BY DEF Prefix
<1>2. ASSUME NEW text, NEW keep \in Nat, keep > 1 PROVE ProperPath(Prefix(text, keep))
  BY <1>2 DEF ProperPath, Prefix
<1>3. ProperPath(Nothing) /\ ProperPath(Root)
  BY DEF ProperPath, Nothing, Root, Prefix
<1>4. ProperPath(Index) /\ ProperPath(Style)
  BY <1>2 DEF Index, Style
<1>5. ProperPath(Prefix("/long", 300)) /\ ProperPath(Prefix("/long", 255))
  BY <1>2
<1>6. \A f, k : k \in 2 .. 10 => ProperPath(Prefix(f.text, k))
  BY <1>2
<1>7. QED
  BY <1>3, <1>4, <1>5, <1>6 DEF Asked

\* Of a path that does not fit req->path, the first 255 characters are kept.
LEMMA ExtractedPath ==
    ASSUME NEW p, ProperPath(p)
    PROVE  Extracted(p) = IF p.keep < 256 THEN p ELSE Prefix(p.text, 255)
<1>1. Name(0, p).dir = 0 /\ Name(0, p).path = p
  BY DEF Name
<1>2. LengthOf(Name(0, p)) = p.keep
  BY <1>1 DEF LengthOf, ProperPath
<1>3. Shortened(p, 255) = Prefix(p.text, 255)
  BY DEF Shortened
<1>4. Name(0, Shortened(p, 255)).path = Shortened(p, 255)
  BY DEF Name
<1>5. p.keep \in Nat
  BY DEF ProperPath
<1>6. QED
  BY <1>1, <1>2, <1>3, <1>4, <1>5 DEF Extracted, Copied, MAX_PATH_SIZE

\* The name fits the router's array whatever is asked for.
LEMMA FilePathFits ==
    ASSUME NEW p, ProperPath(p), NEW d \in 0 .. 255
    PROVE  LengthOf(FilePath(d, Extracted(p))) < FILE_PATH
<1>1. Extracted(p).keep \in 0 .. 255
  BY ExtractedPath DEF ProperPath, Prefix
<1>2. Index.keep = 11
  BY DEF Index, Prefix
<1>3. QED
  BY <1>1, <1>2 DEF LengthOf, FilePath, Name, FILE_PATH

\* A cached file is found under its own name, and only there.
LEMMA KeysMatch ==
    ASSUME NEW p, ProperPath(p), NEW d \in 0 .. 255, d + Index.keep < KEY_SIZE,
           NEW b \in BootTypes
    PROVE  LET file == FilePath(d, Extracted(p))
           IN  /\ Key(d, b[1]) = file <=> p = b[1] \/ (p = Root /\ b[1] = Index)
               /\ Key(d, b[1]) = file => get_mime_type(file.path) = b[2]
<1> DEFINE e == Extracted(p)
           file == FilePath(d, e)
<1>1. /\ Index.text = "/index.html" /\ Index.keep = 11 /\ Style.text = "/style.css"
      /\ Style.keep = 10 /\ Root.keep = 1
  BY DEF Index, Style, Root, Prefix
<1>2. e = IF p.keep < 256 THEN p ELSE Prefix(p.text, 255)
  BY ExtractedPath
<1>3. p.keep \in Nat /\ (p.keep >= 256 => e.keep = 255)
  BY <1>2 DEF ProperPath, Prefix
<1>4. \A q : q \in {Index, Style, Root} => (e = q <=> p = q)
  BY <1>1, <1>2, <1>3
<1>5. ASSUME NEW q, q \in {Index, Style} PROVE Key(d, q) = Name(d, q)
  <2>1. LengthOf(Name(d, q)) < 256
    BY <1>1, <1>5 DEF LengthOf, Name, KEY_SIZE
  <2>2. QED
    BY <2>1 DEF Key, Copied, KEY_SIZE
<1>6. \A x, y : Name(d, x) = Name(d, y) <=> x = y
  BY DEF Name
<1>7. file.path = IF e = Root THEN Index ELSE e
  BY DEF FilePath, Name
<1>8. file = Name(d, IF e = Root THEN Index ELSE e)
  BY DEF FilePath
<1>9. Index # Style /\ Index # Root /\ Style # Root
  BY <1>1
<1>10. get_mime_type(Index) = "text/html" /\ get_mime_type(Style) = "text/css"
  <2>1. Style \notin {Index, Prefix(Index.text, 10)}
    BY <1>1, <1>9 DEF Prefix
  <2>2. get_mime_type(Index) = "text/html"
    BY <1>9 DEF get_mime_type
  <2>3. get_mime_type(Style) = "text/css"
    BY <2>1, <1>9 DEF get_mime_type
  <2>4. QED
    BY <2>2, <2>3
<1> HIDE DEF file, e
<1>11. CASE b = <<Index, "text/html">>
  BY <1>11, <1>4, <1>5, <1>6, <1>7, <1>8, <1>9, <1>10 DEF file, e
<1>12. CASE b = <<Style, "text/css">>
  BY <1>12, <1>4, <1>5, <1>6, <1>7, <1>8, <1>9, <1>10 DEF file, e
<1>13. QED
  BY <1>11, <1>12 DEF BootTypes

-----------------------------------------------------------------------------
(* The specification of MCAlgorithms, whatever its bounds. *)

\* The lines that MCAlgorithms enumerates are lines as load_config takes them.
LEMMA SettingsAreProper == \A s \in Settings : Proper(s)
<1> SUFFICES ASSUME NEW s \in Settings PROVE Proper(s)
  OBVIOUS
<1> DEFINE Used == {EmptyPath, Path("cwd", "site", 4), Path("abs", "long", 244),
                     Path("abs", "longer", 245), Path("abs", "a.crt", 6),
                     Path("cwd", "b.crt", 5), Path("abs", "a.key", 6),
                     Path("cwd", "views", 5)}
<1>1. \A key, num, path, at :
        /\ Setting(key, num, path, at).num = num
        /\ Setting(key, num, path, at).path = path
        /\ Setting(key, num, path, at).at = at
  BY DEF Setting
<1>2. s.num \in {0, 1, 8001, 8050} /\ s.at \in {1, 5, 10, 11, 13, 14, 16} /\ s.path \in Used
  BY <1>1 DEF Settings
<1>3. \A p \in Used : p.len \in Nat /\ p.base \in {"cwd", "abs"}
  <2> DEFINE Good(p) == p.len \in Nat /\ p.base \in {"cwd", "abs"}
  <2>1. ASSUME NEW base \in {"cwd", "abs"}, NEW name, NEW len \in Nat
        PROVE  Good(Path(base, name, len))
    BY DEF Path
  <2> HIDE DEF Good
  <2>2. /\ Good(EmptyPath) /\ Good(Path("cwd", "site", 4)) /\ Good(Path("abs", "long", 244))
        /\ Good(Path("abs", "longer", 245)) /\ Good(Path("abs", "a.crt", 6))
        /\ Good(Path("cwd", "b.crt", 5)) /\ Good(Path("abs", "a.key", 6))
        /\ Good(Path("cwd", "views", 5))
    <3>1. {0, 4, 5, 6, 244, 245} \subseteq Nat
      OBVIOUS
    <3>2. /\ Good(EmptyPath) /\ Good(Path("cwd", "site", 4)) /\ Good(Path("cwd", "b.crt", 5))
          /\ Good(Path("cwd", "views", 5))
      BY <2>1, <3>1, Zenon DEF EmptyPath
    <3>3. Good(Path("abs", "long", 244)) /\ Good(Path("abs", "longer", 245))
      BY <2>1, <3>1, Zenon
    <3>4. Good(Path("abs", "a.crt", 6)) /\ Good(Path("abs", "a.key", 6))
      BY <2>1, <3>1, Zenon
    <3>5. QED
      BY <3>2, <3>3, <3>4
  <2>3. \A p \in Used : Good(p)
    BY <2>2
  <2>4. QED
    BY <2>3 DEF Good
<1> HIDE DEF Used
<1>4. QED
  BY <1>2, <1>3 DEF Proper

\* What is generated: a buffer of tokens, the lines of a file, and a request
\* for a path.
InputsInv ==
    /\ buffer \in Seq(Tokens) /\ lines \in Seq(Settings)
    /\ asked.dir \in DirLengths /\ ProperPath(asked.path)

\* The generated inputs are inputs of the algorithms.
LEMMA InputsAreProper == Spec => []InputsInv
<1>1. Init => InputsInv
  <2>1. NoOne.dir \in DirLengths /\ NoOne.path = Nothing
    BY DEF NoOne, DirLengths
  <2>2. Nothing \in Asked /\ <<>> \in Seq(Tokens) /\ <<>> \in Seq(Settings)
    BY DEF Asked
  <2>3. QED
    BY <2>1, <2>2, AskedAreProper DEF Init, InputsInv
<1>2. InputsInv /\ [Ask \/ Receive \/ Edit]_vars => InputsInv'
  <2> SUFFICES ASSUME InputsInv, [Ask \/ Receive \/ Edit]_vars PROVE InputsInv'
    OBVIOUS
  <2>1. CASE Ask
    BY <2>1, AskedAreProper DEF Ask, InputsInv
  <2>2. CASE Receive
    BY <2>2 DEF Receive, InputsInv
  <2>3. CASE Edit
    BY <2>3 DEF Edit, InputsInv
  <2>4. CASE UNCHANGED vars
    BY <2>4 DEF InputsInv, vars
  <2>5. QED
    BY <2>1, <2>2, <2>3, <2>4
<1>3. QED
  BY <1>1, <1>2, PTL DEF Spec

\* parse_http_request finds what a well-formed request means, in a buffer of
\* any length and with any kinds of lines.
THEOREM ParserIsRight == Spec => []ParserAgrees
<1>1. InputsInv => ParserAgrees
  BY ParserFindsMeaning DEF InputsInv, ParserAgrees
<1>2. QED
  BY <1>1, InputsAreProper, PTL

\* What arrives behind a complete head does not change the result, in a buffer
\* of any length, as far as the head has the headers in their first spelling.
THEOREM BodyMayComeLater == Spec => BodyIsInert
<1>1. ASSUME InputsInv, [Ask \/ Receive \/ Edit]_vars,
             HeadComplete(buffer), Len(buffer') > Len(buffer)
      PROVE  \E t \in Tokens : buffer' = Append(buffer, t)
  <2>1. Receive
    BY <1>1 DEF InputsInv, Ask, Edit, vars
  <2>2. QED
    BY <2>1 DEF Receive
<1> DEFINE Unmoved(b, a) ==
             LET early == Parse(b)
                 late  == Parse(a)
             IN  /\ late.ok /\ late.method = early.method /\ late.body_start = early.body_start
                 /\ Canonical(b, LengthNames) => late.content_length = early.content_length
                 /\ Canonical(b, ConnectionNames) => late.keep_alive = early.keep_alive
<1>2. ASSUME InputsInv, HeadComplete(buffer), NEW t \in Tokens
      PROVE  Unmoved(buffer, Append(buffer, t))
  BY <1>2, ParserIgnoresBody DEF InputsInv
<1>3. InputsInv /\ [Ask \/ Receive \/ Edit]_vars
        => [HeadComplete(buffer) /\ Len(buffer') > Len(buffer) => Unmoved(buffer, buffer')]_vars
  <2> HIDE DEF Unmoved
  <2>1. QED
    BY <1>1, <1>2
<1>4. QED
  BY <1>3, InputsAreProper, PTL DEF Spec, BodyIsInert

\* For every directory and every path of a request, the name fits, a cached
\* file is found under its own name and "/", and by no other request.
THEOREM NamesAreRight == Spec => []NamesAgree
<1>1. InputsInv => NamesAgree
  BY FilePathFits, KeysMatch DEF InputsInv, NamesAgree, DirLengths
<1>2. QED
  BY <1>1, InputsAreProper, PTL

\* load_config finds what the file as a whole says of a field, in a file of any
\* length whose lines fit and do not name it in upper case; if they name it in
\* upper case only, it stays zero.
THEOREM ConfigIsRight == Spec => []ConfigAgrees
<1>1. InputsInv => ConfigAgrees
  <2> SUFFICES ASSUME InputsInv, NEW f \in DOMAIN Zeroed
               PROVE  LET file == [exists |-> TRUE, lines |-> lines]
                      IN  /\ Fits(file) /\ LowerCase(file, f)
                               => LoadConfig(file)[f] = Meant(file, f)
                          /\ UpperCase(file, f) => LoadConfig(file)[f] = Zeroed[f]
    BY DEF ConfigAgrees
  <2> DEFINE file == [exists |-> TRUE, lines |-> lines]
  <2>1. file.exists = TRUE /\ file.lines = lines
    OBVIOUS
  <2>2. ProperFile(file)
    <3> HIDE DEF file
    <3>1. \A i \in 1 .. Len(lines) : Proper(lines[i])
      BY SettingsAreProper DEF InputsInv
    <3>2. \E T : lines \in Seq(T)
      BY DEF InputsInv
    <3>3. QED
      BY <2>1, <3>1, <3>2 DEF ProperFile
  <2> HIDE DEF file
  <2>3. Fits(file) /\ LowerCase(file, f) => LoadConfig(file)[f] = Meant(file, f)
    BY <2>2, LoadFindsMeaning
  <2>4. UpperCase(file, f) => LoadConfig(file)[f] = Zeroed[f]
    BY <2>1, <2>2, LoadSkipsUpperCase
  <2>5. QED
    BY <2>3, <2>4 DEF file
<1>2. QED
  BY <1>1, InputsAreProper, PTL

=============================================================================
