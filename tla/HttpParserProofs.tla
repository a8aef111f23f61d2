-------------------------- MODULE HttpParserProofs --------------------------
(***************************************************************************)
(* Lemmas about parse_http_request as module HttpParser has it: what a     *)
(* chain of strstr calls finds, that it agrees with the meaning of a well- *)
(* formed request, and what arrives behind a complete head cannot change.  *)
(* They hold for buffers of any length, and need no induction: what strstr *)
(* finds is the least of a set of positions.                               *)
(***************************************************************************)
EXTENDS HttpParser, WellFoundedInduction, TLAPS

-----------------------------------------------------------------------------
(* strstr. *)

\* A non-empty set of numbers has a least element, and Min is it.
LEMMA MinIsLeast ==
    ASSUME NEW S, S \subseteq Nat, S # {}
    PROVE  Min(S) \in S /\ \A y \in S : Min(S) <= y
<1>1. PICK x \in S : \A y \in S : ~(<<y, x>> \in OpToRel(<, Nat))
  BY WFMin, NatLessThanWellFounded
<1>2. \A y \in S : <<y, x>> \in OpToRel(<, Nat) <=> y < x
  BY DEF OpToRel
<1>3. \A y \in S : ~(y < x)
  BY <1>1, <1>2, Zenon
<1>4. \A y \in S : x <= y
  BY <1>3
<1>5. QED
  BY <1>4 DEF Min

\* The search for a line finds the first one of its kind, or none.
LEMMA StrstrFinds ==
    ASSUME NEW T, NEW b \in Seq(T), NEW name
    PROVE  /\ Strstr(b, name) \in 0 .. Len(b)
           /\ Strstr(b, name) = 0 => \A i \in 1 .. Len(b) : b[i].kind # name
           /\ Strstr(b, name) # 0 => /\ b[Strstr(b, name)].kind = name
                                     /\ \A i \in 1 .. Strstr(b, name) - 1 : b[i].kind # name
<1> DEFINE I == {i \in 1 .. Len(b) : b[i].kind = name}
<1>1. Strstr(b, name) = IF I # {} THEN Min(I) ELSE 0
  BY DEF Strstr, SelectInSeq
<1>2. CASE I = {}
  BY <1>1, <1>2
<1>3. CASE I # {}
  <2>1. I \subseteq Nat
    OBVIOUS
  <2> HIDE DEF I
  <2>2. Min(I) \in I /\ \A y \in I : Min(I) <= y
    BY <1>3, <2>1, MinIsLeast
  <2>3. Strstr(b, name) \in I /\ \A y \in I : Strstr(b, name) <= y
    BY <1>1, <1>3, <2>2
  <2> USE DEF I
  <2>4. Strstr(b, name) \in 1 .. Len(b) /\ b[Strstr(b, name)].kind = name
    BY <2>3
  <2>5. ASSUME NEW i \in 1 .. Strstr(b, name) - 1 PROVE b[i].kind # name
    BY <2>3, <2>4
  <2>6. QED
    BY <2>4, <2>5
<1>4. QED
  BY <1>2, <1>3

\* Two searches that cannot be told apart by what they found are the same.
LEMMA StrstrUnique ==
    ASSUME NEW T, NEW b \in Seq(T), NEW name, NEW n \in 1 .. Len(b),
           b[n].kind = name, \A i \in 1 .. n - 1 : b[i].kind # name
    PROVE  Strstr(b, name) = n
  BY StrstrFinds

\* So does a chain of searches for the spellings of a header, except that the
\* first spelling that occurs counts.
LEMMA FindHeaderFinds ==
    ASSUME NEW T, NEW b \in Seq(T), NEW names, Len(names) \in Nat, DOMAIN names = 1 .. Len(names)
    PROVE  /\ FindHeader(b, names) \in 0 .. Len(b)
           /\ FindHeader(b, names) = 0 =>
                 \A i \in 1 .. Len(b) : b[i].kind \notin Range(names)
           /\ FindHeader(b, names) # 0 => b[FindHeader(b, names)].kind \in Range(names)
<1> DEFINE found == {k \in 1 .. Len(names) : Strstr(b, names[k]) # 0}
<1>1. FindHeader(b, names) = IF found = {} THEN 0 ELSE Strstr(b, names[Min(found)])
  BY DEF FindHeader
<1>2. \A k \in 1 .. Len(names) :
         /\ Strstr(b, names[k]) \in 0 .. Len(b)
         /\ Strstr(b, names[k]) = 0 => \A i \in 1 .. Len(b) : b[i].kind # names[k]
         /\ Strstr(b, names[k]) # 0 => b[Strstr(b, names[k])].kind = names[k]
  BY StrstrFinds
<1>3. Range(names) = {names[k] : k \in 1 .. Len(names)}
  BY DEF Range
<1>4. CASE found = {}
  <2>1. \A k \in 1 .. Len(names) : Strstr(b, names[k]) = 0
    BY <1>4
  <2>2. \A i \in 1 .. Len(b) : b[i].kind \notin Range(names)
    BY <2>1, <1>2, <1>3
  <2>3. QED
    BY <2>2, <1>1, <1>4
<1>5. CASE found # {}
  <2>1. found \subseteq Nat
    OBVIOUS
  <2>2. Min(found) \in found
    <3> HIDE DEF found
    <3> QED BY <1>5, <2>1, MinIsLeast
  <2>3. PICK k \in 1 .. Len(names) : k = Min(found) /\ Strstr(b, names[k]) # 0
    BY <2>2
  <2>4. FindHeader(b, names) = Strstr(b, names[k])
    BY <1>1, <1>5, <2>3
  <2>5. QED
    BY <2>3, <2>4, <1>2, <1>3
<1>6. QED
  BY <1>4, <1>5

-----------------------------------------------------------------------------
(* The meaning of a request. *)

\* The first header line of the head that sets the length, or none.
LEMMA FirstLength ==
    ASSUME NEW T, NEW h \in Seq(T)
    PROVE  /\ SelectInSeq(h, IsLength) \in 0 .. Len(h)
           /\ SelectInSeq(h, IsLength) = 0 => \A i \in 1 .. Len(h) : ~IsLength(h[i])
           /\ SelectInSeq(h, IsLength) # 0 => IsLength(h[SelectInSeq(h, IsLength)])
<1> DEFINE I == {i \in 1 .. Len(h) : IsLength(h[i])}
<1>1. SelectInSeq(h, IsLength) = IF I # {} THEN Min(I) ELSE 0
  BY DEF SelectInSeq
<1>2. I \subseteq Nat
  OBVIOUS
<1>3. I # {} => Min(I) \in I
  <2> HIDE DEF I
  <2> QED BY <1>2, MinIsLeast
<1>4. QED
  BY <1>1, <1>3

\* The same for the header that says whether the connection persists.
LEMMA FirstConnection ==
    ASSUME NEW T, NEW h \in Seq(T)
    PROVE  /\ SelectInSeq(h, IsConnection) \in 0 .. Len(h)
           /\ SelectInSeq(h, IsConnection) = 0 => \A i \in 1 .. Len(h) : ~IsConnection(h[i])
           /\ SelectInSeq(h, IsConnection) # 0 => IsConnection(h[SelectInSeq(h, IsConnection)])
<1> DEFINE I == {i \in 1 .. Len(h) : IsConnection(h[i])}
<1>1. SelectInSeq(h, IsConnection) = IF I # {} THEN Min(I) ELSE 0
  BY DEF SelectInSeq
<1>2. I \subseteq Nat
  OBVIOUS
<1>3. I # {} => Min(I) \in I
  <2> HIDE DEF I
  <2> QED BY <1>2, MinIsLeast
<1>4. QED
  BY <1>1, <1>3

\* The spellings that parse_http_request tries are all the spellings there are.
LEMMA Spellings ==
    /\ Len(LengthNames) = 3 /\ DOMAIN LengthNames = 1 .. 3
    /\ Len(ConnectionNames) = 3 /\ DOMAIN ConnectionNames = 1 .. 3
    /\ Range(LengthNames) = {"Content-Length", "content-length", "CONTENT-LENGTH"}
    /\ Range(ConnectionNames) = {"Connection", "connection", "CONNECTION"}
<1>1. \A x, y, z : Range(<<x, y, z>>) = {x, y, z}
  <2> TAKE x, y, z
  <2>1. DOMAIN <<x, y, z>> = {1, 2, 3}
    OBVIOUS
  <2>2. Range(<<x, y, z>>) = {<<x, y, z>>[i] : i \in {1, 2, 3}}
    BY <2>1 DEF Range
  <2> QED BY <2>2
<1>2. \A x, y, z : Len(<<x, y, z>>) = 3 /\ DOMAIN <<x, y, z>> = 1 .. 3
  OBVIOUS
<1>3. QED
  BY <1>1, <1>2, Zenon DEF LengthNames, ConnectionNames

\* The head is what stands before the first blank line.
LEMMA HeadIsPrefix ==
    ASSUME NEW T, NEW b \in Seq(T), HeadComplete(b)
    PROVE  /\ Strstr(b, "end") \in 2 .. Len(b) /\ b[Strstr(b, "end")].kind = "end"
           /\ \A i \in 1 .. Strstr(b, "end") - 1 : b[i].kind # "end"
           /\ HeadLines(b) \in Seq(T) /\ Len(HeadLines(b)) = Strstr(b, "end") - 1
           /\ \A i \in 1 .. Strstr(b, "end") - 1 : HeadLines(b)[i] = b[i]
<1>1. /\ Strstr(b, "end") \in 1 .. Len(b) /\ b[Strstr(b, "end")].kind = "end"
      /\ \A i \in 1 .. Strstr(b, "end") - 1 : b[i].kind # "end"
  BY StrstrFinds DEF HeadComplete
<1>2. Strstr(b, "end") # 1
  BY <1>1 DEF HeadComplete
<1>3. QED
  BY <1>1, <1>2 DEF HeadLines

\* On a well-formed request parse_http_request, which searches the whole
\* buffer, finds what the head says.
LEMMA ParserFindsMeaning ==
    ASSUME NEW T, NEW b \in Seq(T), WellFormed(b)
    PROVE  Parse(b) = Meaning(b)
<1> DEFINE e == Strstr(b, "end")
           h == HeadLines(b)
           f == FindHeader(b, LengthNames)
           l == SelectInSeq(h, IsLength)
           g == FindHeader(b, ConnectionNames)
           c == SelectInSeq(h, IsConnection)
<1>1. /\ HeadComplete(b)
      /\ Once(b, Range(LengthNames)) /\ Once(b, Range(ConnectionNames))
      /\ \A i \in e + 1 .. Len(b) : b[i].kind = "b"
  BY DEF WellFormed
<1>2. /\ e \in 2 .. Len(b) /\ b[e].kind = "end"
      /\ h \in Seq(T) /\ Len(h) = e - 1 /\ \A i \in 1 .. e - 1 : h[i] = b[i]
  BY <1>1, HeadIsPrefix
<1>3. /\ \A t : IsLength(t) <=> t.kind \in Range(LengthNames)
      /\ \A t : IsConnection(t) <=> t.kind \in Range(ConnectionNames)
      /\ \A s \in {"end", "b"} : s \notin Range(LengthNames) /\ s \notin Range(ConnectionNames)
  BY Spellings DEF IsLength, IsConnection
<1>4. /\ f \in 0 .. Len(b)
      /\ f = 0 => \A i \in 1 .. Len(b) : b[i].kind \notin Range(LengthNames)
      /\ f # 0 => b[f].kind \in Range(LengthNames)
  BY FindHeaderFinds, Spellings
<1>5. /\ g \in 0 .. Len(b)
      /\ g = 0 => \A i \in 1 .. Len(b) : b[i].kind \notin Range(ConnectionNames)
      /\ g # 0 => b[g].kind \in Range(ConnectionNames)
  BY FindHeaderFinds, Spellings
<1>6. /\ l \in 0 .. e - 1
      /\ l = 0 => \A i \in 1 .. e - 1 : b[i].kind \notin Range(LengthNames)
      /\ l # 0 => h[l] = b[l] /\ b[l].kind \in Range(LengthNames)
  <2>1. /\ l \in 0 .. Len(h)
        /\ l = 0 => \A i \in 1 .. Len(h) : ~IsLength(h[i])
        /\ l # 0 => IsLength(h[l])
    BY <1>2, FirstLength
  <2> HIDE DEF e, h, l
  <2>2. \A t : IsLength(t) <=> t.kind \in Range(LengthNames)
    BY <1>3
  <2>3. QED
    BY <1>2, <2>1, <2>2
<1>7. /\ c \in 0 .. e - 1
      /\ c = 0 => \A i \in 1 .. e - 1 : b[i].kind \notin Range(ConnectionNames)
      /\ c # 0 => h[c] = b[c] /\ b[c].kind \in Range(ConnectionNames)
  <2>1. /\ c \in 0 .. Len(h)
        /\ c = 0 => \A i \in 1 .. Len(h) : ~IsConnection(h[i])
        /\ c # 0 => IsConnection(h[c])
    BY <1>2, FirstConnection
  <2> HIDE DEF e, h, c
  <2>2. \A t : IsConnection(t) <=> t.kind \in Range(ConnectionNames)
    BY <1>3
  <2>3. QED
    BY <1>2, <2>1, <2>2
<1> HIDE DEF e, h, f, l, g, c
<1>8. \A i \in e .. Len(b) : /\ b[i].kind \notin Range(LengthNames)
                             /\ b[i].kind \notin Range(ConnectionNames)
  BY <1>1, <1>2, <1>3
<1>9. l = f
  BY <1>1, <1>2, <1>4, <1>6, <1>8 DEF Once
<1>10. c = g
  BY <1>1, <1>2, <1>5, <1>7, <1>8 DEF Once
<1>11. ContentLength(b) = IF l = 0 THEN 0 ELSE h[l].value
  BY <1>6, <1>9 DEF ContentLength, f
<1>12. KeepAlive(b) = (c = 0 \/ h[c].value # CLOSE)
  BY <1>7, <1>10 DEF KeepAlive, g
<1>13. BodyStart(b) = Len(h) + 2
  BY <1>2 DEF BodyStart, e
<1>14. Parse(b) = [ok |-> TRUE, method |-> b[1].kind, content_length |-> ContentLength(b),
                  keep_alive |-> KeepAlive(b), body_start |-> BodyStart(b)]
  BY <1>1 DEF Parse, HeadComplete
<1>15. Meaning(b) = [ok |-> TRUE, method |-> b[1].kind,
                    content_length |-> IF l = 0 THEN 0 ELSE h[l].value,
                    keep_alive |-> (c = 0 \/ h[c].value # CLOSE), body_start |-> Len(h) + 2]
  BY DEF Meaning, h, l, c
<1>16. QED
  BY <1>11, <1>12, <1>13, <1>14, <1>15

\* The part of a well-formed request that has arrived is well-formed, and
\* means the same, as soon as it has its blank line.
LEMMA PrefixMeansTheSame ==
    ASSUME NEW T, NEW b \in Seq(T), WellFormed(b), NEW k \in Strstr(b, "end") .. Len(b)
    PROVE  /\ WellFormed(SubSeq(b, 1, k))
           /\ Meaning(SubSeq(b, 1, k)) = Meaning(b)
<1> DEFINE e == Strstr(b, "end")
           p == SubSeq(b, 1, k)
<1>1. /\ HeadComplete(b)
      /\ Once(b, Range(LengthNames)) /\ Once(b, Range(ConnectionNames))
      /\ \A i \in e + 1 .. Len(b) : b[i].kind = "b"
  BY DEF WellFormed
<1>2. e \in 2 .. Len(b) /\ b[e].kind = "end" /\ \A i \in 1 .. e - 1 : b[i].kind # "end"
  BY <1>1, HeadIsPrefix
<1>3. p \in Seq(T) /\ Len(p) = k /\ \A i \in 1 .. k : p[i] = b[i]
  BY <1>2
<1> HIDE DEF e, p
<1>4. Strstr(p, "end") = e
  <2>1. e \in 1 .. Len(p) /\ p[e].kind = "end" /\ \A i \in 1 .. e - 1 : p[i].kind # "end"
    BY <1>2, <1>3 DEF e
  <2>2. QED
    BY <2>1, <1>3, StrstrUnique
<1>5. HeadComplete(p)
  BY <1>1, <1>2, <1>3, <1>4 DEF HeadComplete, e
<1>6. WellFormed(p)
  <2>1. ASSUME NEW names, Once(b, names) PROVE Once(p, names)
    <3> SUFFICES ASSUME NEW i \in 1 .. k, NEW j \in 1 .. k,
                        p[i].kind \in names, p[j].kind \in names
                 PROVE  i = j
      BY <1>3 DEF Once
    <3>1. i \in 1 .. Len(b) /\ j \in 1 .. Len(b)
      BY <1>2 DEF e
    <3>2. QED
      BY <2>1, <3>1, <1>3 DEF Once
  <2>2. \A i \in e + 1 .. Len(p) : p[i].kind = "b"
    BY <1>1, <1>2, <1>3 DEF e
  <2>3. QED
    BY <1>1, <2>1, <2>2, <1>4, <1>5 DEF WellFormed
<1>7. HeadLines(p) = HeadLines(b)
  <2>1. SubSeq(p, 1, e - 1) = SubSeq(b, 1, e - 1)
    BY <1>2, <1>3 DEF e
  <2>2. QED
    BY <2>1, <1>4 DEF HeadLines, e
<1>8. p[1].kind = b[1].kind
  BY <1>2, <1>3 DEF e
<1>9. QED
  BY <1>6, <1>7, <1>8 DEF Meaning, p

\* A line that has been found stays the first of its kind, whatever arrives.
LEMMA StrstrStays ==
    ASSUME NEW T, NEW b \in Seq(T), NEW t \in T, NEW name, Strstr(b, name) # 0
    PROVE  Strstr(Append(b, t), name) = Strstr(b, name)
<1> DEFINE a == Append(b, t)
           n == Strstr(b, name)
<1>1. /\ a \in Seq(T) /\ Len(a) = Len(b) + 1 /\ \A i \in 1 .. Len(b) : a[i] = b[i]
  OBVIOUS
<1>2. /\ n \in 1 .. Len(b) /\ Len(b) \in Nat
      /\ b[n].kind = name /\ \A i \in 1 .. n - 1 : b[i].kind # name
  BY StrstrFinds
<1> HIDE DEF a, n
<1>3. n \in 1 .. Len(a) /\ a[n].kind = name /\ \A i \in 1 .. n - 1 : a[i].kind # name
  BY <1>1, <1>2
<1>4. QED
  BY <1>1, <1>3, StrstrUnique DEF a, n

\* The spelling tried first, if it occurs, is the one that counts.
LEMMA FirstSpelling ==
    ASSUME NEW b, NEW names, Len(names) \in Nat \ {0}, Strstr(b, names[1]) # 0
    PROVE  FindHeader(b, names) = Strstr(b, names[1])
<1> DEFINE found == {k \in 1 .. Len(names) : Strstr(b, names[k]) # 0}
<1>1. 1 \in found /\ found \subseteq Nat /\ \A k \in found : k \in Nat /\ k >= 1
  OBVIOUS
<1>2. Min(found) = 1
  <2> HIDE DEF found
  <2>1. Min(found) \in found /\ Min(found) <= 1
    BY <1>1, MinIsLeast
  <2>2. Min(found) \in Nat /\ Min(found) >= 1
    BY <1>1, <2>1
  <2>3. QED
    BY <2>1, <2>2
<1>3. FindHeader(b, names) = IF found = {} THEN 0 ELSE Strstr(b, names[Min(found)])
  BY DEF FindHeader
<1> HIDE DEF found
<1>4. QED
  BY <1>1, <1>2, <1>3

\* A header that the head has in that spelling is found in the head, and
\* stays found there.
LEMMA CanonicalStays ==
    ASSUME NEW T, NEW b \in Seq(T), NEW t \in T, HeadComplete(b),
           NEW names, Len(names) \in Nat \ {0}, Canonical(b, names)
    PROVE  /\ FindHeader(b, names) \in 1 .. Len(b)
           /\ FindHeader(Append(b, t), names) = FindHeader(b, names)
<1> DEFINE h == HeadLines(b)
           n == Strstr(h, names[1])
<1>1. h \in Seq(T) /\ Len(h) \in 0 .. Len(b) /\ \A i \in 1 .. Len(h) : h[i] = b[i]
  <2>1. /\ Strstr(b, "end") \in 2 .. Len(b) /\ Len(b) \in Nat
        /\ h \in Seq(T) /\ Len(h) = Strstr(b, "end") - 1
        /\ \A i \in 1 .. Strstr(b, "end") - 1 : h[i] = b[i]
    BY HeadIsPrefix
  <2> HIDE DEF h
  <2>2. QED
    BY <2>1
<1>2. n # 0
  BY DEF Canonical
<1> HIDE DEF h
<1>3. n \in 1 .. Len(h) /\ h[n].kind = names[1]
  BY <1>1, <1>2, StrstrFinds
<1> HIDE DEF n
<1>4. n \in 1 .. Len(b) /\ b[n].kind = names[1]
  BY <1>1, <1>3
<1>5. Strstr(b, names[1]) # 0 /\ Strstr(b, names[1]) \in 0 .. Len(b)
  BY <1>4, StrstrFinds
<1>6. Strstr(Append(b, t), names[1]) = Strstr(b, names[1])
  BY <1>5, StrstrStays
<1>7. QED
  BY <1>5, <1>6, FirstSpelling

\* So parse_http_request, called when the head has arrived, finds what it
\* would find later, as far as the head says it in that spelling.
LEMMA ParserIgnoresBody ==
    ASSUME NEW T, NEW b \in Seq(T), NEW t \in T, HeadComplete(b)
    PROVE  LET early == Parse(b)
               late  == Parse(Append(b, t))
           IN  /\ late.ok /\ late.method = early.method /\ late.body_start = early.body_start
               /\ Canonical(b, LengthNames) => late.content_length = early.content_length
               /\ Canonical(b, ConnectionNames) => late.keep_alive = early.keep_alive
<1> DEFINE a == Append(b, t)
<1>1. Len(b) \in Nat /\ Len(a) = Len(b) + 1 /\ \A i \in 1 .. Len(b) : a[i] = b[i]
  OBVIOUS
<1>2. BodyStart(a) = BodyStart(b)
  <2>1. Strstr(a, "end") = Strstr(b, "end")
    BY StrstrStays DEF HeadComplete
  <2>2. QED
    BY <2>1 DEF BodyStart
<1>3. Canonical(b, LengthNames) => ContentLength(a) = ContentLength(b)
  <2> HAVE Canonical(b, LengthNames)
  <2>1. /\ FindHeader(b, LengthNames) \in 1 .. Len(b)
        /\ FindHeader(a, LengthNames) = FindHeader(b, LengthNames)
    <3>1. Len(LengthNames) \in Nat \ {0}
      BY Spellings
    <3>2. QED
      BY <3>1, CanonicalStays
  <2> HIDE DEF a
  <2>2. QED
    BY <1>1, <2>1 DEF ContentLength
<1>4. Canonical(b, ConnectionNames) => KeepAlive(a) = KeepAlive(b)
  <2> HAVE Canonical(b, ConnectionNames)
  <2>1. /\ FindHeader(b, ConnectionNames) \in 1 .. Len(b)
        /\ FindHeader(a, ConnectionNames) = FindHeader(b, ConnectionNames)
    <3>1. Len(ConnectionNames) \in Nat \ {0}
      BY Spellings
    <3>2. QED
      BY <3>1, CanonicalStays
  <2> HIDE DEF a
  <2>2. QED
    BY <1>1, <2>1 DEF KeepAlive
<1>5. a # <<>> /\ b # <<>> /\ a[1] = b[1] /\ b[1].kind \in {"GET", "POST"}
  <2>1. b # <<>> /\ b[1].kind \in {"GET", "POST"}
    BY DEF HeadComplete
  <2>2. QED
    BY <2>1
<1> HIDE DEF a
<1>6. /\ Parse(a) = [ok |-> TRUE, method |-> b[1].kind, content_length |-> ContentLength(a),
                     keep_alive |-> KeepAlive(a), body_start |-> BodyStart(a)]
      /\ Parse(b) = [ok |-> TRUE, method |-> b[1].kind, content_length |-> ContentLength(b),
                     keep_alive |-> KeepAlive(b), body_start |-> BodyStart(b)]
  BY <1>5 DEF Parse
<1>7. QED
  BY <1>2, <1>3, <1>4, <1>6 DEF a

=============================================================================
