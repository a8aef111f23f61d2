---------------------------- MODULE MCAlgorithms ----------------------------
(***************************************************************************)
(* The sequential parts on bounded inputs: parse_http_request on every     *)
(* buffer of at most MaxTokens tokens, grown one token at a time as        *)
(* SSL_read delivers them, load_config on every lith.conf of at most       *)
(* MaxLines lines, and the way from the path of a request to a file.  One  *)
(* of the three inputs is looked at in a behaviour.                        *)
(***************************************************************************)
EXTENDS HttpParser, Config, Names

CONSTANTS Kinds,       \* the token kinds that occur
          MaxTokens,   \* bound: length of the buffer
          MaxLines     \* bound: length of lith.conf

VARIABLES buffer, lines, asked

vars == <<buffer, lines, asked>>

Tokens == {Line(k) : k \in Kinds \cap {"GET", "POST", "junk", "end", "b"}}
          \cup {Header(k, n) : k \in {x \in Kinds : IsLength(Line(x))}, n \in {-1, 2}}
          \cup {Header(k, c) : k \in {x \in Kinds : IsConnection(Line(x))},
                               c \in {CLOSE, KEEP, UPGRADE}}

Setting(key, num, path, at) == [key |-> key, num |-> num, path |-> path, at |-> at]

\* Numbers, a text that is none, names that fill the line exactly or by one
\* too many, the two names of one field, the upper case of the manual, and a
\* comment.
Settings ==
    {Setting("port", 8050, EmptyPath, 5), Setting("port", 0, EmptyPath, 5),
     Setting("PORT", 8001, EmptyPath, 5), Setting("#", 0, EmptyPath, 1),
     Setting("use_cache", 1, EmptyPath, 10),
     Setting("PUBLIC_DIR", 0, Path("cwd", "views", 5), 11),
     Setting("public_dir", 0, Path("cwd", "site", 4), 11),
     Setting("public_dir", 0, Path("abs", "long", 244), 11),
     Setting("public_dir", 0, Path("abs", "longer", 245), 11),
     Setting("ssl_cert_path", 0, Path("abs", "a.crt", 6), 14),
     Setting("ssl_cert_file", 0, Path("cwd", "b.crt", 5), 16),
     Setting("ssl_key_path", 0, Path("abs", "a.key", 6), 13),
     Setting("ssl_key_file", 0, EmptyPath, 13)}

\* Directories of every length, and the cached files, what is left of the name
\* of one when it is cut, and a path longer than any array.
DirLengths == 0 .. 255
Asked == {Root, Index, Style, Nothing, Prefix("/long", 300), Prefix("/long", 255)}
         \cup {Prefix(f.text, k) : f \in {Index, Style}, k \in 2 .. 10}

NoOne == [dir |-> 0, path |-> Nothing]

Init == buffer = <<>> /\ lines = <<>> /\ asked = NoOne

Ask ==
    /\ buffer = <<>> /\ lines = <<>> /\ asked = NoOne
    /\ asked' \in [dir : DirLengths, path : Asked]
    /\ UNCHANGED <<buffer, lines>>

Receive ==
    /\ lines = <<>> /\ asked = NoOne /\ Len(buffer) < MaxTokens
    /\ \E t \in Tokens : buffer' = Append(buffer, t)
    /\ UNCHANGED <<lines, asked>>

Edit ==
    /\ buffer = <<>> /\ asked = NoOne /\ Len(lines) < MaxLines
    /\ \E s \in Settings : lines' = Append(lines, s)
    /\ UNCHANGED <<buffer, asked>>

Spec == Init /\ [][Ask \/ Receive \/ Edit]_vars

\* On what a well-behaved client sends, parse_http_request finds what the
\* request means.
ParserAgrees == WellFormed(buffer) => Parse(buffer) = Meaning(buffer)

\* Once the head is complete, nothing that arrives behind it, a line that
\* looks like a header or like a request included, changes the method or the
\* start of the body, nor what a header says that the head has in the spelling
\* strstr is first called with.
BodyIsInert ==
    [][HeadComplete(buffer) /\ Len(buffer') > Len(buffer) =>
         LET early == Parse(buffer)
             late  == Parse(buffer')
         IN  /\ late.ok /\ late.method = early.method /\ late.body_start = early.body_start
             /\ Canonical(buffer, LengthNames) => late.content_length = early.content_length
             /\ Canonical(buffer, ConnectionNames) => late.keep_alive = early.keep_alive]_vars

\* load_config, line by line with its fixed buffers, arrives at what the file
\* as a whole says of a field, whatever the order of the lines, repeated keys
\* and the two names of a field, if every line fits the buffer of fgets and
\* none names the field in upper case.  A field that is named in upper case
\* only, as in the manual (PORT=8001), is not set: the server gets zero.
ConfigAgrees ==
    LET file == [exists |-> TRUE, lines |-> lines]
    IN  \A f \in DOMAIN Zeroed :
            /\ Fits(file) /\ LowerCase(file, f) => LoadConfig(file)[f] = Meant(file, f)
            /\ UpperCase(file, f) => LoadConfig(file)[f] = Zeroed[f]

\* The name of a file never outgrows the router's array.  A cached file is
\* found under its own name and "/" under that of the index, no other request
\* gets it, and its type is the one the disk would give, as long as the
\* longest cached name fits the key.
NamesAgree ==
    LET file == FilePath(asked.dir, Extracted(asked.path))
    IN  /\ LengthOf(file) < FILE_PATH
        /\ asked.dir + Index.keep < KEY_SIZE => \A b \in BootTypes :
              /\ Key(asked.dir, b[1]) = file
                    <=> asked.path = b[1] \/ (asked.path = Root /\ b[1] = Index)
              /\ Key(asked.dir, b[1]) = file => get_mime_type(file.path) = b[2]

=============================================================================
