-------------------------------- MODULE Config --------------------------------
(***************************************************************************)
(* What the operator asks for: lith.conf as load_config reads it           *)
(* (src/src/server/config.c), the arguments of "lith start"                *)
(* (src/src/main.c) and the names of files they lead to.                   *)
(*                                                                         *)
(* A line of the file is its key without blanks, the number atoi finds in  *)
(* the value, the value as a path, and "at", the characters before the     *)
(* value.  A comment, an empty line or one without "=" has a key that no   *)
(* field has.  A path is relative ("cwd"), absolute ("abs") or relative to *)
(* the directory the program was started in ("start"); its length is       *)
(* kept, because the code copies it into arrays of 256 characters.         *)
(***************************************************************************)
EXTENDS Integers, SequencesExt

SIZE == 256     \* of line[] and of every path of ServerConfig

Path(base, name, len) == [base |-> base, name |-> name, len |-> len]
EmptyPath == Path("cwd", "", 0)

\* What can be in lith.conf, and behind "lith start".
Paths     == [base : {"cwd", "abs"}, name : STRING, len : Nat]
Lines     == [key : STRING, num : Int, path : Paths, at : Nat]
Files     == [exists : BOOLEAN, lines : Seq(Lines)]
Arguments == Seq([flag : BOOLEAN, num : Int])

\* What fits in n characters and the terminator; a shortened path names
\* something else.
Cut(p, n) == IF p.len < n THEN p ELSE [p EXCEPT !.name = "cut", !.len = n - 1]

\* global_config before anything is loaded.
Zeroed == [port |-> 0, public_dir |-> EmptyPath, use_cache |-> 0,
           ssl_cert_path |-> EmptyPath, ssl_key_path |-> EmptyPath]

DefaultCert == Path("cwd", "certs/server.crt", 16)
DefaultKey  == Path("cwd", "certs/server.key", 16)

Defaults == [port |-> 8090, public_dir |-> Path("cwd", "public", 6), use_cache |-> 1,
             ssl_cert_path |-> DefaultCert, ssl_key_path |-> DefaultKey]

-----------------------------------------------------------------------------
(* load_config. *)

\* The keys of each field, in lower case only.
KeysOf == [port |-> {"port"}, public_dir |-> {"public_dir"}, use_cache |-> {"use_cache"},
           ssl_cert_path |-> {"ssl_cert_path", "ssl_cert_file"},
           ssl_key_path  |-> {"ssl_key_path", "ssl_key_file"}]

Numeric == {"port", "use_cache"}

\* fgets delivers at most SIZE - 1 characters of a line.  (What it delivers
\* next, the rest of a long value, has no "=" and is skipped.)
Value(f, line) ==
    IF f \in Numeric THEN line.num ELSE Cut(Cut(line.path, SIZE - line.at), SIZE)

\* Mutant: a field that is set is not set again.
AssignOnce(c, line) ==
    [f \in DOMAIN c |-> IF line.key \in KeysOf[f] /\ c[f] = Zeroed[f] THEN Value(f, line)
                                                                     ELSE c[f]]

Assign(c, line) ==
    [f \in DOMAIN c |-> IF line.key \in KeysOf[f] THEN Value(f, line) ELSE c[f]]

LoadConfig(file) ==
    IF file.exists THEN FoldLeft(Assign, Zeroed, file.lines) ELSE Defaults

-----------------------------------------------------------------------------
(* The arguments after "start": a flag, or whatever atoi makes of the text.*)

DaemonFlag == [flag |-> TRUE, num |-> 0]
Number(n)  == [flag |-> FALSE, num |-> n]

UseDaemon(args) == \E i \in 1 .. Len(args) : args[i].flag

PortOverride(args) ==
    FoldLeft(LAMBDA p, a : IF ~a.flag /\ a.num > 0 THEN a.num ELSE p, 0, args)

\* Mutant: the daemon serves the directory under the name it was given.
AbsolutiseNot(p, startLen) == p

\* A daemon leaves its directory: a public_dir that is not absolute is put
\* behind the name of the directory the program was started in.
Absolutise(p, startLen) ==
    IF p.base = "abs" THEN p ELSE Cut(Path("start", p.name, startLen + 1 + p.len), SIZE)

Effective(c, args, startLen) ==
    [c EXCEPT !.port = IF PortOverride(args) > 0 THEN PortOverride(args) ELSE @,
              !.public_dir = IF UseDaemon(args) THEN Absolutise(@, startLen) ELSE @]

\* Mutant: a port of any size is passed on.
HtonsWide(port) == port

MaxPort == 65535

\* htons takes the low sixteen bits of the port.
Htons(port) == port % (MaxPort + 1)

OrElse(p, default) == IF p.len > 0 THEN p ELSE default

\* The file that a path names in working directory cwd.
Locate(p, cwd) == [dir |-> IF p.base = "cwd" THEN cwd ELSE p.base, name |-> p.name]

\* The directory in which the router finds public_dir followed by "/...".
Served(p, cwd) == IF p.len = 0 THEN [dir |-> "abs", name |-> ""] ELSE Locate(p, cwd)

-----------------------------------------------------------------------------
(* What the operator means, read from the inputs as a whole: the last line *)
(* that names a field counts, and the last positive number given as an     *)
(* argument counts more than the file.                                     *)

LineFits(line) == line.at + line.path.len < SIZE

Fits(file) == \A i \in 1 .. Len(file.lines) : LineFits(file.lines[i])

\* The keys the operator is told of: in upper case by the manual
\* (README.MD:39-50), in lower case by the lith.conf of the repository.
UpperKeys == [port |-> {"PORT"}, public_dir |-> {"PUBLIC_DIR"}, use_cache |-> {"USE_CACHE"},
              ssl_cert_path |-> {}, ssl_key_path |-> {}]

LowerKeys == [port |-> {"port"}, public_dir |-> {"public_dir"}, use_cache |-> {"use_cache"},
              ssl_cert_path |-> {"ssl_cert_path", "ssl_cert_file"},
              ssl_key_path  |-> {"ssl_key_path", "ssl_key_file"}]

\* No line names the field in upper case, or none does in lower case.
LowerCase(file, f) == \A i \in 1 .. Len(file.lines) : file.lines[i].key \notin UpperKeys[f]
UpperCase(file, f) == \A i \in 1 .. Len(file.lines) : file.lines[i].key \notin LowerKeys[f]

Meant(file, f) ==
    LET named == {i \in 1 .. Len(file.lines) : file.lines[i].key \in LowerKeys[f] \cup UpperKeys[f]}
        last  == file.lines[Max(named)]
    IN  IF ~file.exists THEN Defaults[f]
        ELSE IF named = {} THEN Zeroed[f]
        ELSE IF f \in Numeric THEN last.num ELSE last.path

MeantPort(file, args) ==
    LET ports == {i \in 1 .. Len(args) : ~args[i].flag /\ args[i].num > 0}
    IN  IF ports = {} THEN Meant(file, "port") ELSE args[Max(ports)].num

=============================================================================
