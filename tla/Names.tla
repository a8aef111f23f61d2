-------------------------------- MODULE Names --------------------------------
(***************************************************************************)
(* From the path of a request to a file: the extraction of the path by     *)
(* parse_http_request, the name the router builds behind public_dir, the   *)
(* key under which thread_pool_init cached a file, and get_mime_type.      *)
(*                                                                         *)
(* Every name is a prefix of the directory followed by a path: the fixed   *)
(* arrays of the code cut names, and a cut name may be another's.          *)
(***************************************************************************)
EXTENDS Integers

MAX_PATH_SIZE == 256     \* req->path
FILE_PATH     == 512     \* file_path of the router
KEY_SIZE      == 256     \* CacheEntry.filepath

\* The first "keep" characters of path "text".
Prefix(text, keep) == [text |-> text, keep |-> keep]

\* The first "dir" characters of the directory and, after all of it, a path.
Name(dir, path) == [dir |-> dir, path |-> path]

Nothing == Prefix("", 0)
Root    == Prefix("/", 1)

\* Two paths that begin with a slash have that much in common.
Shortened(path, keep) ==
    CASE keep <= 0 -> Nothing
      [] keep = 1 -> Root
      [] OTHER -> Prefix(path.text, keep)

LengthOf(name) == name.dir + name.path.keep

\* A copy into an array of n characters.
Copied(name, n) ==
    IF LengthOf(name) < n THEN name
    ELSE IF name.dir < n THEN Name(name.dir, Shortened(name.path, n - 1 - name.dir))
    ELSE Name(n - 1, Nothing)

-----------------------------------------------------------------------------
\* What thread_pool_init caches, with the type it names for each.
Index == Prefix("/index.html", 11)
Style == Prefix("/style.css", 10)
BootTypes == {<<Index, "text/html">>, <<Style, "text/css">>}

\* Mutant: the path is copied without a limit.
ExtractedWhole(path) == path

\* The characters of the request line up to the next blank, as many as fit.
Extracted(path) == Copied(Name(0, path), MAX_PATH_SIZE).path

FilePath(dir, path) == Name(dir, IF path = Root THEN Index ELSE path)

Key(dir, path) == Copied(Name(dir, path), KEY_SIZE)

\* The extension decides, and a name that is cut has lost it.  Of the types
\* the code knows, those of the cached files are kept.
get_mime_type(path) ==
    CASE path \in {Index, Prefix(Index.text, 10)} -> "text/html"
      [] path = Style -> "text/css"
      [] OTHER -> "application/octet-stream"

=============================================================================
