---------------------------- MODULE MCLifecycle ----------------------------
(* Instances of Lifecycle for TLC; the bounds are in the configurations. *)
EXTENDS Lifecycle

Setting(key, num, path, at) == [key |-> key, num |-> num, path |-> path, at |-> at]
File(lines) == [exists |-> TRUE, lines |-> lines]
NoFile == [exists |-> FALSE, lines |-> <<>>]
Launch(command, file, args, startLen, workers, kills) ==
    [command |-> command, file |-> file, args |-> args, startLen |-> startLen,
     threads |-> workers, signals |-> kills]

Dir  == Setting("public_dir", 0, Path("cwd", "public", 6), 11)
Cert == Setting("ssl_cert_file", 0, Path("abs", "lith.crt", 8), 14)
Key  == Setting("ssl_key_path", 0, Path("abs", "lith.key", 8), 13)
Port(n) == Setting("port", n, EmptyPath, 5)
CacheOn == Setting("use_cache", 1, EmptyPath, 10)

\* Foreground with the defaults; a daemon with absolute certificate paths and
\* the port twice on the command line; a daemon started from a directory with
\* a long name, on a port that does not exist; one that will not find its
\* certificate; and the commands that do not start anything.
AllLaunches ==
    {Launch("start", NoFile, <<>>, 10, 1, 2),
     Launch("start", NoFile, <<>>, 10, 2, 1),
     Launch("start", File(<<Port(80), Dir, Cert, Key, CacheOn>>),
                     <<Number(8080), DaemonFlag, Number(8050)>>, 10, 1, 1),
     Launch("start", File(<<Dir, Cert, Key>>), <<DaemonFlag, Number(70000)>>, 250, 1, 0),
     Launch("start", File(<<Port(8050), Dir>>), <<DaemonFlag>>, 10, 1, 0),
     Launch("info", NoFile, <<>>, 10, 0, 0), Launch("other", NoFile, <<>>, 10, 0, 0)}

DaemonLaunch == {Launch("start", File(<<Port(8050), Dir>>), <<DaemonFlag>>, 10, 1, 0)}

\* The certificate of generate_certs.sh in the starting directory, and one
\* with an absolute name.
Certificates ==
    {[dir |-> "start", name |-> "certs/server.crt"], [dir |-> "start", name |-> "certs/server.key"],
     [dir |-> "abs", name |-> "lith.crt"], [dir |-> "abs", name |-> "lith.key"]}

=============================================================================
