----------------------------- MODULE MCUnixSocket ------------------------------
(***************************************************************************)
(* UnixSocket with three processes, directories that are there, missing or *)
(* not usable, and environments at the edges of what is accepted.          *)
(***************************************************************************)
EXTENDS UnixSocket

\* Texts: a number, and one followed by other characters.
Text(digits) == [minus |-> FALSE, digits |-> digits, rest |-> FALSE]
Negative(digits) == [minus |-> TRUE, digits |-> digits, rest |-> FALSE]
Suffixed(digits) == [minus |-> FALSE, digits |-> digits, rest |-> TRUE]

Digits(n) == [i \in 1..9 |-> (n \div 10^(9 - i)) % 10]

Path(path) == [form |-> "unix", path |-> path, port |-> Unset]
Port(text) == [form |-> "host:port", path |-> <<>>, port |-> text]
Neither == [form |-> "neither", path |-> <<>>, port |-> Unset]

\* The environment with some variables set.
With(changes) == [v \in Variables |-> IF v \in DOMAIN changes THEN changes[v] ELSE Unset]

\* Environments that are accepted.  Numbers: the largest int, one more, the
\* first that wraps to 0, one that no long holds.
Accepted ==
    <<With("MTDD_UNIX_SOCKET_MODE" :> Text(<<4, 4, 0>>) @@ "MTDD_ENV" :> "prod"
           @@ "MTDD_HOST_INDEX" :> Text(<<0>>)),
      With("MTDD_UNIX_SOCKET_CREATE_DIR" :> "yes" @@ "MTDD_POOL_SIZE" :> Text(Digits(2^21 - 1))
           @@ "MTDD_UNIX_SOCKET_DIR_MODE" :> Text(<<0, 7, 0, 0>>)
           @@ "MTDD_LISTEN" :> Path(<<"/", "/", "run", "/", "mtdd", "/", "s">>)),
      With("MTDD_UNIX_SOCKET_CREATE_DIR" :> "yes" @@ "MTDD_UNIX_SOCKET_DIR_MODE" :> Text(<<4, 0, 0>>)),
      With("MTDD_LISTEN" :> Port(Text(Digits(2^28))) @@ "MTDD_HOST_INDEX" :> Text(<<7>>)
           @@ "MTDD_POOL_SIZE" :> Text(Digits(2^21)) @@ "MTDD_ENV" :> "production"
           @@ "MTDD_STATEMENT_TIMEOUT_MS" :> Text(Digits(2^22))
           @@ "MTDD_ALLOW_TCP_LISTEN" :> "yes")>>

Rejected ==
    <<With("MTDD_POOL_SIZE" :> Text(<<0>>)), With("MTDD_POOL_SIZE" :> Text(<<>>)),
      With("MTDD_MAX_SESSIONS" :> Suffixed(<<1>>)), With("MTDD_HOST_INDEX" :> Negative(<<1>>)),
      With("MTDD_UNIX_SOCKET_MODE" :> Text(<<6, 8, 0>>)),
      With("MTDD_UNIX_SOCKET_MODE" :> Text(<<1, 0, 0, 0>>)),
      With("MTDD_GRPC_TLS" :> "1"), With("MTDD_NOTIFY_ENABLED" :> "maybe"),
      With("MTDD_LISTEN" :> Neither), With("MTDD_LISTEN" :> Path(<<>>)),
      With("MTDD_LISTEN" :> Path(<<"run">>)), With("MTDD_LISTEN" :> Path(<<"/", "/">>)),
      With("MTDD_LISTEN" :> Path(<<"/", "..", "/", "s">>)),
      With("MTDD_LISTEN" :> Path(<<"/", "a", "/", "b", "/", "c", "/", "s">>)),
      With("MTDD_ENV" :> "prod"),
      With("MTDD_ENV" :> "prod" @@ "MTDD_HOST_INDEX" :> Text(<<1>>)
           @@ "MTDD_LISTEN" :> Port(Unset))>>

MCEnvs == Accepted \o Rejected

\* The root, and the two directories above the socket.
MCInitialDirs ==
    {(0 :> "dir") @@ (1 :> a) @@ (2 :> b) :
        <<a, b>> \in {<<"dir", "dir">>, <<"dir", "absent">>, <<"absent", "absent">>,
                      <<"readonly", "absent">>, <<"dir", "file">>}}
=============================================================================
